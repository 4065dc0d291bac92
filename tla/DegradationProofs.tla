-------------------------- MODULE DegradationProofs --------------------------
(* Theorems about model degradation, for every pricing table, budget and     *)
(* number of agents.                                                         *)
EXTENDS Degradation, TreasuryProofs

(* The default table of pricing.py never degrades to a model that is missing *)
(* or not cheaper.                                                           *)
THEOREM DefaultTableIsOrdered == WellOrdered(DefaultTable)
<1> DEFINE T == DefaultTable
<1>1. DOMAIN T = {"claude-opus-4", "claude-3-5-sonnet", "claude-3-5-haiku",
                  "gpt-4o", "gpt-4o-mini"}
  BY DEF DefaultTable
<1>2. /\ T["claude-opus-4"] = Price(1500, 7500, "claude-3-5-sonnet")
      /\ T["claude-3-5-sonnet"] = Price(300, 1500, "claude-3-5-haiku")
      /\ T["claude-3-5-haiku"] = Price(80, 400, NoModel)
      /\ T["gpt-4o"] = Price(250, 1000, "gpt-4o-mini")
      /\ T["gpt-4o-mini"] = Price(15, 60, NoModel)
  BY DEF DefaultTable
<1> HIDE DEF T
<1>3. ASSUME NEW m \in DOMAIN T, T[m].degradeTo # NoModel
      PROVE  T[m].degradeTo \in DOMAIN T /\ Cheaper(T[T[m].degradeTo], T[m])
  <2>1. CASE m = "claude-opus-4"
    BY <1>1, <1>2, <2>1 DEF Price, Cheaper
  <2>2. CASE m = "claude-3-5-sonnet"
    BY <1>1, <1>2, <2>2 DEF Price, Cheaper
  <2>3. CASE m = "gpt-4o"
    BY <1>1, <1>2, <2>3 DEF Price, Cheaper
  <2>4. CASE m \in {"claude-3-5-haiku", "gpt-4o-mini"}
    BY <1>2, <1>3, <2>4 DEF Price
  <2> QED  BY <1>1, <2>1, <2>2, <2>3, <2>4
<1> QED  BY <1>3 DEF WellOrdered, T

(* A call on the cheaper of two models costs less, whatever the mix of input *)
(* and output tokens, unless it uses none.                                   *)
THEOREM CheaperCostsLess ==
  ASSUME NEW p \in [input : Nat, output : Nat, degradeTo : STRING],
         NEW q \in [input : Nat, output : Nat, degradeTo : STRING],
         Cheaper(p, q), NEW i \in Nat, NEW o \in Nat, i + o > 0
  PROVE  CostOf(p, i, o) < CostOf(q, i, o)
<1>1. \A x, y, n \in Nat : x < y => x * n <= y * n
  OBVIOUS
<1>2. \A x, y \in Nat, n \in Nat \ {0} : x < y => x * n < y * n
  OBVIOUS
<1>3. p.input * i <= q.input * i /\ p.output * o <= q.output * o
  BY <1>1 DEF Cheaper
<1>4. p.input * i < q.input * i \/ p.output * o < q.output * o
  BY <1>2 DEF Cheaper
<1>5. /\ p.input * i \in Nat /\ q.input * i \in Nat
      /\ p.output * o \in Nat /\ q.output * o \in Nat
  OBVIOUS
<1> QED  BY <1>3, <1>4, <1>5 DEF CostOf
-----------------------------------------------------------------------------
(* A thread inside resolve_model carries an agent of its own and a request,  *)
(* and a listed model once it is about to force one.                         *)
DecisionsCarry ==
  \A c \in Caller :
    /\ decision[c].at \notin {"idle", "step"} =>
         /\ decision[c].agent \in AgentsOf[c]
         /\ decision[c].requested \in Requested
    /\ decision[c].at \in {"emit", "force"} => decision[c].target \in Model

LEMMA DegradationStepIsOperation ==
  ASSUME [DegradationNext]_degradationVars
  PROVE  [AnyOperation]_treasuryVars
<1>1. Amount \subseteq Nat /\ Spend \subseteq Int
  BY TreasuryAssumption
<1>2. /\ \A t, s : Release(t, s) => t \in active
      /\ \A t, x : GrantExtension(t, x) => t \in active
  BY DEF Release, GrantExtension
<1>3. UseTreasury => AnyOperation
  BY <1>1, <1>2 DEF UseTreasury, Operation, AnyOperation
<1> QED
  BY <1>3
  DEF DegradationNext, RecordStepCompleted, ReadRemaining, ReadUtilization,
      Compare, Look, Swap, degradationVars

LEMMA UndecidedTyped ==
  /\ Undecided \in Decision /\ Undecided.at = "idle"
  /\ Undecided.answer = NoModel
  BY DEF Undecided, Decision

\* What each step does to the thread that takes it.
LEMMA RecordMoves ==
  ASSUME DegradationTypeOK, NEW c \in Caller, RecordStepCompleted(c)
  PROVE  \E r \in Decision :
           /\ r.at \in {"idle", "step"} /\ r.answer = NoModel
           /\ decision' = [decision EXCEPT ![c] = r]
<1> DEFINE new == [Undecided EXCEPT !.at = "step", !.steps = completed]
<1>1. completed \in Nat
  BY DEF DegradationTypeOK
<1>2. new \in Decision /\ new.at = "step" /\ new.answer = NoModel
  BY <1>1, UndecidedTyped DEF Decision
<1>3. \/ decision' = [decision EXCEPT ![c] = new]
      \/ decision' = [decision EXCEPT ![c] = Undecided]
  BY DEF RecordStepCompleted
<1> HIDE DEF new
<1> QED  BY <1>2, <1>3, UndecidedTyped

LEMMA ReadRemainingMoves ==
  ASSUME DegradationTypeOK, NEW c \in Caller,
         NEW a \in AgentsOf[c], NEW m \in Requested, ReadRemaining(c, a, m)
  PROVE  \E r \in Decision :
           /\ r.at = "remaining" /\ r.agent = a /\ r.requested = m
           /\ r.low = Low(Available) /\ r.answer = NoModel
           /\ decision' = [decision EXCEPT ![c] = r]
<1> DEFINE low == Low(Available)
           new == [Undecided EXCEPT !.at = "remaining", !.agent = a,
                                    !.requested = m, !.low = low]
<1>1. low \in BOOLEAN
  BY DEF Low
<1>2. decision' = [decision EXCEPT ![c] = new]
  BY DEF ReadRemaining
<1> HIDE DEF low
<1>3. a \in Agent
  BY DegradationAssumption
<1>4. /\ new \in Decision /\ new.at = "remaining" /\ new.agent = a
      /\ new.requested = m /\ new.low = low /\ new.answer = NoModel
  BY <1>1, <1>3, UndecidedTyped DEF Decision
<1> QED  BY <1>2, <1>4 DEF low

LEMMA AnswerMoves ==
  ASSUME DegradationTypeOK, NEW c \in Caller,
         NEW m \in Model \cup Requested
                     \cup {NoModel, UnknownPricing, CallbackError},
         Answer(c, m)
  PROVE  \E r \in Decision :
           /\ r.at = "idle" /\ r.answer = m /\ r.agent = decision[c].agent
           /\ r.requested = decision[c].requested
           /\ decision' = [decision EXCEPT ![c] = r]
<1> DEFINE d == decision[c]
           new == [Undecided EXCEPT !.agent = d.agent,
                                    !.requested = d.requested, !.answer = m]
<1>1. d \in Decision
  BY DEF DegradationTypeOK
<1>2. decision' = [decision EXCEPT ![c] = new]
  BY DEF Answer
<1> HIDE DEF d
<1>3. /\ new \in Decision /\ new.at = "idle" /\ new.answer = m
      /\ new.agent = d.agent /\ new.requested = d.requested
  BY <1>1, UndecidedTyped DEF Decision
<1> HIDE DEF new
<1> QED  BY <1>2, <1>3 DEF d

\* A thread that moves on keeps whom it resolves for and its last answer.
Onward(c, r, place) ==
  /\ r.at = place /\ r.answer = decision[c].answer
  /\ decision' = [decision EXCEPT ![c] = r]
  /\ r.agent = decision[c].agent /\ r.requested = decision[c].requested

\* A thread that ends its call.
Ends(c, r, m) ==
  /\ r.at = "idle" /\ r.answer = m
  /\ decision' = [decision EXCEPT ![c] = r]
  /\ r.agent = decision[c].agent /\ r.requested = decision[c].requested

LEMMA ReadUtilizationMoves ==
  ASSUME TypeOK, DegradationTypeOK, DecisionsCarry, NEW c \in Caller,
         ReadUtilization(c)
  PROVE  /\ decision[c].at = "remaining"
         /\ \E r \in Decision :
              \/ Onward(c, r, "used") /\ decision[c].low
              \/ Ends(c, r, decision[c].requested)
<1> DEFINE u == Used(Available)
           new == [decision[c] EXCEPT !.at = "used", !.used = u]
<1>1. decision[c] \in Decision /\ decision[c].at = "remaining"
      /\ decision[c].requested \in Requested
  BY DEF DegradationTypeOK, ReadUtilization, DecisionsCarry
<1>2. CASE decision[c].low
  <2>1. u \in Int
    BY TreasuryAssumption DEF Used, Available, TypeOK
  <2>2. decision' = [decision EXCEPT ![c] = new]
    BY <1>2 DEF ReadUtilization, DegradationTypeOK
  <2> HIDE DEF u
  <2>3. /\ new \in Decision /\ new.at = "used"
        /\ new.answer = decision[c].answer
        /\ new.agent = decision[c].agent
        /\ new.requested = decision[c].requested
    BY <1>1, <2>1 DEF Decision
  <2> HIDE DEF new
  <2> QED  BY <1>1, <1>2, <2>2, <2>3 DEF Onward
<1>3. CASE ~decision[c].low
  <2>1. Answer(c, decision[c].requested)
    BY <1>3 DEF ReadUtilization
  <2> QED  BY <1>1, <2>1, AnswerMoves DEF Ends
<1> QED  BY <1>2, <1>3

LEMMA CompareMoves ==
  ASSUME DegradationTypeOK, DecisionsCarry, NEW c \in Caller, Compare(c)
  PROVE  /\ decision[c].at = "used"
         /\ \E r \in Decision : \/ Onward(c, r, "critical")
                                \/ Ends(c, r, decision[c].requested)
<1> DEFINE new == [decision[c] EXCEPT !.at = "critical"]
<1>1. decision[c] \in Decision /\ decision[c].at = "used"
      /\ decision[c].requested \in Requested
  BY DEF DegradationTypeOK, Compare, DecisionsCarry
<1>2. CASE decision' = [decision EXCEPT ![c].at = "critical"]
  <2>1. decision' = [decision EXCEPT ![c] = new]
    BY <1>2 DEF DegradationTypeOK
  <2>2. /\ new \in Decision /\ new.at = "critical"
        /\ new.answer = decision[c].answer
        /\ new.agent = decision[c].agent
        /\ new.requested = decision[c].requested
    BY <1>1 DEF Decision
  <2> HIDE DEF new
  <2> QED  BY <1>1, <2>1, <2>2 DEF Onward
<1>3. CASE Answer(c, decision[c].requested)
  BY <1>1, <1>3, AnswerMoves DEF Ends
<1> QED  BY <1>2, <1>3 DEF Compare

LEMMA LookMoves ==
  ASSUME DegradationTypeOK, DecisionsCarry, NEW c \in Caller, Look(c)
  PROVE  /\ decision[c].at = "critical"
         /\ \E r \in Decision :
              \/ Ends(c, r, UnknownPricing)
              \/ Ends(c, r, Current(c))
              \/ /\ Onward(c, r, "emit")
                 /\ Current(c) \in Model
                 /\ r.target = Table[Current(c)].degradeTo
                 /\ r.target \in Model
<1>1. decision[c] \in Decision /\ decision[c].at = "critical"
  BY DEF DegradationTypeOK, Look
<1>2. CASE Current(c) \notin Model
  <2>1. Answer(c, UnknownPricing)
    BY <1>2 DEF Look
  <2> QED  BY <1>1, <2>1, AnswerMoves DEF Ends
<1>3. CASE Current(c) \in Model /\ Table[Current(c)].degradeTo = NoModel
  <2>1. Answer(c, Current(c))
    BY <1>3 DEF Look
  <2> QED  BY <1>1, <1>3, <2>1, AnswerMoves DEF Ends
<1>4. CASE Current(c) \in Model /\ Table[Current(c)].degradeTo # NoModel
  <2> DEFINE target == Table[Current(c)].degradeTo
             new == [decision[c] EXCEPT !.at = "emit", !.target = target]
  <2>1. decision' = [decision EXCEPT ![c] = new]
    BY <1>4 DEF Look, DegradationTypeOK
  <2>2. target \in Model
    BY <1>4, DegradationAssumption
  <2> HIDE DEF target
  <2>3. /\ new \in Decision /\ new.at = "emit" /\ new.target = target
        /\ new.answer = decision[c].answer
        /\ new.agent = decision[c].agent
        /\ new.requested = decision[c].requested
    BY <1>1, <2>2 DEF Decision
  <2> HIDE DEF new
  <2> QED  BY <1>1, <1>4, <2>1, <2>2, <2>3 DEF Onward, target
<1> QED  BY <1>2, <1>3, <1>4

LEMMA SwapMoves ==
  ASSUME DegradationTypeOK, DecisionsCarry, NEW c \in Caller, Swap(c)
  PROVE  \E r \in Decision :
           \/ /\ decision[c].at = "emit" /\ forced' = forced /\ Report(c)
              /\ Onward(c, r, "force") /\ r.target = decision[c].target
           \/ /\ decision[c].at = "force" /\ events' = events /\ Remember(c)
              /\ \/ Ends(c, r, decision[c].target)
                 \/ Ends(c, r, CallbackError)
<1>1. decision[c] \in Decision
  BY DEF DegradationTypeOK
<1>2. CASE decision[c].at = "emit"
  <2> DEFINE new == [decision[c] EXCEPT !.at = "force"]
  <2>1. decision' = [decision EXCEPT ![c] = new]
    BY <1>2 DEF Swap, DegradationTypeOK
  <2>2. /\ new \in Decision /\ new.at = "force"
        /\ new.target = decision[c].target
        /\ new.answer = decision[c].answer
        /\ new.agent = decision[c].agent
        /\ new.requested = decision[c].requested
    BY <1>1 DEF Decision
  <2> HIDE DEF new
  <2>3. forced' = forced /\ Report(c)
    BY <1>2 DEF Swap
  <2> QED  BY <1>2, <2>1, <2>2, <2>3 DEF Onward
<1>3. CASE decision[c].at = "force"
  <2>1. /\ events' = events /\ Remember(c)
        /\ Answer(c, decision[c].target) \/ Answer(c, CallbackError)
    BY <1>3 DEF Swap
  <2>2. decision[c].target \in Model
    BY <1>3 DEF DecisionsCarry
  <2> QED  BY <1>3, <2>1, <2>2, AnswerMoves DEF Ends
<1> QED  BY <1>2, <1>3 DEF Swap
-----------------------------------------------------------------------------
LEMMA DegradationTyped ==
  ASSUME TypeOK, DegradationTypeOK, DecisionsCarry,
         [DegradationNext]_degradationVars
  PROVE  DegradationTypeOK'
<1>1. ASSUME NEW c \in Caller, RecordStepCompleted(c)
      PROVE  DegradationTypeOK'
  <2>1. decision' \in [Caller -> Decision]
    BY <1>1, RecordMoves DEF DegradationTypeOK
  <2>2. decision[c] \in Decision
    BY DEF DegradationTypeOK
  <2>3. completed' \in Nat
    BY <1>1, <2>2 DEF RecordStepCompleted, DegradationTypeOK, Decision
  <2> QED  BY <1>1, <2>1, <2>3 DEF RecordStepCompleted, DegradationTypeOK
<1>2. CASE UseTreasury
  BY <1>2 DEF UseTreasury, engineVars, DegradationTypeOK
<1>3. ASSUME NEW c \in Caller, NEW a \in AgentsOf[c], NEW m \in Requested,
             ReadRemaining(c, a, m)
      PROVE  DegradationTypeOK'
  <2>1. decision' \in [Caller -> Decision]
    BY <1>3, ReadRemainingMoves DEF DegradationTypeOK
  <2> QED  BY <1>3, <2>1 DEF ReadRemaining, DegradationTypeOK
<1>4. ASSUME NEW c \in Caller, ReadUtilization(c)
      PROVE  DegradationTypeOK'
  <2>1. decision' \in [Caller -> Decision]
    BY <1>4, ReadUtilizationMoves DEF DegradationTypeOK, Onward, Ends
  <2> QED  BY <1>4, <2>1 DEF ReadUtilization, DegradationTypeOK
<1>5. ASSUME NEW c \in Caller, Compare(c)
      PROVE  DegradationTypeOK'
  <2>1. decision' \in [Caller -> Decision]
    BY <1>5, CompareMoves DEF DegradationTypeOK, Onward, Ends
  <2> QED  BY <1>5, <2>1 DEF Compare, DegradationTypeOK
<1>6. ASSUME NEW c \in Caller, Look(c)
      PROVE  DegradationTypeOK'
  <2>1. decision' \in [Caller -> Decision]
    BY <1>6, LookMoves DEF DegradationTypeOK, Onward, Ends
  <2> QED  BY <1>6, <2>1 DEF Look, DegradationTypeOK
<1>7. ASSUME NEW c \in Caller, Swap(c)
      PROVE  DegradationTypeOK'
  <2>1. decision' \in [Caller -> Decision]
    BY <1>7, SwapMoves DEF DegradationTypeOK, Onward, Ends
  <2>2. /\ decision[c].requested \in Requested /\ decision[c].target \in Model
        /\ decision[c].agent \in Agent
    BY <1>7, DegradationAssumption DEF Swap, DecisionsCarry
  <2>3. events' \in Seq(Event)
    <3> DEFINE e == [agent |-> decision[c].agent,
                     original |-> decision[c].requested,
                     degraded |-> decision[c].target]
    <3>1. e \in Event
      BY <2>2 DEF Event
    <3>2. events' = events \/ events' = Append(events, e)
      BY <1>7 DEF Swap, Report
    <3> HIDE DEF e
    <3> QED  BY <3>1, <3>2 DEF DegradationTypeOK
  <2>4. forced' \in [Agent -> Model \cup {NoModel}]
    BY <1>7, <2>2 DEF Swap, Remember, DegradationTypeOK
  <2> QED  BY <1>7, <2>1, <2>3, <2>4 DEF Swap, DegradationTypeOK
<1>8. CASE UNCHANGED degradationVars
  BY <1>8 DEF degradationVars, engineVars, DegradationTypeOK
<1> QED
  BY <1>1, <1>2, <1>3, <1>4, <1>5, <1>6, <1>7, <1>8 DEF DegradationNext

LEMMA DecisionsStayCarried ==
  ASSUME TypeOK, DegradationTypeOK, DecisionsCarry,
         [DegradationNext]_degradationVars
  PROVE  DecisionsCarry'
<1>1. CASE UNCHANGED decision
  BY <1>1 DEF DecisionsCarry
<1>2. ASSUME NEW c \in Caller, RecordStepCompleted(c)
      PROVE  DecisionsCarry'
  BY <1>2, RecordMoves DEF DecisionsCarry, DegradationTypeOK
<1>3. ASSUME NEW c \in Caller, NEW a \in AgentsOf[c], NEW m \in Requested,
             ReadRemaining(c, a, m)
      PROVE  DecisionsCarry'
  BY <1>3, ReadRemainingMoves DEF DecisionsCarry, DegradationTypeOK
<1>4. ASSUME NEW c \in Caller, ReadUtilization(c)
      PROVE  DecisionsCarry'
  BY <1>4, ReadUtilizationMoves
  DEF DecisionsCarry, DegradationTypeOK, Onward, Ends
<1>5. ASSUME NEW c \in Caller, Compare(c)
      PROVE  DecisionsCarry'
  BY <1>5, CompareMoves DEF DecisionsCarry, DegradationTypeOK, Onward, Ends
<1>6. ASSUME NEW c \in Caller, Look(c)
      PROVE  DecisionsCarry'
  BY <1>6, LookMoves DEF DecisionsCarry, DegradationTypeOK, Onward, Ends
<1>7. ASSUME NEW c \in Caller, Swap(c)
      PROVE  DecisionsCarry'
  BY <1>7, SwapMoves DEF DecisionsCarry, DegradationTypeOK, Onward, Ends
<1> QED
  BY <1>1, <1>2, <1>3, <1>4, <1>5, <1>6, <1>7
  DEF DegradationNext, UseTreasury, engineVars, degradationVars

LEMMA DegradationStarts ==
  DegradationInit => TypeOK /\ DegradationTypeOK /\ DecisionsCarry
<1> SUFFICES ASSUME DegradationInit
             PROVE  TypeOK /\ DegradationTypeOK /\ DecisionsCarry
  OBVIOUS
<1>1. TypeOK
  BY TypeInit DEF DegradationInit
<1>2. Undecided \in Decision /\ Undecided.at = "idle"
  BY UndecidedTyped
<1> QED
  BY <1>1, <1>2, DegradationAssumption
  DEF DegradationInit, DegradationTypeOK, DecisionsCarry

LEMMA DegradationTypesHold ==
  DegradationSpec => [](TypeOK /\ DegradationTypeOK /\ DecisionsCarry)
<1>1. TypeOK /\ DegradationTypeOK /\ DecisionsCarry
        /\ [DegradationNext]_degradationVars
        => (TypeOK /\ DegradationTypeOK /\ DecisionsCarry)'
  BY DegradationTyped, DecisionsStayCarried, TypeStep,
     DegradationStepIsOperation
<1> QED  BY <1>1, DegradationStarts, PTL DEF DegradationSpec

(* Every variable of the engine keeps its type, however many threads resolve *)
(* models for one agent.                                                     *)
THEOREM DegradationTypeCorrect == DegradationSpec => []DegradationTypeOK
  BY DegradationTypesHold, PTL
-----------------------------------------------------------------------------
\* A thread between the two writes of a swap has its event in the list.
PendingReported ==
  \A c \in Caller :
    decision[c].at = "force" => Reported(decision[c].agent, decision[c].target)

\* What is reported after the step, of an agent and a model read before it.
ReportedNext(a, m) ==
  \E i \in DOMAIN events' : events'[i].agent = a /\ events'[i].degraded = m

LEMMA EventsAppended ==
  ASSUME DegradationTypeOK, DecisionsCarry, NEW c \in Caller, Report(c),
         decision[c].at = "emit"
  PROVE  /\ \A a, m : Reported(a, m) => ReportedNext(a, m)
         /\ ReportedNext(decision[c].agent, decision[c].target)
<1> DEFINE e == [agent |-> decision[c].agent,
                 original |-> decision[c].requested,
                 degraded |-> decision[c].target]
<1>1. /\ decision[c].agent \in Agent /\ decision[c].requested \in Requested
      /\ decision[c].target \in Model
  BY DegradationAssumption DEF DecisionsCarry
<1>2. /\ e \in Event /\ e.agent = decision[c].agent
      /\ e.degraded = decision[c].target
  BY <1>1 DEF Event
<1>3. events' = Append(events, e) /\ events \in Seq(Event)
  BY DEF Report, DegradationTypeOK
<1> HIDE DEF e
<1>4. PICK n : n = Len(events)
  OBVIOUS
<1>5. n \in Nat /\ DOMAIN events = 1 .. n
  BY <1>3, <1>4, LenProperties
<1>6. /\ DOMAIN events' = 1 .. n + 1 /\ events'[n + 1] = e
      /\ \A i \in 1 .. n : events'[i] = events[i]
  BY <1>2, <1>3, <1>4, <1>5, AppendProperties
<1>7. n + 1 \in DOMAIN events' /\ DOMAIN events \subseteq DOMAIN events'
  BY <1>5, <1>6
<1> QED  BY <1>2, <1>5, <1>6, <1>7 DEF Reported, ReportedNext

\* A thread whose answer is kept, forgotten, what it asked for or an error
\* leaves nothing new to report.
LEMMA AnswersStayReported ==
  ASSUME DegradationTypeOK, SwapsAreReported, PendingReported,
         NEW c \in Caller, NEW r \in Decision,
         decision' = [decision EXCEPT ![c] = r],
         \A a, m : Reported(a, m) => ReportedNext(a, m),
         \A a \in Agent : forced'[a] # NoModel => ReportedNext(a, forced'[a]),
         r.answer \in Model \ {r.requested} => ReportedNext(r.agent, r.answer),
         r.at = "force" => ReportedNext(r.agent, r.target)
  PROVE  SwapsAreReported' /\ PendingReported'
<1>1. decision'[c] = r /\ \A d \in Caller \ {c} : decision'[d] = decision[d]
  BY DEF DegradationTypeOK
<1>2. ASSUME NEW d \in Caller
      PROVE  /\ decision'[d].answer \in Model \ {decision'[d].requested} =>
                  ReportedNext(decision'[d].agent, decision'[d].answer)
             /\ decision'[d].at = "force" =>
                  ReportedNext(decision'[d].agent, decision'[d].target)
  BY <1>1, <1>2 DEF SwapsAreReported, PendingReported
<1>3. SwapsAreReported'
  BY <1>2 DEF SwapsAreReported, Reported, ReportedNext
<1>4. PendingReported'
  BY <1>2 DEF PendingReported, Reported, ReportedNext
<1> QED  BY <1>3, <1>4

LEMMA ReportsStep ==
  ASSUME TypeOK, DegradationTypeOK, DecisionsCarry, SwapsAreReported,
         PendingReported, [DegradationNext]_degradationVars
  PROVE  SwapsAreReported' /\ PendingReported'
<1>0. {NoModel, UnknownPricing, CallbackError} \cap Model = {}
  BY DegradationAssumption
<1>1. ASSUME UNCHANGED events
      PROVE  \A a, m : Reported(a, m) => ReportedNext(a, m)
  BY <1>1 DEF Reported, ReportedNext
<1>2. CASE UNCHANGED engineVars
  BY <1>2 DEF engineVars, SwapsAreReported, PendingReported, Reported
<1>3. ASSUME NEW c \in Caller, NEW r \in Decision,
             UNCHANGED <<forced, events>>,
             decision' = [decision EXCEPT ![c] = r], r.at # "force",
             r.answer \in Model \ {r.requested} => Reported(r.agent, r.answer)
      PROVE  SwapsAreReported' /\ PendingReported'
  <2>1. /\ \A a \in Agent : forced'[a] # NoModel => ReportedNext(a, forced'[a])
        /\ r.answer \in Model \ {r.requested} => ReportedNext(r.agent, r.answer)
    BY <1>1, <1>3 DEF SwapsAreReported
  <2> QED  BY <1>1, <1>3, <2>1, AnswersStayReported
<1>4. ASSUME NEW c \in Caller, RecordStepCompleted(c)
      PROVE  SwapsAreReported' /\ PendingReported'
  <2>1. UNCHANGED <<forced, events>>
    BY <1>4 DEF RecordStepCompleted
  <2> QED  BY <1>0, <1>3, <1>4, <2>1, RecordMoves
<1>5. ASSUME NEW c \in Caller, NEW a \in AgentsOf[c], NEW m \in Requested,
             ReadRemaining(c, a, m)
      PROVE  SwapsAreReported' /\ PendingReported'
  <2>1. UNCHANGED <<forced, events>>
    BY <1>5 DEF ReadRemaining
  <2> QED  BY <1>0, <1>3, <1>5, <2>1, ReadRemainingMoves
<1>6. ASSUME NEW c \in Caller, ReadUtilization(c) \/ Compare(c)
      PROVE  SwapsAreReported' /\ PendingReported'
  <2>1. UNCHANGED <<forced, events>>
    BY <1>6 DEF ReadUtilization, Compare
  <2>2. PICK r \in Decision : \/ Onward(c, r, "used")
                              \/ Onward(c, r, "critical")
                              \/ Ends(c, r, decision[c].requested)
    BY <1>6, ReadUtilizationMoves, CompareMoves
  <2> QED  BY <1>3, <2>1, <2>2 DEF Onward, Ends, SwapsAreReported
<1>7. ASSUME NEW c \in Caller, Look(c)
      PROVE  SwapsAreReported' /\ PendingReported'
  <2>1. UNCHANGED <<forced, events>>
    BY <1>7 DEF Look
  <2>2. PICK r \in Decision : \/ Onward(c, r, "emit")
                              \/ Ends(c, r, UnknownPricing)
                              \/ Ends(c, r, Current(c))
    BY <1>7, LookMoves
  <2>3. decision[c].agent \in Agent
    BY <1>7, DegradationAssumption DEF Look, DecisionsCarry
  <2>4. Current(c) # decision[c].requested =>
          Reported(decision[c].agent, Current(c))
    BY <2>3 DEF Current, SwapsAreReported
  <2> QED
    BY <1>0, <1>3, <2>1, <2>2, <2>4 DEF Onward, Ends, SwapsAreReported
<1>8. ASSUME NEW c \in Caller, Swap(c)
      PROVE  SwapsAreReported' /\ PendingReported'
  <2>1. PICK r \in Decision :
          \/ /\ decision[c].at = "emit" /\ forced' = forced /\ Report(c)
             /\ Onward(c, r, "force") /\ r.target = decision[c].target
          \/ /\ decision[c].at = "force" /\ events' = events /\ Remember(c)
             /\ \/ Ends(c, r, decision[c].target)
                \/ Ends(c, r, CallbackError)
    BY <1>8, SwapMoves
  <2>2. CASE decision[c].at = "emit"
    <3>1. /\ forced' = forced /\ Report(c) /\ Onward(c, r, "force")
          /\ r.target = decision[c].target
      BY <2>1, <2>2
    <3>2. /\ \A a, m : Reported(a, m) => ReportedNext(a, m)
          /\ ReportedNext(decision[c].agent, decision[c].target)
      BY <2>2, <3>1, EventsAppended
    <3>3. /\ \A a \in Agent : forced'[a] # NoModel => ReportedNext(a, forced'[a])
          /\ r.answer \in Model \ {r.requested} =>
               ReportedNext(r.agent, r.answer)
          /\ ReportedNext(r.agent, r.target)
      BY <3>1, <3>2 DEF SwapsAreReported, Onward
    <3> QED  BY <3>1, <3>2, <3>3, AnswersStayReported DEF Onward
  <2>3. CASE decision[c].at = "force"
    <3>1. /\ events' = events /\ Remember(c)
          /\ \/ Ends(c, r, decision[c].target)
             \/ Ends(c, r, CallbackError)
      BY <2>1, <2>3
    <3>2. /\ \A a, m : Reported(a, m) => ReportedNext(a, m)
          /\ ReportedNext(decision[c].agent, decision[c].target)
      BY <1>1, <2>3, <3>1 DEF PendingReported
    <3>3. \A a \in Agent : forced'[a] # NoModel => ReportedNext(a, forced'[a])
      BY <3>1, <3>2 DEF Remember, SwapsAreReported, DegradationTypeOK
    <3>4. /\ r.answer \in Model \ {r.requested} =>
               ReportedNext(r.agent, r.answer)
          /\ r.at = "idle"
      BY <1>0, <3>1, <3>2 DEF Ends
    <3> QED  BY <3>1, <3>2, <3>3, <3>4, AnswersStayReported DEF Ends
  <2> QED  BY <2>1, <2>2, <2>3
<1> QED
  BY <1>2, <1>4, <1>5, <1>6, <1>7, <1>8
  DEF DegradationNext, UseTreasury, degradationVars, engineVars

(* No swap goes unreported, for every pricing table and however many threads *)
(* resolve models for one agent: the event is in the list before the model   *)
(* is forced, and forced before it is answered.                              *)
THEOREM SwapsReported == DegradationSpec => []SwapsAreReported
<1>1. DegradationInit => SwapsAreReported /\ PendingReported
  <2> SUFFICES ASSUME DegradationInit
               PROVE  SwapsAreReported /\ PendingReported
    OBVIOUS
  <2>1. \A c \in Caller : /\ decision[c].at = "idle"
                          /\ decision[c].answer = NoModel
    BY UndecidedTyped DEF DegradationInit
  <2> QED
    BY <2>1, DegradationAssumption
    DEF DegradationInit, SwapsAreReported, PendingReported
<1>2. TypeOK /\ DegradationTypeOK /\ DecisionsCarry /\ SwapsAreReported
        /\ PendingReported /\ [DegradationNext]_degradationVars
        => SwapsAreReported' /\ PendingReported'
  BY ReportsStep
<1> QED  BY <1>1, <1>2, DegradationTypesHold, PTL DEF DegradationSpec
-----------------------------------------------------------------------------
(* A thread about to force a model for an agent of its own holds the degrade *)
(* target of the model that agent is on: nothing it looked up is stale.      *)
TargetsAreCurrent ==
  \A c \in Caller :
    decision[c].at \in {"emit", "force"} /\ Exclusive(decision[c].agent) =>
      /\ Current(c) \in Model
      /\ decision[c].target = Table[Current(c)].degradeTo

\* What a step of c leaves alone, and what it may bring about.
LEMMA CurrentStays ==
  ASSUME DegradationTypeOK, TargetsAreCurrent,
         NEW c \in Caller, NEW r \in Decision,
         decision' = [decision EXCEPT ![c] = r],
         \A d \in Caller \ {c} :
           decision[d].at \in {"emit", "force"} /\ Exclusive(decision[d].agent)
             => forced'[decision[d].agent] = forced[decision[d].agent],
         r.at \in {"emit", "force"} =>
           /\ r.agent = decision[c].agent /\ r.requested = decision[c].requested
           /\ forced' = forced
           /\ Exclusive(r.agent) => /\ Current(c) \in Model
                                    /\ r.target = Table[Current(c)].degradeTo
  PROVE  TargetsAreCurrent'
<1>1. decision'[c] = r /\ \A d \in Caller \ {c} : decision'[d] = decision[d]
  BY DEF DegradationTypeOK
<1>2. ASSUME NEW d \in Caller, decision'[d].at \in {"emit", "force"},
             Exclusive(decision'[d].agent)
      PROVE  /\ Current(d)' \in Model
             /\ decision'[d].target = Table[Current(d)'].degradeTo
  <2>1. CASE d = c
    <3>1. Current(d)' = Current(c)
      BY <1>1, <1>2, <2>1 DEF Current
    <3> QED  BY <1>1, <1>2, <2>1, <3>1
  <2>2. CASE d # c
    <3>1. Current(d)' = Current(d)
      BY <1>1, <1>2, <2>2 DEF Current
    <3> QED  BY <1>1, <1>2, <2>2, <3>1 DEF TargetsAreCurrent
  <2> QED  BY <2>1, <2>2
<1> QED  BY <1>2 DEF TargetsAreCurrent, Exclusive

LEMMA TargetsStayCurrent ==
  ASSUME TypeOK, DegradationTypeOK, DecisionsCarry, TargetsAreCurrent,
         [DegradationNext]_degradationVars
  PROVE  TargetsAreCurrent'
<1>1. CASE UNCHANGED engineVars
  BY <1>1 DEF engineVars, TargetsAreCurrent, Current, Exclusive
<1>2. ASSUME NEW c \in Caller, NEW r \in Decision, forced' = forced,
             decision' = [decision EXCEPT ![c] = r],
             r.at \notin {"emit", "force"}
      PROVE  TargetsAreCurrent'
  BY <1>2, CurrentStays
<1>3. ASSUME NEW c \in Caller, RecordStepCompleted(c)
      PROVE  TargetsAreCurrent'
  BY <1>2, <1>3, RecordMoves DEF RecordStepCompleted
<1>4. ASSUME NEW c \in Caller, NEW a \in AgentsOf[c], NEW m \in Requested,
             ReadRemaining(c, a, m)
      PROVE  TargetsAreCurrent'
  <2>1. PICK r \in Decision : /\ r.at = "remaining"
                              /\ decision' = [decision EXCEPT ![c] = r]
    BY <1>4, ReadRemainingMoves
  <2>2. forced' = forced
    BY <1>4 DEF ReadRemaining
  <2> QED  BY <1>2, <2>1, <2>2
<1>5. ASSUME NEW c \in Caller, ReadUtilization(c) \/ Compare(c)
      PROVE  TargetsAreCurrent'
  <2>1. forced' = forced
    BY <1>5 DEF ReadUtilization, Compare
  <2>2. PICK r \in Decision : \/ Onward(c, r, "used")
                              \/ Onward(c, r, "critical")
                              \/ Ends(c, r, decision[c].requested)
    BY <1>5, ReadUtilizationMoves, CompareMoves
  <2> QED  BY <1>2, <2>1, <2>2 DEF Onward, Ends
<1>6. ASSUME NEW c \in Caller, Look(c)
      PROVE  TargetsAreCurrent'
  <2>1. forced' = forced
    BY <1>6 DEF Look
  <2>2. PICK r \in Decision :
          \/ Ends(c, r, UnknownPricing)
          \/ Ends(c, r, Current(c))
          \/ /\ Onward(c, r, "emit") /\ Current(c) \in Model
             /\ r.target = Table[Current(c)].degradeTo
    BY <1>6, LookMoves
  <2>3. CASE r.at = "idle"
    BY <1>2, <2>1, <2>2, <2>3 DEF Onward, Ends
  <2>4. CASE r.at = "emit"
    <3>1. /\ Onward(c, r, "emit") /\ Current(c) \in Model
          /\ r.target = Table[Current(c)].degradeTo
      BY <2>2, <2>4 DEF Ends
    <3> QED  BY <2>1, <3>1, CurrentStays DEF Onward
  <2> QED  BY <2>2, <2>3, <2>4 DEF Onward, Ends
<1>7. ASSUME NEW c \in Caller, Swap(c)
      PROVE  TargetsAreCurrent'
  <2>1. PICK r \in Decision :
          \/ /\ decision[c].at = "emit" /\ forced' = forced
             /\ Onward(c, r, "force") /\ r.target = decision[c].target
          \/ /\ decision[c].at = "force" /\ Remember(c)
             /\ \/ Ends(c, r, decision[c].target)
                \/ Ends(c, r, CallbackError)
    BY <1>7, SwapMoves
  <2>2. CASE decision[c].at = "emit"
    <3>1. /\ forced' = forced /\ Onward(c, r, "force")
          /\ r.target = decision[c].target
      BY <2>1, <2>2
    <3>2. Exclusive(r.agent) => /\ Current(c) \in Model
                                /\ r.target = Table[Current(c)].degradeTo
      BY <2>2, <3>1 DEF TargetsAreCurrent, Onward
    <3> QED  BY <3>1, <3>2, CurrentStays DEF Onward
  <2>3. CASE decision[c].at = "force"
    <3>1. /\ r.at = "idle" /\ Remember(c)
          /\ decision' = [decision EXCEPT ![c] = r]
      BY <2>1, <2>3 DEF Ends
    <3>2. decision[c].agent \in AgentsOf[c]
      BY <2>3 DEF DecisionsCarry
    <3>3. ASSUME NEW d \in Caller \ {c}, decision[d].at \in {"emit", "force"},
                 Exclusive(decision[d].agent)
          PROVE  forced'[decision[d].agent] = forced[decision[d].agent]
      <4>1. decision[d].agent \in AgentsOf[d]
        BY <3>3 DEF DecisionsCarry
      <4>2. decision[d].agent # decision[c].agent
        BY <3>2, <3>3, <4>1 DEF Exclusive
      <4>3. decision[d].agent \in Agent
        BY <4>1, DegradationAssumption
      <4> QED  BY <3>1, <4>2, <4>3 DEF Remember, DegradationTypeOK
    <3> QED  BY <3>1, <3>3, CurrentStays
  <2> QED  BY <2>1, <2>2, <2>3
<1> QED
  BY <1>1, <1>3, <1>4, <1>5, <1>6, <1>7
  DEF DegradationNext, UseTreasury, degradationVars, engineVars

LEMMA TargetsHold == DegradationSpec => []TargetsAreCurrent
<1>1. DegradationInit => TargetsAreCurrent
  BY UndecidedTyped DEF DegradationInit, TargetsAreCurrent
<1>2. TypeOK /\ DegradationTypeOK /\ DecisionsCarry /\ TargetsAreCurrent
        /\ [DegradationNext]_degradationVars
        => TargetsAreCurrent'
  BY TargetsStayCurrent
<1> QED  BY <1>1, <1>2, DegradationTypesHold, PTL DEF DegradationSpec

(* The forced model of an agent with a thread of its own is only ever        *)
(* replaced by a strictly cheaper one, for every pricing table whose degrade *)
(* targets are cheaper and whatever other threads resolve for other agents.  *)
THEOREM ForcedModelsOnlyCheapen ==
  ASSUME WellOrdered(Table)
  PROVE  DegradationSpec => ForcedOnlyCheapens
<1> DEFINE Cheapens ==
      \A a \in Agent :
        Exclusive(a) /\ forced[a] # NoModel /\ forced'[a] # forced[a] =>
          forced'[a] \in Model /\ Cheaper(Table[forced'[a]], Table[forced[a]])
<1>1. ASSUME DegradationTypeOK, DecisionsCarry, TargetsAreCurrent,
             [DegradationNext]_degradationVars
      PROVE  [Cheapens]_degradationVars
  <2>1. ASSUME NEW c \in Caller, Swap(c), decision[c].at = "force"
        PROVE  Cheapens
    <3>1. /\ decision[c].target \in Model /\ Remember(c)
          /\ decision[c].agent \in Agent
      BY <1>1, <2>1, DegradationAssumption DEF DecisionsCarry, Swap
    <3>2. ASSUME NEW a \in Agent, Exclusive(a),
                 forced[a] # NoModel, forced'[a] # forced[a]
          PROVE  forced'[a] \in Model
                 /\ Cheaper(Table[forced'[a]], Table[forced[a]])
      <4>1. a = decision[c].agent /\ forced'[a] = decision[c].target
        BY <1>1, <3>1, <3>2 DEF Remember, DegradationTypeOK
      <4>2. Current(c) = forced[a]
        BY <3>2, <4>1 DEF Current
      <4>3. /\ Current(c) \in Model
            /\ decision[c].target = Table[Current(c)].degradeTo
        BY <1>1, <2>1, <3>2, <4>1 DEF TargetsAreCurrent
      <4>4. decision[c].target # NoModel
        BY <3>1, DegradationAssumption
      <4>5. Cheaper(Table[decision[c].target], Table[Current(c)])
        BY <4>3, <4>4, WellOrdered(Table) DEF WellOrdered, Model
      <4> QED  BY <3>1, <4>1, <4>2, <4>5
    <3> QED  BY <3>2
  <2>2. CASE forced' = forced
    BY <2>2
  <2> QED
    BY <1>1, <2>1, <2>2
    DEF DegradationNext, RecordStepCompleted, UseTreasury, engineVars,
        ReadRemaining, ReadUtilization, Compare, Look, Swap, degradationVars
<1> QED
  BY <1>1, DegradationTypesHold, TargetsHold, PTL
  DEF DegradationSpec, ForcedOnlyCheapens
-----------------------------------------------------------------------------
\* The balance is at or below the threshold.
Short(balance) == balance * 100 <= Threshold * TotalBudget

\* Some balance on the audit trail was.
WasLow == \E i \in 0 .. Len(ledger) : Short(BalanceAfter(i))

\* A thread that saw a low balance and is still acting on it.
SawLow(c) == decision[c].at \in {"used", "critical", "emit", "force"}
               \/ (decision[c].at = "remaining" /\ decision[c].low)

\* What was seen, or done about it, was there to be seen.
LowSeen == (events # << >> \/ \E c \in Caller : SawLow(c)) => WasLow

LEMMA TrailKeepsLow ==
  ASSUME TypeOK, WasLow, [AnyOperation]_treasuryVars
  PROVE  WasLow'
<1>1. CASE AnyOperation
  <2>1. PICK event \in LedgerEventType, t, amount, yielded \in Nat :
           /\ Record(event, t, amount, yielded)
           /\ committed' \in Int /\ settledSpent' \in Int
    BY <1>1, OperationIsLogged
  <2>2. /\ Len(ledger') = Len(ledger) + 1 /\ Len(ledger) \in Nat
        /\ \A i \in 1 .. Len(ledger) : ledger'[i] = ledger[i]
    BY <2>1, RecordType, LenProperties DEF TypeOK
  <2>3. PICK i \in 0 .. Len(ledger) : Short(BalanceAfter(i))
    BY DEF WasLow
  <2>4. i \in 0 .. Len(ledger') /\ (i # 0 => i \in 1 .. Len(ledger))
    BY <2>2, <2>3
  <2>5. (IF i = 0 THEN TotalBudget ELSE ledger'[i].available)
          = IF i = 0 THEN TotalBudget ELSE ledger[i].available
    BY <2>2, <2>4
  <2> DEFINE b == IF i = 0 THEN TotalBudget ELSE ledger'[i].available
  <2>6. Short(b)
    BY <2>3, <2>5 DEF BalanceAfter
  <2>7. \E j \in 0 .. Len(ledger') :
          Short(IF j = 0 THEN TotalBudget ELSE ledger'[j].available)
    BY <2>4, <2>6
  <2> QED  BY <2>7 DEF WasLow, BalanceAfter, Short
<1>2. CASE UNCHANGED treasuryVars
  BY <1>2 DEF WasLow, BalanceAfter, Short, treasuryVars
<1> QED  BY <1>1, <1>2

\* The engine's test on ratios is the threshold on the balance.
LEMMA LowIsShort ==
  ASSUME TypeOK, AuditTrailReplays, Low(Available)
  PROVE  WasLow
<1>1. Len(ledger) \in Nat /\ Available = BalanceAfter(Len(ledger))
  BY LenProperties DEF AuditTrailReplays, TypeOK
<1>2. 0 \in 0 .. Len(ledger) /\ Len(ledger) \in 0 .. Len(ledger)
  BY <1>1
<1>3. CASE TotalBudget = 0
  <2>1. Short(BalanceAfter(0))
    BY <1>3, DegradationAssumption DEF Short, BalanceAfter
  <2> QED  BY <1>2, <2>1 DEF WasLow
<1>4. CASE TotalBudget # 0
  <2>1. Available \in Int /\ TotalBudget \in Nat /\ Threshold \in Nat
    BY TreasuryAssumption, DegradationAssumption DEF Available, TypeOK
  <2>2. Base - Used(Available) = Available /\ Base = TotalBudget
    BY <1>4, <2>1 DEF Base, Used
  <2>3. Short(Available)
    BY <2>2 DEF Low, Short
  <2> QED  BY <1>1, <1>2, <2>3 DEF WasLow
<1> QED  BY <1>3, <1>4

LEMMA LowStaysSeen ==
  ASSUME TypeOK, AuditTrailReplays, DegradationTypeOK, DecisionsCarry, LowSeen,
         [DegradationNext]_degradationVars
  PROVE  LowSeen'
<1>1. WasLow => WasLow'
  BY TrailKeepsLow, DegradationStepIsOperation
<1>2. Low(Available) => WasLow
  BY LowIsShort
<1>3. SUFFICES ASSUME ~WasLow, events' # << >> \/ \E c \in Caller : SawLow(c)'
               PROVE  FALSE
  BY <1>1 DEF LowSeen
<1>4. events = << >> /\ ~Low(Available) /\ \A c \in Caller : ~SawLow(c)
  BY <1>2, <1>3 DEF LowSeen
<1>5. CASE UNCHANGED <<events, decision>>
  BY <1>3, <1>4, <1>5 DEF SawLow
<1>6. ASSUME NEW c \in Caller, NEW r \in Decision, events' = events,
             decision' = [decision EXCEPT ![c] = r],
             \/ r.at \in {"idle", "step"}
             \/ r.at = "remaining" /\ r.low = FALSE
      PROVE  FALSE
  BY <1>3, <1>4, <1>6 DEF SawLow, DegradationTypeOK
<1>7. ASSUME NEW c \in Caller, RecordStepCompleted(c) PROVE FALSE
  BY <1>6, <1>7, RecordMoves DEF RecordStepCompleted
<1>8. ASSUME NEW c \in Caller, NEW a \in AgentsOf[c], NEW m \in Requested,
             ReadRemaining(c, a, m)
      PROVE  FALSE
  <2>1. Low(Available) = FALSE
    BY <1>4 DEF Low
  <2>2. PICK r \in Decision : /\ r.at = "remaining" /\ r.low = Low(Available)
                              /\ decision' = [decision EXCEPT ![c] = r]
    BY <1>8, ReadRemainingMoves
  <2>3. events' = events
    BY <1>8 DEF ReadRemaining
  <2> QED  BY <1>6, <2>1, <2>2, <2>3
<1>9. ASSUME NEW c \in Caller, ReadUtilization(c) PROVE FALSE
  <2>1. decision[c].at = "remaining" /\ ~decision[c].low
    BY <1>4, <1>9 DEF ReadUtilization, SawLow
  <2> QED
    BY <1>6, <1>9, <2>1, ReadUtilizationMoves DEF ReadUtilization, Ends
<1>10. ASSUME NEW c \in Caller, Compare(c) \/ Look(c) \/ Swap(c) PROVE FALSE
  BY <1>4, <1>10 DEF Compare, Look, Swap, SawLow
<1> QED
  BY <1>5, <1>7, <1>8, <1>9, <1>10
  DEF DegradationNext, UseTreasury, engineVars, degradationVars

(* A model is only ever swapped in a session that was really low on budget:  *)
(* although an engine reads the two shares at different times and decides on *)
(* what it read first, some audit entry shows the shortage it saw.           *)
THEOREM SwapsFollowShortage == DegradationSpec => []SwapsNeedLowBudget
<1>1. DegradationInit => TypeOK /\ AuditTrailReplays /\ LowSeen
  <2> SUFFICES ASSUME DegradationInit
      PROVE  TypeOK /\ AuditTrailReplays /\ LowSeen
    OBVIOUS
  <2>1. TypeOK /\ events = << >>
    BY TypeInit DEF DegradationInit
  <2>2. AuditTrailReplays
    BY TreasuryAssumption
    DEF DegradationInit, Init, AuditTrailReplays, BalanceAfter, Available
  <2>3. \A c \in Caller : ~SawLow(c)
    BY DEF DegradationInit, Undecided, SawLow
  <2> QED  BY <2>1, <2>2, <2>3 DEF LowSeen
<1>2. TypeOK /\ AuditTrailReplays /\ [DegradationNext]_degradationVars
        => (TypeOK /\ AuditTrailReplays)'
  BY TypeStep, ReplayStep, DegradationStepIsOperation
<1>3. TypeOK /\ AuditTrailReplays /\ DegradationTypeOK /\ DecisionsCarry /\ LowSeen
        /\ [DegradationNext]_degradationVars => LowSeen'
  BY LowStaysSeen
<1>4. LowSeen => SwapsNeedLowBudget
  BY DEF LowSeen, WasLow, Short, SwapsNeedLowBudget
<1> QED
  BY <1>1, <1>2, <1>3, <1>4, DegradationTypesHold, PTL DEF DegradationSpec
=============================================================================
