---------------------------- MODULE RouteLedger ----------------------------
(***************************************************************************)
(* The receipts of routing (src/src/route_audit.rs, commands/route.rs,     *)
(* session_turn.rs).  All sessions of a project append to one file: what a *)
(* selector was asked and decided, what a turn called, and how a route     *)
(* turned out.  /route history, explain, spend and report read it again.   *)
(* An append that fails is told and the work goes on.                      *)
(***************************************************************************)
EXTENDS Naturals, Sequences, SequencesExt, FiniteSets, FiniteSetsExt, Functions, Folds

CONSTANTS
    LgSessions,     \* sessions of the project
    LgModels,       \* models a coder may be
    CostOf,         \* what a call of a model or of the selector costs, or that no price is known
    MaxEvents,      \* bound on the receipts
    MaxRoutes,      \* bound on the routes
    MaxLost,        \* bound on the appends that fail
    NoRoute         \* no active route, and a call of none

UnknownCost == 0
ASSUME CostOf \in [LgModels \cup {"selector"} -> Nat]

VARIABLES
    lgEvents,   \* the file
    lgActive,   \* the route that each session follows: its number and its model
    lgModel,    \* the model of each session
    lgPaid,     \* what each session says it has spent, and whether more is unknown
    lgRoutes,   \* how many routes have a number
    lgLost,     \* how many appends have failed
    lgSpoiled   \* a preview has changed a model

lgVars == <<lgEvents, lgActive, lgModel, lgPaid, lgRoutes, lgLost, lgSpoiled>>

(* ------------------------------- commands ------------------------------ *)

\* What is typed: a keyword or the first word of a task, and flags.  The guide's preview is
\* a simulation.
RouteWords == [word : {"simulate", "select", "fix"},
               flags : {<<>>, <<"--dry-run", "--apply">>, <<"--apply", "--dry-run">>}]

\* parse_select_args: the last flag decides.
Applies(flags) == flags = <<>> \/ flags[Len(flags)] = "--apply"

\* parse_route_args and route_guide: of a plain task the flags are words.
MayApply(typed) == typed.word = "fix" \/ (typed.word = "select" /\ Applies(typed.flags))

\* What README.md calls a preview.
IsPreview(typed) ==
    \/ typed.word = "simulate"
    \/ typed.word = "select" /\ typed.flags # <<>> /\ typed.flags[Len(typed.flags)] = "--dry-run"

LgInit ==
    /\ lgEvents = <<>> /\ lgRoutes = 0 /\ lgLost = 0 /\ lgSpoiled = FALSE
    /\ lgActive = [s \in LgSessions |-> NoRoute]
    /\ lgModel = [s \in LgSessions |-> CHOOSE m \in LgModels : TRUE]
    /\ lgPaid = [s \in LgSessions |-> [usd |-> 0, unknown |-> FALSE]]

\* append_event, for the receipts of one step: each is appended or lost.
AppendEvents(receipts) ==
    \E lost \in SUBSET DOMAIN receipts :
       /\ lgLost' = lgLost + Cardinality(lost) /\ lgLost' <= MaxLost
       /\ lgEvents' = lgEvents \o FoldLeftDomain(LAMBDA told, i : IF i \in lost THEN told ELSE Append(told, receipts[i]),
                                                <<>>, receipts)
       /\ Len(lgEvents') <= MaxEvents

CallEvent(s, route, role, model) ==
    [kind |-> "call", route |-> route, session |-> s, role |-> role, model |-> model, cost |-> CostOf[model]]

Paid(s, cost) ==
    [lgPaid EXCEPT ![s] = IF cost = UnknownCost THEN [@ EXCEPT !.unknown = TRUE]
                          ELSE [@ EXCEPT !.usd = @ + cost]]

\* run_selector counts its cost before it looks at what came of the call.
PaidForSelector(s, cost) == Paid(s, cost)

\* select_route: the selector's receipt, its answer, the policy, the change of the model and
\* the receipt of the decision.  The model may refuse to be applied.
SelectRoute(s, typed, m, applicable) ==
    LET id == lgRoutes + 1
        apply == MayApply(typed) /\ applicable
        asked == CallEvent(s, id, "selector", "selector")
        decision == [kind |-> "decision", route |-> id, session |-> s, model |-> m, applied |-> apply] IN
    /\ lgRoutes < MaxRoutes /\ lgRoutes' = id
    /\ lgPaid' = PaidForSelector(s, CostOf["selector"])
    /\ lgSpoiled' = (lgSpoiled \/ (IsPreview(typed) /\ apply))
    /\ AppendEvents(<<asked, decision>>)
    /\ IF apply THEN /\ lgModel' = [lgModel EXCEPT ![s] = m]
                     /\ lgActive' = [lgActive EXCEPT ![s] = [route |-> id, model |-> m]]
       ELSE UNCHANGED <<lgModel, lgActive>>

\* A selector that fails, or says what cannot be read or is not allowed, has its receipt, and
\* there is no decision.
SelectorFails(s) ==
    /\ lgRoutes < MaxRoutes /\ lgRoutes' = lgRoutes + 1
    /\ lgPaid' = PaidForSelector(s, CostOf["selector"])
    /\ AppendEvents(<<CallEvent(s, lgRoutes + 1, "selector", "selector")>>)
    /\ UNCHANGED <<lgActive, lgModel, lgSpoiled>>

\* A turn is on the route whose model it uses.
Followed(s) == lgActive[s] # NoRoute /\ lgActive[s].model = lgModel[s]

\* run_user_turn: the receipt of the turn, and of its tests when a route is active.
Turn(s, tests) ==
    LET used == IF Followed(s) THEN CallEvent(s, lgActive[s].route, "coder", lgModel[s])
                ELSE CallEvent(s, NoRoute, "chat", lgModel[s])
        outcome == [kind |-> "outcome", route |-> lgActive[s].route, session |-> s, outcome |-> tests,
                    source |-> "auto-test"] IN
    /\ lgPaid' = Paid(s, CostOf[lgModel[s]])
    /\ AppendEvents(IF tests # "none" /\ lgActive[s] # NoRoute THEN <<used, outcome>> ELSE <<used>>)
    /\ UNCHANGED <<lgActive, lgModel, lgRoutes, lgSpoiled>>

\* /model and the like end a route, /doctor autotune and recommend do not.
PickModelOf(s, m) ==
    /\ lgModel[s] # m /\ lgModel' = [lgModel EXCEPT ![s] = m]
    /\ lgActive' = [lgActive EXCEPT ![s] = NoRoute]
    /\ UNCHANGED <<lgEvents, lgPaid, lgRoutes, lgLost, lgSpoiled>>

TuneModel(s, m) ==
    /\ lgModel[s] # m /\ lgModel' = [lgModel EXCEPT ![s] = m]
    /\ UNCHANGED <<lgEvents, lgActive, lgPaid, lgRoutes, lgLost, lgSpoiled>>

EventsOf(kind) == {i \in DOMAIN lgEvents : lgEvents[i].kind = kind}
Decided == {lgEvents[i].route : i \in EventsOf("decision")}

\* label_latest_route: the last decision of the file.
LabelLatest(s, outcome) ==
    /\ EventsOf("decision") # {} /\ Len(lgEvents) < MaxEvents
    /\ lgEvents' = Append(lgEvents, [kind |-> "outcome", route |-> lgEvents[Max(EventsOf("decision"))].route,
                                     session |-> s, outcome |-> outcome, source |-> "manual"])
    /\ UNCHANGED <<lgActive, lgModel, lgPaid, lgRoutes, lgLost, lgSpoiled>>

LgNext == \E s \in LgSessions :
    \/ \E typed \in RouteWords, m \in LgModels, applicable \in BOOLEAN : SelectRoute(s, typed, m, applicable)
    \/ SelectorFails(s)
    \/ \E tests \in {"none", "pass", "fail"} : Turn(s, tests)
    \/ \E m \in LgModels : PickModelOf(s, m) \/ TuneModel(s, m)
    \/ \E outcome \in {"pass", "fail"} : LabelLatest(s, outcome)

(* ------------------------------- readers ------------------------------- *)

Tally == [usd |-> 0, calls |-> 0, missing |-> 0]
Tallied(t, cost) == [usd |-> t.usd + cost, calls |-> t.calls + 1,
                     missing |-> t.missing + (IF cost = UnknownCost THEN 1 ELSE 0)]

\* print_route_spend: what is spent by role or by model, and its total.
TotalOf(field) ==
    LET tallyOf(sums, k) == IF k \in DOMAIN sums THEN sums[k] ELSE Tally
        noted(sums, e) == [k \in DOMAIN sums \cup {e[field]} |->
            IF k = e[field] THEN Tallied(tallyOf(sums, k), e.cost) ELSE tallyOf(sums, k)]
        spent == FoldLeft(LAMBDA sums, e : IF e.kind = "call" THEN noted(sums, e) ELSE sums,
                          [k \in {} |-> Tally], lgEvents) IN
    FoldFunction(LAMBDA t, acc : acc + t.usd, 0, spent)

\* Mutant: the first outcome of a route is the one.
OutcomesFirst == {i \in EventsOf("outcome") : \A j \in EventsOf("outcome") : lgEvents[j].route = lgEvents[i].route => i <= j}

\* The outcomes of summarize_route_events: a later one replaces an earlier.
LatestOutcomes == {i \in EventsOf("outcome") : \A j \in EventsOf("outcome") : lgEvents[j].route = lgEvents[i].route => j <= i}

\* summarize_route_events
Report ==
    LET with(o) == {r \in Decided : \E i \in LatestOutcomes : lgEvents[i].route = r /\ lgEvents[i].outcome = o}
        routed == {i \in EventsOf("call") : lgEvents[i].route # NoRoute} IN
    [decisions |-> Cardinality(EventsOf("decision")),
     applied |-> Cardinality({i \in EventsOf("decision") : lgEvents[i].applied}),
     passed |-> Cardinality(with("pass")), failed |-> Cardinality(with("fail")),
     unlabeled |-> Cardinality(Decided \ (with("pass") \cup with("fail"))),
     usd |-> MapThenSumSet(LAMBDA i : lgEvents[i].cost, routed)]

\* print_route_explanation: the last decision of a route, its calls and its last outcome.
Explanation(r) ==
    LET calls == {i \in EventsOf("call") : lgEvents[i].route = r}
        outcomes == {i \in EventsOf("outcome") : lgEvents[i].route = r} IN
    [usd |-> MapThenSumSet(LAMBDA i : lgEvents[i].cost, calls),
     missing |-> Cardinality({i \in calls : lgEvents[i].cost = UnknownCost}),
     outcome |-> IF outcomes = {} THEN "unlabeled" ELSE lgEvents[Max(outcomes)].outcome]

(* ------------------------------ properties ----------------------------- *)

\* README.md, "Selector ... costs are included in the live session total": what a session
\* says it has spent covers every receipt of its own, also of selectors that failed, and
\* says that there is more when a receipt has no price.
SpendCovered ==
    \A s \in LgSessions :
       LET own == {i \in EventsOf("call") : lgEvents[i].session = s} IN
       /\ lgPaid[s].usd >= MapThenSumSet(LAMBDA i : lgEvents[i].cost, own)
       /\ (\E i \in own : lgEvents[i].cost = UnknownCost) => lgPaid[s].unknown

\* A call that is booked on a route was made with the model that the route decided on,
\* however models and routes changed since, in either session.
BookedRight ==
    \A i \in EventsOf("call"), j \in EventsOf("decision") :
       lgEvents[i].role = "coder" /\ lgEvents[j].route = lgEvents[i].route =>
          lgEvents[i].model = lgEvents[j].model /\ lgEvents[i].session = lgEvents[j].session

\* What /route report counts is what /route explain says of each route, and the two tables
\* of /route spend have one sum, which is not less than the report's.
ReadersAgree ==
    LET said(o) == {r \in Decided : Explanation(r).outcome = o} IN
    /\ Report.passed = Cardinality(said("pass")) /\ Report.failed = Cardinality(said("fail"))
    /\ Report.unlabeled = Cardinality(said("unlabeled"))
    /\ TotalOf("role") = TotalOf("model")
    /\ Report.usd <= TotalOf("role")

\* README.md, "/route simulate": a preview, a simulation and a dry run change no model.
PreviewChangesNothing == ~ lgSpoiled

\* What the receipts of routes say, and to whom.
LedgerSound == SpendCovered /\ BookedRight /\ ReadersAgree /\ PreviewChangesNothing

\* Not of the code: what the report counts as routed cost is explained by some route.
CostsExplained == Report.usd = MapThenSumSet(LAMBDA r : Explanation(r).usd, Decided)

\* Not of the code: a test's outcome goes to the route whose model made the turn before it.
TestedOnRoute ==
    \A i \in EventsOf("outcome") : i > 1 /\ lgEvents[i].source = "auto-test" /\ lgEvents[i - 1].kind = "call"
        /\ lgEvents[i - 1].session = lgEvents[i].session /\ lgEvents[i - 1].role # "selector"
           => lgEvents[i - 1].route = lgEvents[i].route

\* Not of the code: a session labels a route of its own.
LabelsOwn ==
    \A i \in EventsOf("outcome"), j \in EventsOf("decision") :
       lgEvents[j].route = lgEvents[i].route => lgEvents[j].session = lgEvents[i].session

=============================================================================
