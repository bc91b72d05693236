------------------------------ MODULE Spending -------------------------------
(***************************************************************************)
(* Money counted in windows: the budget ledger (tower/budget.rs,           *)
(* InMemoryBudgetLedger and should_hedge), with a window for everybody and *)
(* one per model, tenant, user and key, and the cost rate limit            *)
(* (tower/rate_limit.rs, CostRateLimitService) with three windows of       *)
(* different lengths.  Both check a request before it is sent and record   *)
(* its cost when it is answered; neither awaits in between, so that on a   *)
(* current_thread runtime a check or a record is one step (SpendWindow     *)
(* takes a window's atomics apart).                                        *)
(*                                                                         *)
(* No layer calls the ledger, an application does, and passes timestamps   *)
(* that may lag behind.  Time is the age of a window; one without an entry *)
(* is absent.                                                              *)
(***************************************************************************)
EXTENDS Integers, Sequences, FiniteSets, SequencesExt

CONSTANTS
  Spenders,     \* requests in flight, reused for ever
  Schemes,      \* ledgers and cost limits, see Ledger and CostLimit
  MostCost,     \* the most one answer costs, and what a hedge is estimated at
  Margin        \* safety_margin_pct, in hundredths

\* No window is named "none", lasts no time, or is charged twice for one request.
ASSUME SpendingAssumption ==
  /\ Schemes # {} /\ IsFiniteSet(Spenders) /\ Spenders # {} /\ MostCost \in Nat /\ Margin \in 0..99
  /\ \A scheme \in Schemes :
       /\ \A w \in DOMAIN scheme.length : w # "none" /\ scheme.length[w] \in Nat \ {0}
       /\ \A w \in DOMAIN scheme.limit : w \in DOMAIN scheme.length /\ scheme.limit[w] \in Nat
       /\ \A context \in scheme.contexts :
            context \in Seq(DOMAIN scheme.length) /\ \A i, j \in DOMAIN context : context[i] = context[j] => i = j
       /\ scheme.lag \in Nat /\ scheme.hedges \in BOOLEAN

VARIABLE
  spending      \* the windows, the requests and an observer, see NewSpending

\* contexts: the windows a request is charged to, in the order of check();
\* limit holds the limited ones.
Ledger(contexts, names, limit, length, lag) ==
  [contexts |-> contexts, length |-> [w \in names |-> length], limit |-> limit,
   present |-> {"global"}, lag |-> lag, hedges |-> TRUE]

CostLimit(limit, length) ==
  [contexts |-> {<<"minute", "hour", "day">>}, length |-> length, limit |-> limit,
   present |-> DOMAIN length, lag |-> 0, hedges |-> FALSE]

Absent == [age |-> 0, spend |-> -1]
Fresh(age) == [age |-> age, spend |-> 0]

NewSpender == [st |-> "idle", context |-> <<>>, copies |-> 1, alone |-> FALSE]

\* WindowEntry::new of what is there from the start.
NewSpending(scheme) ==
  [scheme |-> scheme,
   windows |-> [w \in DOMAIN scheme.length |-> IF w \in scheme.present THEN Fresh(0) ELSE Absent],
   req |-> [r \in Spenders |-> NewSpender],
   watch |-> [w |-> "none", age |-> 0, recorded |-> 0]]

LimitOf == spending.scheme.limit
Lags == 0..spending.scheme.lag
Idle(r) == spending.req[r].st = "idle"

-----------------------------------------------------------------------------
(* One window.                                                             *)

\* spend_usd(), spend_cost(): at a timestamp lag ticks ago.
Renewed(window, w, lag) ==
  IF window.age - lag >= spending.scheme.length[w] THEN Fresh(lag) ELSE window

\* What a window is when it has been read, and what is read of it.
Visited(window, w, lag) == IF window = Absent THEN Absent ELSE Renewed(window, w, lag)
SpendIn(window) == IF window = Absent THEN 0 ELSE window.spend
SpendOf(windows, w) == SpendIn(windows[w])

\* The limited windows are looked at in order, up to the first that is used up.
UsedUp(context, lag) ==
  {i \in DOMAIN context : /\ context[i] \in DOMAIN LimitOf
                          /\ SpendIn(Visited(spending.windows[context[i]], context[i], lag))
                               >= LimitOf[context[i]]}

LookedAt(context, lag) ==
  {w \in DOMAIN LimitOf : \E i \in DOMAIN context : /\ context[i] = w
                                                    /\ \A j \in UsedUp(context, lag) : i <= j}

CheckedWindows(context, lag) ==
  [w \in DOMAIN spending.windows |->
     IF w \in LookedAt(context, lag) THEN Visited(spending.windows[w], w, lag) ELSE spending.windows[w]]

\* entry_add(), CostWindow::add(): a new entry starts now.
Added(window, w, lag, cost) ==
  [(IF window = Absent THEN Fresh(0) ELSE Renewed(window, w, lag)) EXCEPT !.spend = @ + cost]

Recorded(context, lag, cost) ==
  [w \in DOMAIN spending.windows |->
     IF w \in ToSet(context) THEN Added(spending.windows[w], w, lag, cost) ELSE spending.windows[w]]

-----------------------------------------------------------------------------
(* Requests.                                                               *)

\* The others are not alone any more.
Joined(r, q) ==
  [s \in Spenders |-> IF s = r THEN q ELSE [spending.req[s] EXCEPT !.alone = FALSE]]

\* check() lets a request pass, or it is rejected.
Check(r) ==
  /\ Idle(r)
  /\ \E context \in spending.scheme.contexts, lag \in Lags :
       LET q == [NewSpender EXCEPT !.st = "running", !.context = context]
       IN spending' = [spending EXCEPT !.windows = CheckedWindows(context, lag),
                                       !.req = IF UsedUp(context, lag) = {} THEN Joined(r, q) ELSE @]

\* The windows should_hedge looks at: not the model's.
HedgeWindows == {"global", "user", "key", "tenant"}

\* snapshot() looks at every window there is, now.
Snapshot == [w \in DOMAIN spending.windows |-> Visited(spending.windows[w], w, 0)]

\* A hedge costs what a request does.
HeadroomForOne(windows, w) == 100 * (SpendOf(windows, w) + MostCost) < LimitOf[w] * (100 - Margin)

Headroom(windows, w) == 100 * (SpendOf(windows, w) + 2 * MostCost) < LimitOf[w] * (100 - Margin)

\* should_hedge(), and the request goes out twice.
Hedge(r) ==
  /\ spending.scheme.hedges /\ spending.req[r].st = "running" /\ spending.req[r].copies = 1
  /\ LET seen == DOMAIN LimitOf \cap HedgeWindows \cap ToSet(spending.req[r].context)
         q == [spending.req[r] EXCEPT !.st = "hedged", !.copies = 2,
                                      !.alone = \A s \in Spenders \ {r} : Idle(s)]
     IN spending' = [spending EXCEPT !.windows = Snapshot,
                                     !.req[r] = IF \A w \in seen : Headroom(Snapshot, w) THEN q ELSE @]

\* An observer of one window counts what is recorded in it.
Counted(context, cost) ==
  IF spending.watch.w \in ToSet(context) THEN [spending.watch EXCEPT !.recorded = @ + cost] ELSE spending.watch

OneLess(q) == IF q.copies = 1 THEN NewSpender ELSE [q EXCEPT !.copies = @ - 1]

\* An answer is recorded.
Record(r) ==
  /\ ~Idle(r)
  /\ \E cost \in 0..MostCost, lag \in Lags :
       LET q == spending.req[r] IN
       spending' = [spending EXCEPT !.windows = Recorded(q.context, lag, cost),
                                    !.req[r] = OneLess(q), !.watch = Counted(q.context, cost)]

\* It fails, is dropped, or has no usage or no price.
EndUncharged(r) ==
  /\ ~Idle(r)
  /\ spending' = [spending EXCEPT !.req[r] = OneLess(@)]

-----------------------------------------------------------------------------

NoWatch == [w |-> "none", age |-> 0, recorded |-> 0]

\* InMemoryBudgetLedger::reset(); the observer begins again.
ResetLedger ==
  /\ spending.scheme.hedges
  /\ spending' = [spending EXCEPT !.windows = [w \in DOMAIN @ |-> IF w = "global" THEN Fresh(0) ELSE Absent],
                                  !.watch = NoWatch]

\* Ages count up to where any timestamp finds the window expired.
Older(w) ==
  LET window == spending.windows[w] IN
  IF window = Absent \/ window.age = spending.scheme.length[w] + spending.scheme.lag THEN window
  ELSE [window EXCEPT !.age = @ + 1]

Passing ==
  LET watch == spending.watch IN
  CASE watch.w = "none" -> NoWatch
    [] watch.w # "none" /\ watch.age + 1 = spending.scheme.length[watch.w] -> NoWatch
    [] OTHER -> [watch EXCEPT !.age = @ + 1]

\* Time passes; an observer may begin with any limited window.
SpendingTick ==
  \E watch \in {Passing} \cup {[NoWatch EXCEPT !.w = w] : w \in DOMAIN LimitOf} :
    spending' = [spending EXCEPT !.windows = [w \in DOMAIN @ |-> Older(w)], !.watch = watch]

SpendingInit == spending \in {NewSpending(scheme) : scheme \in Schemes}
SpendingNext ==
  \/ \E r \in Spenders : Check(r) \/ Hedge(r) \/ Record(r) \/ EndUncharged(r)
  \/ ResetLedger \/ SpendingTick

-----------------------------------------------------------------------------
(* Properties.                                                             *)

\* What a window may hold: the last check that passed, and all that was in
\* flight; whoever passes it last goes out twice only where should_hedge does
\* not look.  A limit of nothing lets nobody pass.
Excess(w) ==
  LET N == Cardinality(Spenders)
      copies == CASE ~spending.scheme.hedges -> N
                  [] spending.scheme.hedges /\ w \in HedgeWindows -> 2 * N - 1
                  [] OTHER -> 2 * N
  IN IF LimitOf[w] = 0 THEN 0 ELSE LimitOf[w] - 1 + copies * MostCost

\* Windows that an interval as long as one can meet: two, and more if timestamps
\* lag so far that windows begin in the past.
Met(w) == 2 + (spending.scheme.length[w] + spending.scheme.lag - 2) \div spending.scheme.length[w]

\* Limited spending stays limited whatever is in flight, however late it is
\* recorded and in whatever order the windows are renewed: in each window, and
\* in any interval as long as one; and a request that goes out twice, alone,
\* reaches no limit should_hedge has looked at.
SpendingBounded ==
  /\ \A w \in DOMAIN LimitOf : SpendOf(spending.windows, w) <= Excess(w)
  /\ spending.watch.w # "none" => spending.watch.recorded <= Met(spending.watch.w) * Excess(spending.watch.w)
  /\ \A r \in Spenders : LET q == spending.req[r] IN
       q.st = "hedged" /\ q.alone =>
         \A w \in DOMAIN LimitOf \cap HedgeWindows \cap ToSet(q.context) :
           SpendOf(spending.windows, w) + q.copies * MostCost < LimitOf[w]
=============================================================================
