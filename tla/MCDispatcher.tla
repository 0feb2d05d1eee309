---------------------------- MODULE MCDispatcher ----------------------------
(* The duties of the dispatcher and the worker, for TLC: the dependency events  *)
(* and the scheduled runs of MCDependencyChain, one analysis of ModelCalls, and  *)
(* the calendar of CatchUp.  A behaviour shows one of them.                  *)
EXTENDS MCDependencyChain, ModelCalls, CatchUp

CONSTANT ana1

VARIABLE duty

ASSUME CalendarIsRight ==
  \A k \in [kind : {"daily", "weekly"}, weekday : {1, 4, 7}, minute : {0, 605, 1439},
            deadline : {1}] :
    \A t \in {1440 * d + m : d \in -8..15, m \in {0, 604, 605, 1439}} :
      LET windows(S) == {w \in {1440 * d + k.minute : d \in S} : IsWindow(k, w)} IN
      /\ LatestWindow(k, t) \in windows(-16..15)
      /\ LatestWindow(k, t) <= t
      /\ \A w \in windows(-16..15) : w <= t => w <= LatestWindow(k, t)
      /\ IsWindow(k, t) =>
           /\ NextWindow(k, t) \in windows(-8..23)
           /\ t < NextWindow(k, t)
           /\ \A w \in windows(-8..23) : t < w => NextWindow(k, t) <= w

(* A morning task and a weekly one, each of which may wait half a day.           *)
MCSchedules ==
  {[kind |-> "daily",  weekday |-> 1, minute |-> 605, deadline |-> 720],
   [kind |-> "weekly", weekday |-> 2, minute |-> 605, deadline |-> 720]}

(* In time, late, before the window, after hours, when that is late, after weeks. *)
MCMoments ==
  {1440 * 8 + 660, 1440 * 8 + 1380, 1440 * 9 + 540, 1440 * 12 + 1140, 1440 * 13 + 540, 1440 * 29 + 660}

\* The schedule and the first moment matter to the calendar alone.
DispatcherInit ==
  /\ ModelCallsInit /\ CatchUpInit
  /\ \/ duty = "calendar"
     \/ /\ duty \in {"dependencies", "analyses"}
        /\ task = CHOOSE k \in Schedules : TRUE
        /\ now = CHOOSE t \in Moments : TRUE

DispatcherNext ==
  \/ duty = "dependencies" /\ ChainNext /\ UNCHANGED <<callVars, catchUpVars, duty>>
  \/ duty = "analyses" /\ AnalysisNext /\ UNCHANGED <<catchUpVars, duty>>
  \/ duty = "calendar" /\ CatchUpNext /\ UNCHANGED <<modelVars, duty>>

DispatcherSpec ==
  /\ DispatcherInit
  /\ [][DispatcherNext]_<<modelVars, catchUpVars, duty>>
  /\ \/ duty = "calendar"
     \/ duty = "dependencies" /\ Fairness
     \/ duty = "analyses" /\ AnalysisFairness
=============================================================================
