------------------------------- MODULE CatchUp -------------------------------
(***************************************************************************)
(* What the dispatcher records of a calendar task whose windows it missed:   *)
(* the machine slept, the process died, and the next tick of                 *)
(* pm_loop_scheduler.py accounts for the windows in between before it        *)
(* decides on the newest one.                                               *)
(*                                                                         *)
(* Each row is a transaction of its own, so a tick may end after any of      *)
(* them: it dies, or the store is frozen and refuses a job.  The rows of      *)
(* different tasks never meet, so one task is looked at.                     *)
(***************************************************************************)
EXTENDS Calendar

CONSTANTS
  Schedules,  \* calendar tasks of the registry
  Moments,    \* bound: when a tick may begin
  MaxGaps     \* windows one tick accounts for (512)

ASSUME CatchUpAssumption ==
  Schedules \subseteq CalendarTask /\ Moments \subseteq Int /\ MaxGaps \in Nat

VARIABLES
  task,       \* the task looked at
  rows,       \* its schedule_occurrences: windows to state and updated_at
  now,        \* when the last tick began
  ticking,    \* whether it is still running
  candidate,  \* the window it accounts for next
  left,       \* iterations it has left for that
  overran     \* a tick had more to account for than it may

catchUpVars == <<task, rows, now, ticking, candidate, left, overran>>

\* Every row with a job counts as accepted, whatever became of the job.
RowStates == {"accepted", "deferred", "suppressed", "expired"}

CatchUpTypeOK ==
  /\ task \in Schedules
  /\ DOMAIN rows \subseteq {w \in Int : IsWindow(task, w)}
  /\ rows \in [DOMAIN rows -> [state : RowStates, updated : Int]]
  /\ now \in Int /\ ticking \in BOOLEAN /\ candidate \in Int
  /\ left \in 0..MaxGaps /\ overran \in BOOLEAN

CatchUpInit ==
  /\ task \in Schedules
  /\ rows = [w \in {} |-> w]
  /\ now \in Moments
  /\ ticking = FALSE /\ candidate = 0 /\ left = 0 /\ overran = FALSE

\* latest_schedule_occurrence_at
Newest == CHOOSE w \in DOMAIN rows : \A v \in DOMAIN rows : v <= w

Latest == LatestWindow(task, now)

\* Mutant of FirstMissed: the window after the newest row is taken for done.
FirstMissedNextButOne(latest) ==
  IF DOMAIN rows = {} THEN latest ELSE NextWindow(task, NextWindow(task, Newest))

\* Without a row nothing is invented.
FirstMissed(latest) == IF DOMAIN rows = {} THEN latest ELSE NextWindow(task, Newest)

BeginTick(t) ==
  /\ ~ticking /\ now <= t
  /\ now' = t
  /\ ticking' = TRUE
  /\ candidate' = FirstMissed(LatestWindow(task, t))
  /\ left' = MaxGaps
  /\ UNCHANGED <<task, rows, overran>>

\* One transaction of record_schedule_occurrence or accept_scheduled_occurrence:
\* a row that has a job is left alone.
Record(w, state) ==
  rows' = IF w \in DOMAIN rows /\ rows[w].state = "accepted" THEN rows
          ELSE [v \in DOMAIN rows \union {w} |->
                  IF v = w THEN [state |-> state, updated |-> now] ELSE rows[v]]

Missing == candidate < Latest /\ left > 0

AccountForGap ==
  /\ ticking /\ Missing
  /\ Record(candidate, IF Late(task, Latest, now) THEN "expired" ELSE "suppressed")
  /\ candidate' = NextWindow(task, candidate)
  /\ left' = left - 1
  /\ UNCHANGED <<task, now, ticking, overran>>

Decision ==
  IF Late(task, Latest, now) THEN "expired"
  ELSE IF InBusinessHours(now) THEN "accepted" ELSE "deferred"

DecideLatest ==
  /\ ticking /\ ~Missing
  /\ Record(Latest, Decision)
  /\ ticking' = FALSE
  /\ overran' = (overran \/ candidate < Latest)
  /\ UNCHANGED <<task, now, candidate, left>>

\* The tick dies, or a frozen store refuses a job and ends it.
TickEnds ==
  /\ ticking
  /\ ticking' = FALSE
  /\ UNCHANGED <<task, rows, now, candidate, left, overran>>

CatchUpNext == (\E t \in Moments : BeginTick(t)) \/ AccountForGap \/ DecideLatest \/ TickEnds

CatchUpSpec == CatchUpInit /\ [][CatchUpNext]_catchUpVars

-----------------------------------------------------------------------------
\* No window between two recorded ones is without a row.
Complete ==
  \A u, w \in DOMAIN rows : u < w => NextWindow(task, u) \in DOMAIN rows

\* What the row of a window says was true of the tick that wrote it.
Truthful(w, row) ==
  LET at     == row.updated
      newest == LatestWindow(task, at)
  IN  /\ row.state = "accepted"   => w = newest /\ ~Late(task, w, at) /\ InBusinessHours(at)
      /\ row.state = "deferred"   => w = newest /\ ~Late(task, w, at) /\ ~InBusinessHours(at)
      /\ row.state = "suppressed" => w < newest /\ ~Late(task, newest, at)
      /\ row.state = "expired"    => Late(task, w, at)

\* The accounts of a machine that sleeps and of ticks that die half-way are
\* complete and true: whatever was missed, no window between two recorded ones is
\* left out (unless one tick had more than MaxGaps to account for), only the
\* newest window in time and in business hours got a job, one in time was let go
\* only for a newer one that is in time itself, and one called expired was late.
CatchUpAccounts == (overran \/ Complete) /\ \A w \in DOMAIN rows : Truthful(w, rows[w])
=============================================================================
