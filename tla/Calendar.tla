------------------------------- MODULE Calendar -------------------------------
(* The calendar arithmetic of the schedule registry.  A moment is a number of  *)
(* minutes of local time since some Monday at midnight; the registry's zone    *)
(* (Asia/Shanghai) has no daylight saving, so local days are equally long.     *)
(* A task is a record with its kind, weekday (1 is Monday), minute of the day  *)
(* and deadline in minutes after the window.                                   *)
EXTENDS Integers

CalendarTask == [kind : {"daily", "weekly"}, weekday : 1..7, minute : 0..1439, deadline : Nat \ {0}]

Period(task) == IF task.kind = "daily" THEN 1440 ELSE 10080

Weekday(t) == 1 + ((t \div 1440) % 7)

\* A window of the task: what the calendar entry of the registry means.
IsWindow(task, t) ==
    /\ t % 1440 = task.minute
    /\ task.kind = "weekly" => Weekday(t) = task.weekday

\* latest_scheduled_at: the task's time on the last such weekday, and one period
\* earlier when that is still ahead.
DaysBack(task, now) == IF task.kind = "weekly" THEN (Weekday(now) - task.weekday) % 7 ELSE 0

ThisWindow(task, now) == ((now \div 1440) - DaysBack(task, now)) * 1440 + task.minute

LatestWindow(task, now) ==
    IF ThisWindow(task, now) > now THEN ThisWindow(task, now) - Period(task)
                                   ELSE ThisWindow(task, now)

\* next_scheduled_at: a day or a week on, at the task's time of that day.
NextWindow(task, at) == ((at + Period(task)) \div 1440) * 1440 + task.minute

\* is_business_window_open: from 10:00 to 18:00, both included.
InBusinessHours(t) == t % 1440 \in 600..1080

\* plan: a window is expired once its deadline has passed.
Late(task, window, now) == now > window + task.deadline
=============================================================================
