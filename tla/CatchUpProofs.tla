---------------------------- MODULE CatchUpProofs ----------------------------
(* Proofs about Calendar and CatchUp. *)
EXTENDS CatchUp, TLAPS

-----------------------------------------------------------------------------
(* Calendar *)

\* The windows of a task, numbered by its period.
Nth(k, p) == IF k.kind = "daily" THEN 1440 * p + k.minute
             ELSE 10080 * p + (k.weekday - 1) * 1440 + k.minute

LEMMA TaskFacts ==
  ASSUME NEW k \in CalendarTask
  PROVE  /\ k.kind \in {"daily", "weekly"}
         /\ k.weekday \in Int /\ 1 <= k.weekday /\ k.weekday <= 7
         /\ k.minute \in Int /\ 0 <= k.minute /\ k.minute <= 1439
         /\ k.deadline \in Int /\ 0 < k.deadline
  BY SMT DEF CalendarTask

LEMMA Daily ==
  ASSUME NEW k \in CalendarTask, k.kind = "daily"
  PROVE  Period(k) = 1440 /\ \A p \in Int : Nth(k, p) = 1440 * p + k.minute
  BY DEF Period, Nth

LEMMA Weekly ==
  ASSUME NEW k \in CalendarTask, k.kind = "weekly"
  PROVE  Period(k) = 10080 /\ \A p \in Int : Nth(k, p) = 10080 * p + (k.weekday - 1) * 1440 + k.minute
  BY DEF Period, Nth

LEMMA NthFacts ==
  ASSUME NEW k \in CalendarTask
  PROVE  /\ Period(k) \in {1440, 10080}
         /\ \A p \in Int : Nth(k, p) \in Int /\ Nth(k, p + 1) = Nth(k, p) + Period(k)
  <1>1. CASE k.kind = "daily"
    <2>1. Period(k) = 1440
      BY <1>1, Daily
    <2>2. ASSUME NEW p \in Int
          PROVE  Nth(k, p) \in Int /\ Nth(k, p + 1) = Nth(k, p) + Period(k)
      <3>1. p + 1 \in Int
        OBVIOUS
      <3>2. Nth(k, p) = 1440 * p + k.minute
        BY <1>1, Daily
      <3>3. Nth(k, p + 1) = 1440 * (p + 1) + k.minute
        BY <1>1, <3>1, Daily
      <3> QED BY <2>1, <3>2, <3>3, TaskFacts
    <2> QED BY <2>1, <2>2
  <1>2. CASE k.kind = "weekly"
    <2>1. Period(k) = 10080
      BY <1>2, Weekly
    <2>2. ASSUME NEW p \in Int
          PROVE  Nth(k, p) \in Int /\ Nth(k, p + 1) = Nth(k, p) + Period(k)
      <3>1. p + 1 \in Int
        OBVIOUS
      <3>2. Nth(k, p) = 10080 * p + (k.weekday - 1) * 1440 + k.minute
        BY <1>2, Weekly
      <3>3. Nth(k, p + 1) = 10080 * (p + 1) + (k.weekday - 1) * 1440 + k.minute
        BY <1>2, <3>1, Weekly
      <3> QED BY <2>1, <3>2, <3>3, TaskFacts
    <2> QED BY <2>1, <2>2
  <1> QED BY <1>1, <1>2, TaskFacts

LEMMA NthOrder ==
  ASSUME NEW k \in CalendarTask, NEW p \in Int, NEW q \in Int, p < q
  PROVE  Nth(k, p) + Period(k) <= Nth(k, q)
  <1>1. CASE k.kind = "daily"
    <2>1. Nth(k, p) = 1440 * p + k.minute /\ Nth(k, q) = 1440 * q + k.minute /\ Period(k) = 1440
      BY <1>1, Daily
    <2> QED BY <2>1, TaskFacts
  <1>2. CASE k.kind = "weekly"
    <2>1. /\ Nth(k, p) = 10080 * p + (k.weekday - 1) * 1440 + k.minute
          /\ Nth(k, q) = 10080 * q + (k.weekday - 1) * 1440 + k.minute /\ Period(k) = 10080
      BY <1>2, Weekly
    <2> QED BY <2>1, TaskFacts
  <1> QED BY <1>1, <1>2, TaskFacts

LEMMA InDay ==
  ASSUME NEW w \in Int, NEW m \in Int, 0 <= m, m <= 1439
  PROVE  /\ (w \div 1440) \in Int /\ (w % 1440) \in Int
         /\ 0 <= w % 1440 /\ w % 1440 <= 1439
         /\ w = 1440 * (w \div 1440) + (w % 1440)
         /\ \A d \in Int : w = 1440 * d + m => w % 1440 = m /\ w \div 1440 = d
  BY SMT

LEMMA InWeek ==
  ASSUME NEW d \in Int, NEW r \in Int, 0 <= r, r <= 6
  PROVE  /\ (d \div 7) \in Int /\ (d % 7) \in Int /\ 0 <= d % 7 /\ d % 7 <= 6
         /\ d = 7 * (d \div 7) + (d % 7)
         /\ \A q \in Int : d = 7 * q + r => d % 7 = r /\ d \div 7 = q
  BY SMT

LEMMA WindowsAreNth ==
  ASSUME NEW k \in CalendarTask, NEW w \in Int
  PROVE  IsWindow(k, w) <=> \E p \in Int : w = Nth(k, p)
  <1>1. PICK d \in Int : d = w \div 1440
    BY InDay
  <1>2. CASE k.kind = "daily"
    <2>1. ASSUME IsWindow(k, w) PROVE w = Nth(k, d)
      <3>1. w = 1440 * d + k.minute
        BY <1>1, <2>1, InDay DEF IsWindow
      <3> QED BY <1>2, <3>1, Daily
    <2>2. ASSUME NEW p \in Int, w = Nth(k, p) PROVE IsWindow(k, w)
      <3>1. w = 1440 * p + k.minute
        BY <1>2, <2>2, Daily
      <3> QED BY <1>2, <3>1, InDay, TaskFacts DEF IsWindow
    <2> QED BY <2>1, <2>2
  <1>3. CASE k.kind = "weekly"
    <2>1. ASSUME IsWindow(k, w) PROVE \E p \in Int : w = Nth(k, p)
      <3>1. w = 1440 * d + k.minute
        BY <1>1, <2>1, InDay DEF IsWindow
      <3>2. 1 + (d % 7) = k.weekday
        BY <1>1, <1>3, <2>1 DEF IsWindow, Weekday
      <3>3. PICK q \in Int : d = 7 * q + (d % 7) /\ (d % 7) \in Int
        BY InWeek
      <3>4. w = 10080 * q + (k.weekday - 1) * 1440 + k.minute
        BY <3>1, <3>2, <3>3, TaskFacts, SMT
      <3>5. w = Nth(k, q)
        BY <1>3, <3>4, Weekly
      <3> QED BY <3>5
    <2>2. ASSUME NEW p \in Int, w = Nth(k, p) PROVE IsWindow(k, w)
      <3>1. PICK r \in Int : r = k.weekday - 1 /\ 0 <= r /\ r <= 6
        BY TaskFacts
      <3>2. PICK e \in Int : e = 7 * p + r
        OBVIOUS
      <3>3. w = 10080 * p + r * 1440 + k.minute
        BY <1>3, <2>2, <3>1, Weekly
      <3>4. w = 1440 * e + k.minute
        BY <3>1, <3>2, <3>3, TaskFacts
      <3>5. w % 1440 = k.minute /\ d = e
        BY <1>1, <3>4, InDay, TaskFacts
      <3>6. d % 7 = r
        BY <3>1, <3>2, <3>5, InWeek
      <3>7. 1 + ((w \div 1440) % 7) = k.weekday
        BY <1>1, <3>1, <3>6, TaskFacts
      <3> QED BY <3>5, <3>7 DEF IsWindow, Weekday
    <2> QED BY <2>1, <2>2
  <1> QED BY <1>2, <1>3, TaskFacts

LEMMA ThisIsNth ==
  ASSUME NEW k \in CalendarTask, NEW t \in Int
  PROVE  \E m \in Int : /\ ThisWindow(k, t) = Nth(k, m)
                        /\ Nth(k, m) - Period(k) <= t /\ t < Nth(k, m) + Period(k)
  <1>1. PICK d \in Int : d = t \div 1440 /\ 1440 * d <= t /\ t < 1440 * d + 1440
    BY SMT
  <1>2. CASE k.kind = "daily"
    <2>1. DaysBack(k, t) = 0
      BY <1>2 DEF DaysBack
    <2>2. ThisWindow(k, t) = (d - 0) * 1440 + k.minute
      BY <1>1, <2>1 DEF ThisWindow
    <2>3. Nth(k, d) = 1440 * d + k.minute /\ Period(k) = 1440
      BY <1>2, Daily
    <2> QED BY <1>1, <2>2, <2>3, TaskFacts
  <1>3. CASE k.kind = "weekly"
    <2>1. PICK r \in Int, q \in Int : r = d % 7 /\ 0 <= r /\ r <= 6 /\ d = 7 * q + r
      BY InWeek
    <2>2. PICK a \in Int : a = 1 + r - k.weekday /\ -6 <= a /\ a <= 6
      BY <2>1, TaskFacts
    <2>3. DaysBack(k, t) = a % 7
      <3>1. Weekday(t) = 1 + r
        BY <1>1, <2>1 DEF Weekday
      <3>2. DaysBack(k, t) = (Weekday(t) - k.weekday) % 7
        BY <1>3 DEF DaysBack
      <3>3. Weekday(t) - k.weekday = a
        BY <2>2, <3>1, TaskFacts
      <3> QED BY <3>2, <3>3
    <2>4. PICK b \in Int : b = a % 7 /\ b = IF 0 <= a THEN a ELSE a + 7
      BY <2>2, SMT
    <2>5. ThisWindow(k, t) = (d - b) * 1440 + k.minute
      BY <1>1, <2>3, <2>4 DEF ThisWindow
    <2>6. PICK m \in Int : m = IF 0 <= a THEN q ELSE q - 1
      BY <2>1
    <2>7. Nth(k, m) = 10080 * m + (k.weekday - 1) * 1440 + k.minute /\ Period(k) = 10080
      BY <1>3, Weekly
    <2>8. d - b = 7 * m + (k.weekday - 1)
      BY <2>1, <2>2, <2>4, <2>6, TaskFacts, SMT
    <2>9. (d - b) * 1440 + k.minute = 10080 * m + (k.weekday - 1) * 1440 + k.minute
      BY <2>8, <2>4, TaskFacts, SMT
    <2>10. ThisWindow(k, t) = Nth(k, m)
      BY <2>5, <2>7, <2>9
    <2>11. 0 <= b /\ b <= 6
      BY <2>2, <2>4, SMT
    <2>12. Nth(k, m) = 1440 * d - 1440 * b + k.minute
      BY <2>4, <2>5, <2>10, TaskFacts, SMT
    <2> QED BY <1>1, <2>4, <2>7, <2>10, <2>11, <2>12, TaskFacts, SMT
  <1> QED BY <1>2, <1>3, TaskFacts

LEMMA LatestIsNth ==
  ASSUME NEW k \in CalendarTask, NEW t \in Int
  PROVE  \E l \in Int : LatestWindow(k, t) = Nth(k, l) /\ Nth(k, l) <= t /\ t < Nth(k, l + 1)
  <1>1. PICK m \in Int : /\ ThisWindow(k, t) = Nth(k, m)
                         /\ Nth(k, m) - Period(k) <= t /\ t < Nth(k, m) + Period(k)
    BY ThisIsNth
  <1>2. CASE ThisWindow(k, t) > t
    <2>1. Nth(k, (m - 1) + 1) = Nth(k, m - 1) + Period(k) /\ (m - 1) + 1 = m
      BY NthFacts
    <2>2. Nth(k, m) \in Int /\ Nth(k, m - 1) \in Int /\ Period(k) \in Int
      BY NthFacts
    <2>3. LatestWindow(k, t) = Nth(k, m) - Period(k)
      BY <1>1, <1>2 DEF LatestWindow
    <2>4. LatestWindow(k, t) = Nth(k, m - 1)
      BY <2>1, <2>2, <2>3
    <2> QED BY <1>1, <1>2, <2>1, <2>2, <2>3, <2>4
  <1>3. CASE ~(ThisWindow(k, t) > t)
    <2>1. LatestWindow(k, t) = Nth(k, m)
      BY <1>1, <1>3 DEF LatestWindow
    <2>2. Nth(k, m) \in Int /\ Nth(k, m + 1) = Nth(k, m) + Period(k)
      BY NthFacts
    <2> QED BY <1>1, <1>3, <2>1, <2>2
  <1> QED BY <1>2, <1>3

\* latest_scheduled_at is right for every task and moment: what it returns is the
\* greatest window that is not ahead.
THEOREM LatestIsGreatest ==
  ASSUME NEW k \in CalendarTask, NEW t \in Int
  PROVE  /\ LatestWindow(k, t) \in Int /\ IsWindow(k, LatestWindow(k, t))
         /\ LatestWindow(k, t) <= t
         /\ \A w \in Int : IsWindow(k, w) /\ w <= t => w <= LatestWindow(k, t)
  <1>1. PICK l \in Int : LatestWindow(k, t) = Nth(k, l) /\ Nth(k, l) <= t /\ t < Nth(k, l + 1)
    BY LatestIsNth
  <1>2. LatestWindow(k, t) \in Int /\ IsWindow(k, LatestWindow(k, t))
    BY <1>1, NthFacts, WindowsAreNth
  <1>3. ASSUME NEW w \in Int, IsWindow(k, w), w <= t PROVE w <= LatestWindow(k, t)
    <2>1. PICK p \in Int : w = Nth(k, p)
      BY <1>3, WindowsAreNth
    <2>2. Nth(k, l + 1) = Nth(k, l) + Period(k) /\ Nth(k, l) \in Int /\ Period(k) \in {1440, 10080}
      BY NthFacts
    <2>3. CASE l < p
      <3>1. Nth(k, l) + Period(k) <= Nth(k, p)
        BY <2>3, NthOrder
      <3> QED BY <1>1, <1>3, <2>1, <2>2, <3>1
    <2>4. CASE p < l
      <3>1. Nth(k, p) + Period(k) <= Nth(k, l)
        BY <2>4, NthOrder
      <3> QED BY <1>1, <2>1, <2>2, <3>1
    <2>5. CASE p = l
      BY <1>1, <2>1, <2>2, <2>5
    <2> QED BY <2>3, <2>4, <2>5
  <1> QED BY <1>1, <1>2, <1>3

\* next_scheduled_at, asked about a window, returns the least one after it.
THEOREM NextIsLeast ==
  ASSUME NEW k \in CalendarTask, NEW u \in Int, IsWindow(k, u)
  PROVE  /\ NextWindow(k, u) \in Int /\ IsWindow(k, NextWindow(k, u))
         /\ u < NextWindow(k, u)
         /\ \A w \in Int : IsWindow(k, w) /\ u < w => NextWindow(k, u) <= w
  <1>1. PICK p \in Int : u = Nth(k, p)
    BY WindowsAreNth
  <1>2. NextWindow(k, u) = u + Period(k)
    <2>1. u % 1440 = k.minute
      BY DEF IsWindow
    <2>2. CASE Period(k) = 1440
      BY <2>1, <2>2, TaskFacts, SMT DEF NextWindow
    <2>3. CASE Period(k) = 10080
      BY <2>1, <2>3, TaskFacts, SMT DEF NextWindow
    <2> QED BY <2>2, <2>3, NthFacts
  <1>3. NextWindow(k, u) \in Int /\ u < NextWindow(k, u)
    BY <1>2, NthFacts
  <1>4. NextWindow(k, u) = Nth(k, p + 1)
    BY <1>1, <1>2, NthFacts
  <1>5. IsWindow(k, NextWindow(k, u))
    BY <1>3, <1>4, WindowsAreNth
  <1>6. ASSUME NEW w \in Int, IsWindow(k, w), u < w PROVE NextWindow(k, u) <= w
    <2>1. PICK q \in Int : w = Nth(k, q)
      BY <1>6, WindowsAreNth
    <2>2. Nth(k, p) \in Int /\ Period(k) \in {1440, 10080}
      BY NthFacts
    <2>3. CASE p < q
      <3>1. Nth(k, p) + Period(k) <= Nth(k, q)
        BY <2>3, NthOrder
      <3> QED BY <1>1, <1>2, <2>1, <2>2, <3>1
    <2>4. CASE q < p
      <3>1. Nth(k, q) + Period(k) <= Nth(k, p)
        BY <2>4, NthOrder
      <3> QED BY <1>1, <1>6, <2>1, <2>2, <3>1
    <2>5. CASE p = q
      BY <1>1, <1>6, <2>1, <2>2, <2>5
    <2> QED BY <2>3, <2>4, <2>5
  <1> QED BY <1>3, <1>5, <1>6

-----------------------------------------------------------------------------
(* CatchUp *)

\* The newest row is the greatest, no row is of a window ahead, and a running
\* tick accounts next for the window after the newest row.
Position ==
  /\ DOMAIN rows # {} => Newest \in DOMAIN rows /\ \A v \in DOMAIN rows : v <= Newest
  /\ \A w \in DOMAIN rows : w <= Latest
  /\ ticking => candidate = FirstMissed(Latest)

CatchUpInv == CatchUpTypeOK /\ Position /\ CatchUpAccounts

LEMMA GreatestIsChosen ==
  ASSUME NEW S, S \subseteq Int, NEW n \in S, \A v \in S : v <= n
  PROVE  (CHOOSE w \in S : \A v \in S : v <= w) = n
  <1> DEFINE m == CHOOSE w \in S : \A v \in S : v <= w
  <1>1. m \in S /\ \A v \in S : v <= m
    BY Zenon
  <1>2. m <= n /\ n <= m /\ m \in Int /\ n \in Int
    BY <1>1
  <1> HIDE DEF m
  <1>3. m = n
    BY <1>2
  <1> QED BY <1>3 DEF m

\* What any transaction of a tick does to the rows: the window it records is
\* newer than every row, or the newest itself.
LEMMA RecordFacts ==
  ASSUME CatchUpTypeOK, NEW w \in Int, NEW s \in RowStates, IsWindow(task, w), now \in Int,
         \A v \in DOMAIN rows : v <= w, Record(w, s), task' = task
  PROVE  /\ DOMAIN rows' = DOMAIN rows \union {w}
         /\ \A v \in DOMAIN rows' : (rows'[v] = [state |-> s, updated |-> now] /\ v = w)
                                      \/ (v \in DOMAIN rows /\ rows'[v] = rows[v])
         /\ rows' \in [DOMAIN rows' -> [state : RowStates, updated : Int]]
         /\ DOMAIN rows' \subseteq {v \in Int : IsWindow(task, v)}
         /\ Newest' = w /\ w \in DOMAIN rows' /\ \A v \in DOMAIN rows' : v <= w
  <1>1. /\ DOMAIN rows' = DOMAIN rows \union {w}
        /\ \A v \in DOMAIN rows' : (rows'[v] = [state |-> s, updated |-> now] /\ v = w)
                                      \/ (v \in DOMAIN rows /\ rows'[v] = rows[v])
        /\ rows' \in [DOMAIN rows' -> [state : RowStates, updated : Int]]
    <2>1. CASE w \in DOMAIN rows /\ rows[w].state = "accepted"
      <3>1. rows' = rows /\ DOMAIN rows \union {w} = DOMAIN rows
        BY <2>1 DEF Record
      <3> QED BY <3>1 DEF CatchUpTypeOK
    <2>2. CASE ~(w \in DOMAIN rows /\ rows[w].state = "accepted")
      <3>1. rows' = [v \in DOMAIN rows \union {w} |->
                       IF v = w THEN [state |-> s, updated |-> now] ELSE rows[v]]
        BY <2>2 DEF Record
      <3>2. [state |-> s, updated |-> now] \in [state : RowStates, updated : Int]
        OBVIOUS
      <3>3. \A v \in DOMAIN rows : rows[v] \in [state : RowStates, updated : Int]
        BY DEF CatchUpTypeOK
      <3> QED BY <3>1, <3>2, <3>3
    <2> QED BY <2>1, <2>2
  <1>2. DOMAIN rows' \subseteq {v \in Int : IsWindow(task, v)}
    BY <1>1 DEF CatchUpTypeOK
  <1>3. w \in DOMAIN rows' /\ \A v \in DOMAIN rows' : v <= w
    BY <1>1
  <1>4. (CHOOSE u \in DOMAIN rows' : \A v \in DOMAIN rows' : v <= u) = w
    BY <1>2, <1>3, GreatestIsChosen
  <1>5. Newest' = w
    BY <1>4 DEF Newest
  <1> QED BY <1>1, <1>2, <1>3, <1>5

\* Recording the window after the newest one leaves no gap.
LEMMA CompleteGrows ==
  ASSUME CatchUpTypeOK, Position, Complete, task' = task, NEW w \in Int,
         DOMAIN rows' = DOMAIN rows \union {w},
         DOMAIN rows = {} \/ w = NextWindow(task, Newest)
  PROVE  Complete'
  <1> SUFFICES ASSUME NEW u \in DOMAIN rows', NEW v \in DOMAIN rows', u < v
               PROVE  NextWindow(task, u) \in DOMAIN rows'
    BY DEF Complete
  <1>1. task \in CalendarTask /\ \A r \in DOMAIN rows : r \in Int /\ IsWindow(task, r)
    BY CatchUpAssumption DEF CatchUpTypeOK
  <1>2. CASE DOMAIN rows = {}
    BY <1>2
  <1>3. CASE w = NextWindow(task, Newest) /\ DOMAIN rows # {}
    <2>1. /\ Newest \in DOMAIN rows /\ \A r \in DOMAIN rows : r <= Newest
          /\ Newest < w /\ Newest \in Int
      BY <1>1, <1>3, NextIsLeast DEF Position
    <2>2. u \in DOMAIN rows
      BY <1>1, <2>1
    <2>3. CASE u = Newest
      BY <1>3, <2>3
    <2>4. CASE u # Newest
      BY <1>1, <2>1, <2>2, <2>4 DEF Complete
    <2> QED BY <2>3, <2>4
  <1> QED BY <1>2, <1>3

LEMMA LatestFacts ==
  ASSUME CatchUpTypeOK
  PROVE  task \in CalendarTask /\ Latest \in Int /\ IsWindow(task, Latest) /\ Latest <= now
  <1>1. task \in CalendarTask /\ now \in Int
    BY CatchUpAssumption DEF CatchUpTypeOK
  <1> QED BY <1>1, LatestIsGreatest DEF Latest

\* A running tick is about to account for a window newer than every row.
LEMMA CandidateFacts ==
  ASSUME CatchUpTypeOK, Position, ticking
  PROVE  /\ candidate \in Int /\ IsWindow(task, candidate)
         /\ \A v \in DOMAIN rows : v < candidate
         /\ DOMAIN rows = {} => candidate = Latest
         /\ DOMAIN rows # {} => candidate = NextWindow(task, Newest)
  <1>1. task \in CalendarTask /\ Latest \in Int /\ IsWindow(task, Latest)
    BY LatestFacts
  <1>2. CASE DOMAIN rows = {}
    BY <1>1, <1>2 DEF Position, FirstMissed
  <1>3. CASE DOMAIN rows # {}
    <2>1. candidate = NextWindow(task, Newest)
      BY <1>3 DEF Position, FirstMissed
    <2>2. /\ Newest \in Int /\ IsWindow(task, Newest) /\ \A v \in DOMAIN rows : v <= Newest /\ v \in Int
      BY <1>3 DEF Position, CatchUpTypeOK
    <2>3. /\ candidate \in Int /\ IsWindow(task, candidate) /\ Newest < candidate
      BY <1>1, <2>1, <2>2, NextIsLeast
    <2>4. \A v \in DOMAIN rows : v < candidate
      BY <2>2, <2>3
    <2> QED BY <1>3, <2>1, <2>3, <2>4
  <1> QED BY <1>2, <1>3

LEMMA CatchUpInitInv == CatchUpInit => CatchUpInv
  <1> SUFFICES ASSUME CatchUpInit PROVE CatchUpInv
    OBVIOUS
  <1>1. DOMAIN rows = {} /\ rows \in [DOMAIN rows -> [state : RowStates, updated : Int]]
    BY DEF CatchUpInit
  <1>2. CatchUpTypeOK
    <2>1. /\ task \in Schedules /\ now \in Int /\ ticking = FALSE
          /\ candidate = 0 /\ left = 0 /\ overran = FALSE
      BY CatchUpAssumption DEF CatchUpInit
    <2>2. DOMAIN rows \subseteq {w \in Int : IsWindow(task, w)}
      BY <1>1, Zenon
    <2>3. left \in 0..MaxGaps
      BY <2>1, CatchUpAssumption
    <2>4. ticking \in BOOLEAN /\ overran \in BOOLEAN
      BY <2>1, Zenon
    <2>5. candidate \in Int
      BY <2>1
    <2> QED BY <1>1, <2>1, <2>2, <2>3, <2>4, <2>5, Zenon DEF CatchUpTypeOK
  <1>3. Position
    BY <1>1 DEF CatchUpInit, Position
  <1>4. CatchUpAccounts
    BY <1>1 DEF CatchUpAccounts, Complete
  <1> QED BY <1>2, <1>3, <1>4 DEF CatchUpInv

LEMMA BeginTickInv == ASSUME CatchUpInv, NEW t \in Moments, BeginTick(t) PROVE CatchUpInv'
  <1>1. t \in Int /\ now \in Int /\ now <= t /\ now' = t /\ task' = task /\ rows' = rows
        /\ task \in CalendarTask /\ overran' = overran
    BY CatchUpAssumption DEF CatchUpInv, CatchUpTypeOK, BeginTick
  <1>2. Latest' = LatestWindow(task, t)
    BY <1>1 DEF Latest
  <1>3. /\ Latest \in Int /\ Latest' \in Int /\ Latest <= Latest' /\ IsWindow(task, Latest')
    BY <1>1, <1>2, LatestFacts, LatestIsGreatest DEF CatchUpInv
  <1>4. Newest' = Newest
    BY <1>1 DEF Newest
  <1>5. candidate' = FirstMissed(Latest')
    BY <1>2 DEF BeginTick
  <1>6. Position'
    <2>1. \A w \in DOMAIN rows' : w <= Latest'
      BY <1>1, <1>3 DEF CatchUpInv, Position, CatchUpTypeOK
    <2>2. candidate' = IF DOMAIN rows' = {} THEN Latest' ELSE NextWindow(task', Newest')
      BY <1>1, <1>4, <1>5 DEF FirstMissed
    <2> QED BY <1>1, <1>4, <2>1, <2>2 DEF CatchUpInv, Position, FirstMissed
  <1>7. candidate' \in Int
    BY <1>1, <1>3, <1>5, NextIsLeast DEF FirstMissed, CatchUpInv, Position, CatchUpTypeOK
  <1>8. CatchUpTypeOK'
    BY <1>1, <1>7, CatchUpAssumption DEF CatchUpInv, CatchUpTypeOK, BeginTick
  <1>9. CatchUpAccounts'
    BY <1>1 DEF CatchUpInv, CatchUpAccounts, Complete, Truthful
  <1> QED BY <1>6, <1>8, <1>9 DEF CatchUpInv

LEMMA AccountForGapInv == ASSUME CatchUpInv, AccountForGap PROVE CatchUpInv'
  <1> DEFINE s == IF Late(task, Latest, now) THEN "expired" ELSE "suppressed"
  <1>1. /\ ticking /\ candidate < Latest /\ left > 0 /\ Record(candidate, s) /\ task' = task
        /\ now' = now /\ candidate' = NextWindow(task, candidate) /\ left' = left - 1
        /\ ticking' = ticking /\ overran' = overran /\ now \in Int
    BY DEF AccountForGap, Missing, CatchUpInv, CatchUpTypeOK
  <1>2. task \in CalendarTask /\ Latest \in Int /\ IsWindow(task, Latest) /\ Latest' = Latest
    BY <1>1, LatestFacts DEF CatchUpInv, Latest
  <1>3. /\ candidate \in Int /\ IsWindow(task, candidate) /\ \A v \in DOMAIN rows : v < candidate
        /\ DOMAIN rows # {} /\ candidate = NextWindow(task, Newest)
    BY <1>1, <1>2, CandidateFacts DEF CatchUpInv
  <1>4. \A v \in DOMAIN rows : v <= candidate
    BY <1>3 DEF CatchUpInv, CatchUpTypeOK
  <1>5. s \in RowStates
    BY DEF RowStates
  <1> HIDE DEF s
  <1>6. /\ DOMAIN rows' = DOMAIN rows \union {candidate}
        /\ \A v \in DOMAIN rows' : (rows'[v] = [state |-> s, updated |-> now] /\ v = candidate)
                                      \/ (v \in DOMAIN rows /\ rows'[v] = rows[v])
        /\ rows' \in [DOMAIN rows' -> [state : RowStates, updated : Int]]
        /\ DOMAIN rows' \subseteq {v \in Int : IsWindow(task, v)}
        /\ Newest' = candidate /\ candidate \in DOMAIN rows' /\ \A v \in DOMAIN rows' : v <= candidate
    BY <1>1, <1>3, <1>4, <1>5, RecordFacts DEF CatchUpInv
  <1>7. candidate' \in Int
    BY <1>1, <1>2, <1>3, NextIsLeast
  <1>8. CatchUpTypeOK'
    BY <1>1, <1>6, <1>7, CatchUpAssumption DEF CatchUpInv, CatchUpTypeOK
  <1>9. Position'
    <2>1. \A w \in DOMAIN rows' : w <= Latest'
      BY <1>1, <1>2, <1>3, <1>6 DEF CatchUpInv, CatchUpTypeOK
    <2>2. candidate' = NextWindow(task', Newest') /\ DOMAIN rows' # {}
      BY <1>1, <1>6
    <2> QED BY <1>6, <2>1, <2>2 DEF Position, FirstMissed
  <1>10. overran' \/ Complete'
    BY <1>1, <1>3, <1>6, CompleteGrows DEF CatchUpInv, CatchUpAccounts
  <1>11. ASSUME NEW w \in DOMAIN rows' PROVE Truthful(w, rows[w])'
    <2>1. CASE w \in DOMAIN rows /\ rows'[w] = rows[w]
      BY <1>1, <2>1 DEF CatchUpInv, CatchUpAccounts, Truthful
    <2>2. CASE rows'[w] = [state |-> s, updated |-> now] /\ w = candidate
      <3>1. LatestWindow(task, now) = Latest
        BY DEF Latest
      <3>2. Late(task, Latest, now) => Late(task, candidate, now)
        BY <1>1, <1>2, <1>3, TaskFacts DEF Late
      <3>3. /\ s \in {"expired", "suppressed"}
            /\ s = "expired" => Late(task, Latest, now)
            /\ s = "suppressed" => ~Late(task, Latest, now)
        BY DEF s
      <3> QED BY <1>1, <2>2, <3>1, <3>2, <3>3 DEF Truthful
    <2> QED BY <1>6, <2>1, <2>2
  <1> QED BY <1>8, <1>9, <1>10, <1>11 DEF CatchUpInv, CatchUpAccounts

LEMMA DecideLatestInv == ASSUME CatchUpInv, DecideLatest PROVE CatchUpInv'
  <1>1. /\ ticking /\ ~(candidate < Latest /\ left > 0) /\ Record(Latest, Decision) /\ task' = task
        /\ now' = now /\ candidate' = candidate /\ left' = left
        /\ ticking' = FALSE /\ overran' = (overran \/ candidate < Latest) /\ now \in Int
        /\ left \in 0..MaxGaps
    BY DEF DecideLatest, Missing, CatchUpInv, CatchUpTypeOK
  <1>2. task \in CalendarTask /\ Latest \in Int /\ IsWindow(task, Latest) /\ Latest' = Latest
    BY <1>1, LatestFacts DEF CatchUpInv, Latest
  <1>3. \A v \in DOMAIN rows : v <= Latest
    BY DEF CatchUpInv, Position
  <1>4. Decision \in RowStates
    BY DEF RowStates, Decision
  <1>5. /\ DOMAIN rows' = DOMAIN rows \union {Latest}
        /\ \A v \in DOMAIN rows' : (rows'[v] = [state |-> Decision, updated |-> now] /\ v = Latest)
                                      \/ (v \in DOMAIN rows /\ rows'[v] = rows[v])
        /\ rows' \in [DOMAIN rows' -> [state : RowStates, updated : Int]]
        /\ DOMAIN rows' \subseteq {v \in Int : IsWindow(task, v)}
        /\ Newest' = Latest /\ Latest \in DOMAIN rows' /\ \A v \in DOMAIN rows' : v <= Latest
    BY <1>1, <1>2, <1>3, <1>4, RecordFacts DEF CatchUpInv
  <1>6. CatchUpTypeOK'
    BY <1>1, <1>5, CatchUpAssumption DEF CatchUpInv, CatchUpTypeOK
  <1>7. Position'
    BY <1>1, <1>2, <1>5 DEF Position
  <1>8. overran' \/ Complete'
    <2>1. CASE Latest \in DOMAIN rows
      <3>1. DOMAIN rows' = DOMAIN rows
        BY <1>5, <2>1
      <3> QED BY <1>1, <3>1 DEF CatchUpInv, CatchUpAccounts, Complete
    <2>2. CASE DOMAIN rows = {}
      <3>1. \A u, v \in DOMAIN rows' : u = Latest /\ v = Latest
        BY <1>5, <2>2
      <3> QED BY <1>2, <3>1 DEF Complete
    <2>3. CASE Latest \notin DOMAIN rows /\ DOMAIN rows # {} /\ ~(candidate < Latest)
      <3>1. candidate = NextWindow(task, Newest) /\ candidate \in Int
        BY <1>1, <2>3, CandidateFacts DEF CatchUpInv
      <3>2. Newest \in Int /\ IsWindow(task, Newest) /\ Newest \in DOMAIN rows
        BY <2>3 DEF CatchUpInv, Position, CatchUpTypeOK
      <3>3. Newest < Latest
        BY <1>2, <1>3, <2>3, <3>2
      <3>4. candidate <= Latest
        BY <1>2, <3>1, <3>2, <3>3, NextIsLeast
      <3>5. Latest = NextWindow(task, Newest)
        BY <1>2, <2>3, <3>1, <3>4
      <3> QED BY <1>1, <1>2, <1>5, <3>5, CompleteGrows DEF CatchUpInv, CatchUpAccounts
    <2>4. CASE candidate < Latest
      BY <1>1, <2>4
    <2> QED BY <2>1, <2>2, <2>3, <2>4
  <1>9. ASSUME NEW w \in DOMAIN rows' PROVE Truthful(w, rows[w])'
    <2>1. CASE w \in DOMAIN rows /\ rows'[w] = rows[w]
      BY <1>1, <2>1 DEF CatchUpInv, CatchUpAccounts, Truthful
    <2>2. CASE rows'[w] = [state |-> Decision, updated |-> now] /\ w = Latest
      BY <1>1, <2>2 DEF Truthful, Decision, Latest
    <2> QED BY <1>5, <2>1, <2>2
  <1> QED BY <1>6, <1>7, <1>8, <1>9 DEF CatchUpInv, CatchUpAccounts

\* The recorded calendar of a task is complete and true for every schedule, every
\* set of moments at which ticks begin, and every point at which they die.
THEOREM CatchUpIsAccounted == CatchUpSpec => []CatchUpAccounts
  <1>1. CatchUpInv /\ [CatchUpNext]_catchUpVars => CatchUpInv'
    <2> SUFFICES ASSUME CatchUpInv, [CatchUpNext]_catchUpVars PROVE CatchUpInv'
      OBVIOUS
    <2>1. ASSUME NEW t \in Moments, BeginTick(t) PROVE CatchUpInv'
      BY <2>1, BeginTickInv
    <2>2. CASE AccountForGap
      BY <2>2, AccountForGapInv
    <2>3. CASE DecideLatest
      BY <2>3, DecideLatestInv
    <2>4. CASE TickEnds
      <3>1. /\ task' = task /\ rows' = rows /\ now' = now /\ candidate' = candidate
            /\ left' = left /\ overran' = overran /\ ticking' = FALSE
        BY <2>4 DEF TickEnds
      <3> QED BY <3>1 DEF CatchUpInv, CatchUpTypeOK, Position, CatchUpAccounts, Complete, Truthful,
                          Newest, Latest, FirstMissed
    <2>5. CASE UNCHANGED catchUpVars
      BY <2>5 DEF catchUpVars, CatchUpInv, CatchUpTypeOK, Position, CatchUpAccounts, Complete,
                  Truthful, Newest, Latest, FirstMissed
    <2> QED BY <2>1, <2>2, <2>3, <2>4, <2>5 DEF CatchUpNext
  <1>2. CatchUpInv => CatchUpAccounts
    BY DEF CatchUpInv
  <1> QED BY <1>1, <1>2, CatchUpInitInv, PTL DEF CatchUpSpec
=============================================================================
