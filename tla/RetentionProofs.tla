--------------------------- MODULE RetentionProofs ---------------------------
(***************************************************************************)
(* Proofs, for any objects, versions, plans and quota, of what the run of    *)
(* MCRetention checks on a small instance.                                  *)
(*                                                                         *)
(* The argument: a plan is claimed once, so the actions it prepared are its   *)
(* own (Owned), and what a run has done to the one object it works on is      *)
(* known from where it is (InHand), the others being untouched.  A step of    *)
(* a run concerns that one action only (Only), from which the rest follows    *)
(* once for all the steps (OnlyKeeps).                                       *)
(***************************************************************************)
EXTENDS Retention, FiniteSetTheorems, TLAPS

Gone(o, v) == \E w \in Versions : <<o, v, w>> \in reclaimed

Untouched(o, v) == action[o][v] = "prepared" /\ quarantine[o][v] = 0 /\ ~Gone(o, v)

Moved(o, v) == action[o][v] \in Open /\ quarantine[o][v] # 0 /\ ~Gone(o, v)

Deleted(o, v) == action[o][v] = "applied" /\ quarantine[o][v] = 0 /\ Gone(o, v)

(* What is known of the object a run works on.                                 *)
InHand(n, o, v) ==
  /\ phase[n] \in {"idle", "checked"} => Untouched(o, v)
  /\ phase[n] \in {"moved", "restoring"} => Moved(o, v)
  /\ phase[n] \in {"applied", "matched"} => Moved(o, v) /\ action[o][v] = "applied"
  /\ phase[n] = "matched" => quarantine[o][v] = v
  /\ phase[n] = "unlinked" => Deleted(o, v)
  /\ phase[n] \in {"failed", "stuck"} => Moved(o, v) \/ Deleted(o, v)
  /\ phase[n] = "restored" => action[o][v] \in Open /\ quarantine[o][v] = 0 /\ ~Gone(o, v)
  /\ phase[n] = "aborting" =>
       Untouched(o, v) \/ action[o][v] \in {"held", "rolled_back", "manual_attention"}

First(n, o) == \A q \in todo[n] : o <= q

Working(n) ==
  \A o \in todo[n] : phase[n] # "dead" =>
    IF First(n, o) THEN InHand(n, o, plan[n][o]) ELSE Untouched(o, plan[n][o])

(* The plans claimed are plans issued, and only their runs have work to do.     *)
Claims ==
  /\ \A n \in published \union ready \union consumed : n <= issued
  /\ \A n \in Plans : phase[n] # "none" => n \in consumed
  /\ \A n \in Plans : n \notin consumed \/ phase[n] = "ended" => todo[n] = {}
  /\ \A n \in Plans : todo[n] \subseteq Named(n)

(* A claimed plan owns what it names, and nobody touched what no plan owns.     *)
Owned ==
  /\ \A n \in consumed, o \in Objects : plan[n][o] # 0 =>
       fence[o][plan[n][o]] = n /\ action[o][plan[n][o]] # "none"
  /\ \A o \in Objects, v \in Versions :
       IF action[o][v] = "none" THEN quarantine[o][v] = 0 /\ ~Gone(o, v)
       ELSE fence[o][v] \in consumed /\ plan[fence[o][v]][o] = v

Fits(o, v) ==
  /\ action[o][v] = "verified" => Gone(o, v) \/ dry[fence[o][v]]
  /\ action[o][v] = "rolled_back" => ~Gone(o, v) /\ quarantine[o][v] = 0
  /\ Gone(o, v) => action[o][v] \in {"applied", "verified", "manual_attention"}
  /\ quarantine[o][v] # 0 => action[o][v] \in {"prepared", "applied", "manual_attention", "held"}

Attended(o, v) ==
  action[o][v] \in Open =>
    phase[fence[o][v]] = "dead" \/ (phase[fence[o][v]] # "ended" /\ o \in todo[fence[o][v]])

Orderly ==
  /\ Claims
  /\ Owned
  /\ \A n \in Plans : Working(n)
  /\ \A o \in Objects, v \in Versions : Fits(o, v) /\ Attended(o, v)

RetentionInv == RetentionTypeOK /\ OnlyThePlannedIsRemoved /\ Orderly

-----------------------------------------------------------------------------
(* One step on one action *)

Only(n, o) ==
  LET v == plan[n][o] IN
  /\ UNCHANGED <<plan, issued, published, ready, consumed, fence, dry>>
  /\ \A p \in Objects, w \in Versions : p # o \/ w # v =>
       /\ action'[p][w] = action[p][w] /\ quarantine'[p][w] = quarantine[p][w]
       /\ Gone(p, w)' <=> Gone(p, w)
  /\ \A m \in Plans : m # n => phase'[m] = phase[m] /\ todo'[m] = todo[m]
  /\ phase'[n] \notin {"none", "ended"}
  /\ \/ todo'[n] = todo[n] /\ InHand(n, o, v)'
     \/ /\ todo'[n] = todo[n] \ {o}
        /\ phase'[n] \in {"idle", "aborting"} /\ action'[o][v] \notin Open
  /\ action'[o][v] # "none"
  /\ Fits(o, v)'

LEMMA InitOrderly == RetentionInit => RetentionInv
  <1> SUFFICES ASSUME RetentionInit PROVE RetentionInv
    OBVIOUS
  <1> USE RetentionAssumption DEF RetentionInit, RetentionAssumption
  <1>1. RetentionTypeOK
    <2>1. /\ source \in [Objects -> 0..MaxVersions] /\ newest \in [Objects -> Versions]
          /\ quarantine \in [Objects -> [Versions -> 0..MaxVersions]]
      BY DEF Versions
    <2>2. /\ plan \in [Plans -> [Objects -> 0..MaxVersions]]
          /\ fence \in [Objects -> [Versions -> 0..MaxPlans]]
          /\ action \in [Objects -> [Versions -> {"none"} \union Open \union Final]]
      OBVIOUS
    <2>3. phase \in [Plans -> Phases] /\ todo \in [Plans -> SUBSET Objects] /\ dry \in [Plans -> BOOLEAN]
      BY DEF Phases
    <2> QED BY <2>1, <2>2, <2>3 DEF RetentionTypeOK
  <1>2. OnlyThePlannedIsRemoved
    BY DEF OnlyThePlannedIsRemoved
  <1>3. Claims
    BY DEF Claims, Named
  <1>4. \A o \in Objects, v \in Versions : ~Gone(o, v)
    BY DEF Gone
  <1>5. Owned
    BY <1>4 DEF Owned
  <1>6. \A n \in Plans : Working(n)
    BY DEF Working
  <1>7. \A o \in Objects, v \in Versions : Fits(o, v) /\ Attended(o, v)
    BY <1>4 DEF Fits, Attended, Open
  <1> QED BY <1>1, <1>2, <1>3, <1>5, <1>6, <1>7 DEF RetentionInv, Orderly

LEMMA OnlyKeeps ==
  ASSUME RetentionInv, RetentionTypeOK', NEW n \in Plans, NEW o \in todo[n], First(n, o),
         phase[n] # "dead", Only(n, o)
  PROVE  Orderly'
  <1> USE RetentionAssumption DEF RetentionAssumption
  <1> DEFINE v == plan[n][o]
  <1>1. /\ n \in consumed /\ o \in Objects /\ v \in Versions /\ fence[o][v] = n
        /\ action[o][v] # "none"
    <2>1. todo[n] \subseteq Named(n) /\ n \in consumed /\ todo[n] # {}
      BY DEF RetentionInv, Orderly, Claims
    <2>2. o \in Objects /\ v # 0 /\ v \in Versions
      BY <2>1 DEF Named, RetentionInv, RetentionTypeOK, Versions
    <2> QED BY <2>1, <2>2 DEF RetentionInv, Orderly, Owned
  <1>2. \A m \in consumed, p \in Objects :
          m # n /\ plan[m][p] # 0 => p # o \/ plan[m][p] # v
    <2> SUFFICES ASSUME NEW m \in consumed, NEW p \in Objects, m # n, plan[m][p] # 0
                 PROVE  p # o \/ plan[m][p] # v
      OBVIOUS
    <2>1. fence[p][plan[m][p]] = m
      BY DEF RetentionInv, Orderly, Owned
    <2>2. fence[o][v] = n
      BY <1>1
    <2> HIDE DEF v
    <2> QED BY <2>1, <2>2, Zenon
  <1>3. ASSUME NEW m \in Plans
        PROVE  todo[m] \subseteq Objects /\ \A p \in todo[m] : plan[m][p] \in Versions
    <2>1. todo[m] \subseteq Named(m)
      BY DEF RetentionInv, Orderly, Claims
    <2>2. \A p \in Objects : plan[m][p] \in 0..MaxVersions
      BY DEF RetentionInv, RetentionTypeOK
    <2>3. \A p \in todo[m] : p \in Objects /\ plan[m][p] # 0
      BY <2>1 DEF Named
    <2>4. \A x \in 0..MaxVersions : x # 0 => x \in Versions
      BY DEF Versions
    <2> QED BY <2>2, <2>3, <2>4
  <1>4. Claims'
    <2>1. \A m \in Plans : m \notin consumed \/ phase'[m] = "ended" => todo'[m] = {}
      BY <1>1 DEF RetentionInv, Orderly, Claims, Only
    <2>2. \A m \in Plans : phase'[m] # "none" => m \in consumed
      BY <1>1 DEF RetentionInv, Orderly, Claims, Only
    <2>3. \A m \in Plans : todo'[m] \subseteq Named(m)
      BY DEF RetentionInv, Orderly, Claims, Only
    <2>4. \A m \in Plans : Named(m)' = Named(m)
      BY DEF Named, Only
    <2> QED BY <2>1, <2>2, <2>3, <2>4 DEF RetentionInv, Orderly, Claims, Only
  <1>5. Owned'
    <2>1. \A m \in consumed, p \in Objects : plan[m][p] # 0 =>
            fence[p][plan[m][p]] = m /\ action'[p][plan[m][p]] # "none"
      <3> SUFFICES ASSUME NEW m \in consumed, NEW p \in Objects, plan[m][p] # 0
                   PROVE  fence[p][plan[m][p]] = m /\ action'[p][plan[m][p]] # "none"
        OBVIOUS
      <3>1. fence[p][plan[m][p]] = m /\ action[p][plan[m][p]] # "none"
        BY DEF RetentionInv, Orderly, Owned
      <3>2. plan[m][p] \in 0..MaxVersions
        BY DEF RetentionInv, RetentionTypeOK
      <3>3. plan[m][p] \in Versions
        BY <3>2 DEF Versions
      <3>4. CASE p = o /\ plan[m][p] = v
        <4>1. action'[o][v] # "none"
          BY DEF Only
        <4> QED BY <3>1, <3>4, <4>1
      <3>5. CASE p # o \/ plan[m][p] # v
        <4>1. action'[p][plan[m][p]] = action[p][plan[m][p]]
          BY <3>3, <3>5 DEF Only
        <4> QED BY <3>1, <4>1
      <3> QED BY <3>4, <3>5
    <2>2. \A p \in Objects, w \in Versions :
            IF action'[p][w] = "none" THEN quarantine'[p][w] = 0 /\ ~Gone(p, w)'
            ELSE fence[p][w] \in consumed /\ plan[fence[p][w]][p] = w
      <3> SUFFICES ASSUME NEW p \in Objects, NEW w \in Versions
                   PROVE  IF action'[p][w] = "none" THEN quarantine'[p][w] = 0 /\ ~Gone(p, w)'
                          ELSE fence[p][w] \in consumed /\ plan[fence[p][w]][p] = w
        OBVIOUS
      <3>1. CASE p = o /\ w = v
        <4>1. action'[o][v] # "none" /\ fence[o][v] \in consumed /\ plan[fence[o][v]][o] = v
          BY <1>1 DEF Only
        <4>2. action'[p][w] # "none" /\ fence[p][w] \in consumed /\ plan[fence[p][w]][p] = w
          <5> HIDE DEF v
          <5> QED BY <4>1, <3>1, Zenon
        <4> QED BY <4>2
      <3>2. CASE p # o \/ w # v
        <4>1. /\ action'[p][w] = action[p][w] /\ quarantine'[p][w] = quarantine[p][w]
              /\ Gone(p, w)' <=> Gone(p, w)
          BY <3>2 DEF Only
        <4>2. IF action[p][w] = "none" THEN quarantine[p][w] = 0 /\ ~Gone(p, w)
              ELSE fence[p][w] \in consumed /\ plan[fence[p][w]][p] = w
          BY DEF RetentionInv, Orderly, Owned
        <4> QED BY <4>1, <4>2
      <3> QED BY <3>1, <3>2
    <2> QED BY <2>1, <2>2 DEF Owned, Only
  <1>6. ASSUME NEW m \in Plans PROVE Working(m)'
    <2> SUFFICES ASSUME NEW p \in todo'[m], phase'[m] # "dead"
                 PROVE  IF First(m, p)' THEN InHand(m, p, plan[m][p])'
                        ELSE Untouched(p, plan[m][p])'
      BY DEF Working, Only
    <2> DEFINE w == plan[m][p]
    <2>1. CASE m # n
      <3>1. p \in todo[m] /\ phase[m] # "dead" /\ (First(m, p)' <=> First(m, p))
        BY <2>1 DEF Only, First
      <3>2. m \in consumed /\ w # 0 /\ p \in Objects /\ w \in Versions
        BY <3>1, <1>3 DEF RetentionInv, Orderly, Claims, Named
      <3>3. /\ action'[p][w] = action[p][w] /\ quarantine'[p][w] = quarantine[p][w]
            /\ Gone(p, w)' <=> Gone(p, w)
        BY <3>2, <1>2, <2>1 DEF Only
      <3>4. IF First(m, p) THEN InHand(m, p, w) ELSE Untouched(p, w)
        BY <3>1 DEF RetentionInv, Orderly, Working
      <3>5. phase'[m] = phase[m]
        BY <2>1 DEF Only
      <3>6. plan' = plan
        BY DEF Only
      <3> HIDE DEF w
      <3>7. (InHand(m, p, w) => InHand(m, p, w)') /\ (Untouched(p, w) => Untouched(p, w)')
        BY <3>3, <3>5, <3>6 DEF InHand, Untouched, Moved, Deleted, w
      <3> QED BY <3>1, <3>4, <3>6, <3>7 DEF w
    <2>2. CASE m = n /\ p = o
      <3>1. todo'[n] = todo[n] /\ InHand(n, o, v)'
        BY <2>2 DEF Only
      <3>2. First(n, o)'
        BY <3>1 DEF First
      <3> QED BY <2>2, <3>1, <3>2 DEF Only
    <2>3. CASE m = n /\ p # o
      <3>1. /\ p \in todo[n] /\ p \in Objects /\ w \in Versions /\ o \in Objects
            /\ p \in Nat /\ o \in Nat
        BY <2>3, <1>3, <1>1 DEF Only
      <3>2. ~First(n, p)
        BY <3>1, <2>3 DEF First
      <3>3. Untouched(p, w)
        BY <3>1, <3>2, <2>3 DEF RetentionInv, Orderly, Working
      <3>4. /\ action'[p][w] = action[p][w] /\ quarantine'[p][w] = quarantine[p][w]
            /\ Gone(p, w)' <=> Gone(p, w)
        BY <3>1, <2>3 DEF Only
      <3>5. Untouched(p, w)'
        BY <3>3, <3>4 DEF Untouched, Only
      <3>6. First(n, p)' => phase'[n] \in {"idle", "aborting"}
        BY <3>1, <2>3 DEF First, Only
      <3> HIDE DEF w
      <3>7. First(n, p)' => InHand(n, p, w)'
        BY <3>5, <3>6 DEF InHand
      <3>8. plan' = plan
        BY DEF Only
      <3> QED BY <2>3, <3>5, <3>7, <3>8 DEF w
    <2> QED BY <2>1, <2>2, <2>3
  <1>7. ASSUME NEW p \in Objects, NEW w \in Versions PROVE Fits(p, w)' /\ Attended(p, w)'
    <2>1. CASE p = o /\ w = v
      <3>1. Fits(p, w)'
        BY <2>1 DEF Only
      <3>2. Attended(p, w)'
        BY <2>1, <1>1 DEF Attended, Only
      <3> QED BY <3>1, <3>2
    <2>2. CASE p # o \/ w # v
      <3>1. /\ action'[p][w] = action[p][w] /\ quarantine'[p][w] = quarantine[p][w]
            /\ Gone(p, w)' <=> Gone(p, w)
        BY <2>2 DEF Only
      <3>2. Fits(p, w) /\ Attended(p, w)
        BY DEF RetentionInv, Orderly
      <3>3. Fits(p, w)'
        BY <3>1, <3>2 DEF Fits, Only
      <3>4. ASSUME action[p][w] \in Open
            PROVE  /\ fence[p][w] \in Plans
                   /\ phase'[fence[p][w]] = "dead"
                        \/ (phase'[fence[p][w]] # "ended" /\ p \in todo'[fence[p][w]])
        <4>1. fence[p][w] \in consumed /\ plan[fence[p][w]][p] = w /\ fence[p][w] \in Plans
          BY <3>4 DEF RetentionInv, RetentionTypeOK, Orderly, Owned, Open
        <4>2. fence[p][w] = n => p # o
          BY <4>1, <2>2
        <4> QED BY <3>4, <3>2, <4>1, <4>2 DEF Attended, Only
      <3>5. Attended(p, w)'
        BY <3>1, <3>4 DEF Attended, Only
      <3> QED BY <3>3, <3>5
    <2> QED BY <2>1, <2>2
  <1> QED BY <1>4, <1>5, <1>6, <1>7 DEF Orderly

-----------------------------------------------------------------------------
(* The steps of a run *)

LEMMA Here ==
  ASSUME RetentionInv, NEW n \in Plans, NEW o \in todo[n], First(n, o), phase[n] # "dead"
  PROVE  /\ n \in consumed /\ o \in Objects /\ plan[n][o] \in Versions
         /\ fence[o][plan[n][o]] = n /\ action[o][plan[n][o]] # "none"
         /\ InHand(n, o, plan[n][o]) /\ Fits(o, plan[n][o])
  <1> USE RetentionAssumption DEF RetentionAssumption
  <1>1. todo[n] \subseteq Named(n) /\ n \in consumed /\ todo[n] # {}
    BY DEF RetentionInv, Orderly, Claims
  <1>2. o \in Objects /\ plan[n][o] # 0 /\ plan[n][o] \in Versions
    BY <1>1 DEF Named, RetentionInv, RetentionTypeOK, Versions
  <1>3. fence[o][plan[n][o]] = n /\ action[o][plan[n][o]] # "none"
    BY <1>1, <1>2 DEF RetentionInv, Orderly, Owned
  <1>4. InHand(n, o, plan[n][o]) /\ Fits(o, plan[n][o])
    BY <1>2 DEF RetentionInv, Orderly, Working
  <1> QED BY <1>1, <1>2, <1>3, <1>4

(* What a change of state, or of what is in quarantine, leaves alone.           *)
LEMMA TransitionActs ==
  ASSUME RetentionTypeOK, NEW n \in Plans, NEW o \in Objects, plan[n][o] \in Versions,
         NEW to \in Open \union Final, Transition(n, o, to)
  PROVE  /\ action' \in [Objects -> [Versions -> {"none"} \union Open \union Final]]
         /\ \A p \in Objects, w \in Versions : p # o \/ w # plan[n][o] =>
              action'[p][w] = action[p][w]
         /\ action'[o][plan[n][o]] =
              IF Allowed(action[o][plan[n][o]], to) THEN to ELSE action[o][plan[n][o]]
  <1>1. action \in [Objects -> [Versions -> {"none"} \union Open \union Final]]
    BY DEF RetentionTypeOK
  <1>2. CASE Allowed(action[o][plan[n][o]], to)
    BY <1>1, <1>2 DEF Transition
  <1>3. CASE ~Allowed(action[o][plan[n][o]], to)
    BY <1>1, <1>3 DEF Transition
  <1> QED BY <1>2, <1>3

LEMMA QuarantineActs ==
  ASSUME RetentionTypeOK, NEW n \in Plans, NEW o \in Objects, plan[n][o] \in Versions,
         NEW q \in 0..MaxVersions, quarantine' = [quarantine EXCEPT ![o][plan[n][o]] = q]
  PROVE  /\ quarantine' \in [Objects -> [Versions -> 0..MaxVersions]]
         /\ \A p \in Objects, w \in Versions : p # o \/ w # plan[n][o] =>
              quarantine'[p][w] = quarantine[p][w]
         /\ quarantine'[o][plan[n][o]] = q
  BY DEF RetentionTypeOK

LEMMA SameGone ==
  ASSUME UNCHANGED reclaimed
  PROVE  \A p \in Objects, w \in Versions : Gone(p, w)' <=> Gone(p, w)
  BY DEF Gone

LEMMA PhaseActs ==
  ASSUME RetentionTypeOK, NEW n \in Plans, NEW p \in Phases, Goes(n, p)
  PROVE  /\ phase' \in [Plans -> Phases] /\ phase'[n] = p /\ todo' = todo
         /\ \A m \in Plans : m # n => phase'[m] = phase[m]
  BY DEF RetentionTypeOK, Goes

LEMMA SettledActs ==
  ASSUME RetentionTypeOK, NEW n \in Plans, NEW o \in Objects, NEW p \in Phases, Settled(n, o, p)
  PROVE  /\ phase' \in [Plans -> Phases] /\ phase'[n] = p
         /\ todo' \in [Plans -> SUBSET Objects] /\ todo'[n] = todo[n] \ {o}
         /\ \A m \in Plans : m # n => phase'[m] = phase[m] /\ todo'[m] = todo[m]
  BY DEF RetentionTypeOK, Settled

(* Steps that change neither the disk nor the action.                          *)
LEMMA LooksOnly ==
  ASSUME RetentionInv, NEW n \in Plans, NEW o \in todo[n], First(n, o), phase[n] # "dead",
         NEW p \in Phases \ {"none", "ended"}, Goes(n, p), InHand(n, o, plan[n][o])',
         UNCHANGED <<action, quarantine, reclaimed, plan, issued, published, ready, consumed,
                     fence, dry>>
  PROVE  Only(n, o)
  <1>1. RetentionTypeOK
    BY DEF RetentionInv
  <1>2. Fits(o, plan[n][o])'
    BY Here DEF Fits, Gone
  <1> QED BY <1>1, <1>2, Here, SameGone, PhaseActs DEF Only

Concerned(n, o) ==
  /\ o \in todo[n] /\ First(n, o) /\ phase[n] # "dead"
  /\ RetentionTypeOK' /\ OnlyThePlannedIsRemoved' /\ Only(n, o)

(* The steps that look or move, without a change of state.                     *)
LEMMA DiskStep ==
  ASSUME RetentionInv, NEW n \in Plans, NEW o \in Objects,
         \/ \E ok \in BOOLEAN : Preflight(n, o, ok) \/ Restore(n, o, ok)
         \/ Move(n, o) \/ Fail(n, o) \/ CheckMoved(n, o)
         \/ Unlink(n, o) \/ UnlinkPart(n, o) \/ LookBack(n, o)
  PROVE  Concerned(n, o)
  <1> USE RetentionAssumption DEF RetentionAssumption
  <1> DEFINE v == plan[n][o]
  <1>1. o \in todo[n] /\ First(n, o) /\ phase[n] # "dead"
    BY DEF Preflight, Restore, Move, Fail, CheckMoved, Unlink, UnlinkPart, LookBack, At, First
  <1>2. /\ n \in consumed /\ v \in Versions /\ fence[o][v] = n /\ action[o][v] # "none"
        /\ InHand(n, o, v) /\ Fits(o, v)
    BY <1>1, Here
  <1>3. RetentionTypeOK /\ OnlyThePlannedIsRemoved
    BY DEF RetentionInv
  <1>4. /\ source[o] \in 0..MaxVersions /\ quarantine[o][v] \in 0..MaxVersions
        /\ source \in [Objects -> 0..MaxVersions]
    BY <1>2, <1>3 DEF RetentionTypeOK
  <1>5. UNCHANGED <<newest, plan, issued, published, ready, consumed, holder, fence, today, dry, deaths,
                   action, todo>>
    BY DEF Preflight, Restore, Move, Fail, CheckMoved, Unlink, UnlinkPart, LookBack, Goes,
       planVars, claimVars, diskVars
  <1>6. ASSUME NEW p \in Phases \ {"none", "ended"}, Goes(n, p), InHand(n, o, v)',
               UNCHANGED <<source, quarantine, damaged, reclaimed>>
        PROVE  Concerned(n, o)
    <2>1. RetentionTypeOK'
      BY <1>3, <1>5, <1>6, PhaseActs DEF RetentionTypeOK
    <2>2. OnlyThePlannedIsRemoved'
      BY <1>3, <1>6 DEF OnlyThePlannedIsRemoved
    <2> QED BY <1>1, <1>5, <1>6, <2>1, <2>2, LooksOnly DEF Concerned
  <1>7. ASSUME NEW ok \in BOOLEAN, Preflight(n, o, ok) PROVE Concerned(n, o)
    <2> DEFINE p == IF ok THEN "checked" ELSE "aborting"
    <2>1. /\ Goes(n, p) /\ p \in Phases \ {"none", "ended"} /\ p \in {"checked", "aborting"}
          /\ phase[n] = "idle"
      BY <1>7 DEF Preflight, Phases, At
    <2>2. UNCHANGED <<source, quarantine, damaged, reclaimed>>
      BY <1>7 DEF Preflight, diskVars
    <2> HIDE DEF p
    <2>3. phase'[n] = p
      BY <2>1, <1>3, PhaseActs
    <2>4. InHand(n, o, v)'
      BY <1>2, <1>5, <2>1, <2>2, <2>3 DEF InHand, Untouched, Gone
    <2> QED BY <2>1, <2>2, <2>4, <1>6
  <1>8. ASSUME Fail(n, o) PROVE Concerned(n, o)
    <2>1. Goes(n, "failed") /\ phase[n] \in {"moved", "applied", "matched", "unlinked"}
      BY <1>8 DEF Fail, At
    <2>2. UNCHANGED <<source, quarantine, damaged, reclaimed>>
      BY <1>8 DEF Fail, diskVars
    <2>3. phase'[n] = "failed"
      BY <2>1, <1>3, PhaseActs DEF Phases
    <2>4. InHand(n, o, v)'
      BY <1>2, <1>5, <2>1, <2>2, <2>3 DEF InHand, Moved, Deleted, Gone
    <2> QED BY <2>1, <2>2, <2>4, <1>6 DEF Phases
  <1>9. ASSUME CheckMoved(n, o) PROVE Concerned(n, o)
    <2> DEFINE p == IF source[o] = 0 /\ Matches(n, o) THEN "matched" ELSE "failed"
    <2>1. /\ Goes(n, p) /\ p \in Phases \ {"none", "ended"} /\ p \in {"matched", "failed"}
          /\ phase[n] = "applied" /\ (p = "matched" => quarantine[o][v] = v)
      BY <1>9 DEF CheckMoved, Phases, At, Matches
    <2>2. UNCHANGED <<source, quarantine, damaged, reclaimed>>
      BY <1>9 DEF CheckMoved, diskVars
    <2> HIDE DEF p
    <2>3. phase'[n] = p
      BY <2>1, <1>3, PhaseActs
    <2>4. InHand(n, o, v)'
      BY <1>2, <1>5, <2>1, <2>2, <2>3 DEF InHand, Moved, Deleted, Gone
    <2> QED BY <2>1, <2>2, <2>4, <1>6
  <1>10. ASSUME LookBack(n, o) PROVE Concerned(n, o)
    <2> DEFINE p == IF quarantine[o][v] # 0 /\ source[o] = 0 THEN "restoring" ELSE "stuck"
    <2>1. /\ Goes(n, p) /\ p \in Phases \ {"none", "ended"} /\ p \in {"restoring", "stuck"}
          /\ phase[n] = "failed" /\ (p = "restoring" => quarantine[o][v] # 0)
      BY <1>10 DEF LookBack, Phases, At
    <2>2. UNCHANGED <<source, quarantine, damaged, reclaimed>>
      BY <1>10 DEF LookBack, diskVars
    <2> HIDE DEF p
    <2>3. phase'[n] = p
      BY <2>1, <1>3, PhaseActs
    <2>4. InHand(n, o, v)'
      BY <1>2, <1>5, <2>1, <2>2, <2>3 DEF InHand, Moved, Deleted, Gone
    <2> QED BY <2>1, <2>2, <2>4, <1>6
  <1>11. ASSUME UnlinkPart(n, o) PROVE Concerned(n, o)
    <2>1. Goes(n, "failed") /\ phase[n] = "matched" /\ quarantine[o][v] = v
      BY <1>2, <1>11 DEF UnlinkPart, At, InHand
    <2>2. /\ UNCHANGED <<source, quarantine, reclaimed>>
          /\ damaged' = damaged \union {<<o, v>>}
      BY <1>11, <2>1 DEF UnlinkPart
    <2>3. phase'[n] = "failed"
      BY <2>1, <1>3, PhaseActs DEF Phases
    <2>4. InHand(n, o, v)'
      BY <1>2, <1>5, <2>1, <2>2, <2>3 DEF InHand, Moved, Deleted, Gone
    <2>5. damaged' \subseteq Objects \X Versions
      BY <1>2, <1>3, <2>2 DEF RetentionTypeOK
    <2>6. phase' \in [Plans -> Phases]
      BY <1>3, <2>1, PhaseActs DEF Phases
    <2>7. RetentionTypeOK'
      BY <1>3, <1>5, <2>2, <2>5, <2>6 DEF RetentionTypeOK
    <2>8. OnlyThePlannedIsRemoved'
      BY <1>3, <2>2 DEF OnlyThePlannedIsRemoved
    <2>9. Only(n, o)
      BY <1>1, <1>5, <2>1, <2>2, <2>4, LooksOnly DEF Phases
    <2> QED BY <1>1, <2>7, <2>8, <2>9 DEF Concerned
  <1>12. ASSUME Unlink(n, o) PROVE Concerned(n, o)
    <2>1. /\ Goes(n, "unlinked") /\ phase[n] = "matched"
          /\ quarantine[o][v] = v /\ action[o][v] = "applied"
      BY <1>2, <1>12 DEF Unlink, At, InHand
    <2>2. /\ UNCHANGED <<source, damaged>>
          /\ reclaimed' = reclaimed \union {<<o, v, v>>}
          /\ quarantine' = [quarantine EXCEPT ![o][v] = 0]
      BY <1>12, <2>1 DEF Unlink
    <2>3. /\ phase'[n] = "unlinked" /\ phase' \in [Plans -> Phases]
          /\ \A m \in Plans : m # n => phase'[m] = phase[m]
      BY <2>1, <1>3, PhaseActs DEF Phases
    <2>4. /\ quarantine' \in [Objects -> [Versions -> 0..MaxVersions]]
          /\ \A p \in Objects, w \in Versions : p # o \/ w # v =>
               quarantine'[p][w] = quarantine[p][w]
          /\ quarantine'[o][v] = 0
      BY <1>2, <1>3, <2>2 DEF RetentionTypeOK
    <2>5. Gone(o, v)' /\ \A p \in Objects, w \in Versions : p # o \/ w # v => (Gone(p, w)' <=> Gone(p, w))
      <3>1. v' = v /\ v \in Versions
        BY <1>2, <1>5
      <3> HIDE DEF v
      <3>2. Gone(o, v)'
        BY <2>2, <3>1 DEF Gone
      <3>3. \A p \in Objects, w \in Versions : p # o \/ w # v => (Gone(p, w)' <=> Gone(p, w))
        BY <2>2 DEF Gone
      <3> QED BY <3>2, <3>3
    <2>6. Deleted(o, v)'
      BY <1>5, <2>1, <2>4, <2>5 DEF Deleted
    <2>7. InHand(n, o, v)'
      BY <2>3, <2>6 DEF InHand
    <2>8. Fits(o, v)'
      BY <2>6 DEF Deleted, Fits
    <2>9. RetentionTypeOK'
      <3>1. reclaimed' \subseteq Objects \X Versions \X Versions
        BY <1>2, <1>3, <2>2 DEF RetentionTypeOK
      <3> QED BY <1>3, <1>5, <2>2, <2>3, <2>4, <3>1 DEF RetentionTypeOK
    <2>10. OnlyThePlannedIsRemoved'
      BY <1>3, <2>2 DEF OnlyThePlannedIsRemoved
    <2>11. Only(n, o)
      BY <1>2, <1>5, <2>3, <2>4, <2>5, <2>7, <2>8 DEF Only
    <2> QED BY <1>1, <2>9, <2>10, <2>11 DEF Concerned
  <1>13. ASSUME NEW q \in 0..MaxVersions, NEW p \in {"moved", "restored"}, Goes(n, p),
                quarantine' = [quarantine EXCEPT ![o][v] = q],
                source' \in [Objects -> 0..MaxVersions],
                action[o][v] \in Open, ~Gone(o, v), p = "moved" <=> q # 0,
                UNCHANGED <<damaged, reclaimed>>
         PROVE  Concerned(n, o)
    <2>1. /\ phase'[n] = p /\ phase' \in [Plans -> Phases]
          /\ \A m \in Plans : m # n => phase'[m] = phase[m]
      BY <1>3, <1>13, PhaseActs DEF Phases
    <2>2. /\ quarantine' \in [Objects -> [Versions -> 0..MaxVersions]]
          /\ \A r \in Objects, w \in Versions : r # o \/ w # v =>
               quarantine'[r][w] = quarantine[r][w]
          /\ quarantine'[o][v] = q
      BY <1>2, <1>3, <1>13, QuarantineActs
    <2>3. action'[o][v] \in Open /\ ~Gone(o, v)'
      BY <1>5, <1>13 DEF Gone
    <2>4. InHand(n, o, v)'
      BY <1>5, <1>13, <2>1, <2>2, <2>3 DEF InHand, Moved
    <2>5. Fits(o, v)'
      BY <1>5, <2>3 DEF Fits, Open
    <2>6. RetentionTypeOK'
      BY <1>3, <1>5, <1>13, <2>1, <2>2 DEF RetentionTypeOK
    <2>7. OnlyThePlannedIsRemoved'
      BY <1>3, <1>13 DEF OnlyThePlannedIsRemoved
    <2>8. Only(n, o)
      BY <1>2, <1>5, <1>13, <2>1, <2>2, <2>3, <2>4, <2>5, SameGone DEF Only
    <2> QED BY <1>1, <2>6, <2>7, <2>8 DEF Concerned
  <1>14. ASSUME Move(n, o) PROVE Concerned(n, o)
    <2>1. phase[n] = "checked" /\ Untouched(o, v) /\ UNCHANGED <<damaged, reclaimed>>
      BY <1>2, <1>14 DEF Move, At, InHand
    <2>2. CASE source[o] = 0
      <3>1. Goes(n, "aborting") /\ UNCHANGED <<source, quarantine>>
        BY <1>14, <2>2 DEF Move
      <3>2. phase'[n] = "aborting"
        BY <1>3, <3>1, PhaseActs DEF Phases
      <3>3. InHand(n, o, v)'
        BY <1>5, <2>1, <3>1, <3>2 DEF InHand, Untouched, Gone
      <3> QED BY <2>1, <3>1, <3>3, <1>6 DEF Phases
    <2>3. CASE source[o] # 0
      <3>1. /\ Goes(n, "moved") /\ source' = [source EXCEPT ![o] = 0]
            /\ quarantine' = [quarantine EXCEPT ![o][v] = source[o]]
        BY <1>14, <2>3 DEF Move
      <3>2. source' \in [Objects -> 0..MaxVersions]
        BY <1>4, <3>1
      <3>3. action[o][v] \in Open /\ ~Gone(o, v)
        BY <2>1 DEF Untouched, Open
      <3> QED BY <1>4, <1>13, <2>1, <2>3, <3>1, <3>2, <3>3
    <2> QED BY <2>2, <2>3
  <1>15. ASSUME NEW ok \in BOOLEAN, Restore(n, o, ok) PROVE Concerned(n, o)
    <2>1. phase[n] = "restoring" /\ Moved(o, v) /\ UNCHANGED <<damaged, reclaimed>>
      BY <1>2, <1>15 DEF Restore, At, InHand
    <2>2. CASE ~ok
      <3>1. Goes(n, "stuck") /\ UNCHANGED <<source, quarantine>>
        BY <1>15, <2>2 DEF Restore
      <3>2. phase'[n] = "stuck"
        BY <1>3, <3>1, PhaseActs DEF Phases
      <3>3. InHand(n, o, v)'
        BY <1>5, <2>1, <3>1, <3>2 DEF InHand, Moved, Gone
      <3> QED BY <2>1, <3>1, <3>3, <1>6 DEF Phases
    <2>3. CASE ok
      <3>1. /\ Goes(n, "restored") /\ source' = [source EXCEPT ![o] = quarantine[o][v]]
            /\ quarantine' = [quarantine EXCEPT ![o][v] = 0]
        BY <1>15, <2>3 DEF Restore
      <3>2. source' \in [Objects -> 0..MaxVersions] /\ 0 \in 0..MaxVersions
        BY <1>4, <3>1
      <3>3. action[o][v] \in Open /\ ~Gone(o, v)
        BY <2>1 DEF Moved
      <3> QED BY <1>13, <2>1, <3>1, <3>2, <3>3
    <2> QED BY <2>2, <2>3
  <1> QED
    BY <1>7, <1>8, <1>9, <1>10, <1>11, <1>12, <1>14, <1>15

(* The steps that change the state of the action.                              *)
LEMMA VerdictStep ==
  ASSUME RetentionInv, NEW n \in Plans, NEW o \in Objects,
         \/ RecordApplied(n, o) \/ Finish(n, o) \/ RecordFailure(n, o) \/ Abort(n, o)
         \/ \E ok \in BOOLEAN : DryRun(n, o, ok)
  PROVE  Concerned(n, o)
  <1> USE RetentionAssumption DEF RetentionAssumption
  <1> DEFINE v == plan[n][o]
             a == action[o][v]
  <1>1. o \in todo[n] /\ First(n, o) /\ phase[n] # "dead"
    BY DEF RecordApplied, Finish, RecordFailure, Abort, DryRun, At, First
  <1>2. /\ n \in consumed /\ v \in Versions /\ fence[o][v] = n /\ a # "none"
        /\ InHand(n, o, v) /\ Fits(o, v)
    BY <1>1, Here
  <1>3. RetentionTypeOK /\ OnlyThePlannedIsRemoved
    BY DEF RetentionInv
  <1>4. UNCHANGED <<source, newest, quarantine, damaged, reclaimed, plan, issued, published, ready,
                    consumed, holder, fence, today, dry, deaths>>
    BY DEF RecordApplied, Finish, RecordFailure, Abort, DryRun, planVars, claimVars, diskVars
  <1>5. (Gone(o, v)' <=> Gone(o, v)) /\ OnlyThePlannedIsRemoved'
    BY <1>3, <1>4 DEF Gone, OnlyThePlannedIsRemoved
  <1>6. ASSUME NEW to \in Open \union Final, Transition(n, o, to),
               NEW p \in Phases \ {"none", "ended"}, Goes(n, p), InHand(n, o, v)', Fits(o, v)'
        PROVE  Concerned(n, o)
    <2>1. /\ action' \in [Objects -> [Versions -> {"none"} \union Open \union Final]]
          /\ \A r \in Objects, w \in Versions : r # o \/ w # v => action'[r][w] = action[r][w]
          /\ action'[o][v] # "none"
      BY <1>2, <1>3, <1>6, TransitionActs DEF Open, Final
    <2>2. RetentionTypeOK'
      BY <1>3, <1>4, <1>6, <2>1, PhaseActs DEF RetentionTypeOK
    <2>3. Only(n, o)
      BY <1>2, <1>3, <1>4, <1>6, <2>1, PhaseActs, SameGone DEF Only
    <2> QED BY <1>1, <1>5, <2>2, <2>3 DEF Concerned
  <1>7. ASSUME NEW to \in Open \union Final, Transition(n, o, to),
               NEW p \in {"idle", "aborting"}, Settled(n, o, p),
               action'[o][v] \notin Open, Fits(o, v)'
        PROVE  Concerned(n, o)
    <2>1. /\ action' \in [Objects -> [Versions -> {"none"} \union Open \union Final]]
          /\ \A r \in Objects, w \in Versions : r # o \/ w # v => action'[r][w] = action[r][w]
          /\ action'[o][v] # "none"
      BY <1>2, <1>3, <1>7, TransitionActs DEF Open, Final
    <2>2. /\ phase' \in [Plans -> Phases] /\ phase'[n] = p
          /\ todo' \in [Plans -> SUBSET Objects] /\ todo'[n] = todo[n] \ {o}
          /\ \A m \in Plans : m # n => phase'[m] = phase[m] /\ todo'[m] = todo[m]
      BY <1>3, <1>7, SettledActs DEF Phases
    <2>3. RetentionTypeOK'
      BY <1>3, <1>4, <2>1, <2>2 DEF RetentionTypeOK
    <2>4. Only(n, o)
      BY <1>2, <1>4, <1>7, <2>1, <2>2, SameGone DEF Only
    <2> QED BY <1>1, <1>5, <2>3, <2>4 DEF Concerned
  <1>8. ASSUME NEW to \in Open \union Final, Transition(n, o, to)
        PROVE  action'[o][v] = IF Allowed(a, to) THEN to ELSE a
    BY <1>2, <1>3, <1>8, TransitionActs
  <1>9. ASSUME RecordApplied(n, o) PROVE Concerned(n, o)
    <2>1. phase[n] = "moved" /\ Transition(n, o, "applied") /\ Goes(n, "applied")
      BY <1>9 DEF RecordApplied, At
    <2>2. phase'[n] = "applied"
      BY <1>3, <2>1, PhaseActs DEF Phases
    <2>3. Moved(o, v)
      BY <1>2, <2>1 DEF InHand
    <2>4. action'[o][v] = "applied"
      BY <1>8, <2>1, <2>3 DEF Allowed, Open, Moved
    <2>5. Moved(o, v)'
      BY <1>4, <1>5, <2>3, <2>4 DEF Moved, Open
    <2>6. InHand(n, o, v)' /\ Fits(o, v)'
      BY <1>4, <2>2, <2>4, <2>5 DEF InHand, Fits, Moved
    <2> QED BY <1>6, <2>1, <2>6 DEF Open, Phases
  <1>10. ASSUME Finish(n, o) PROVE Concerned(n, o)
    <2>1. phase[n] = "unlinked" /\ Transition(n, o, "verified") /\ Settled(n, o, "idle")
      BY <1>10 DEF Finish, At
    <2>2. Deleted(o, v)
      BY <1>2, <2>1 DEF InHand
    <2>3. action'[o][v] = "verified"
      BY <1>8, <2>1, <2>2 DEF Allowed, Final, Deleted
    <2>4. Fits(o, v)' /\ action'[o][v] \notin Open
      BY <1>4, <1>5, <2>2, <2>3 DEF Fits, Deleted, Open
    <2> QED BY <1>7, <2>1, <2>4 DEF Final
  <1>11. ASSUME RecordFailure(n, o) PROVE Concerned(n, o)
    <2> DEFINE to == Verdict(n, o)
    <2>1. /\ phase[n] \in {"restored", "stuck"} /\ Transition(n, o, to) /\ Goes(n, "aborting")
      BY <1>11 DEF RecordFailure, At
    <2>2. to = IF a # "applied" THEN "held"
               ELSE IF phase[n] = "restored" THEN "rolled_back" ELSE "manual_attention"
      BY DEF Verdict
    <2>3. /\ a \in Open
          /\ phase[n] = "restored" => quarantine[o][v] = 0 /\ ~Gone(o, v)
          /\ Gone(o, v) => a = "applied" /\ phase[n] = "stuck"
      BY <1>2, <2>1 DEF InHand, Moved, Deleted, Open
    <2> HIDE DEF to
    <2>4. action'[o][v] = to
      BY <1>8, <2>1, <2>2, <2>3 DEF Allowed, Final, Open
    <2>5. phase'[n] = "aborting"
      BY <1>3, <2>1, PhaseActs DEF Phases
    <2>6. InHand(n, o, v)'
      BY <1>4, <2>2, <2>4, <2>5 DEF InHand
    <2>7. Fits(o, v)'
      BY <1>4, <1>5, <2>1, <2>2, <2>3, <2>4 DEF Fits, Open
    <2> QED BY <1>6, <2>1, <2>2, <2>6, <2>7 DEF Final, Phases
  <1>12. ASSUME Abort(n, o) PROVE Concerned(n, o)
    <2>1. phase[n] = "aborting" /\ Transition(n, o, "held") /\ Settled(n, o, "aborting")
      BY <1>12 DEF Abort, At
    <2>2. Untouched(o, v) \/ a \in {"held", "rolled_back", "manual_attention"}
      BY <1>2, <2>1 DEF InHand
    <2>3. CASE Untouched(o, v)
      <3>1. action'[o][v] = "held"
        BY <1>8, <2>1, <2>3 DEF Allowed, Untouched, Final
      <3>2. Fits(o, v)' /\ action'[o][v] \notin Open
        BY <1>4, <1>5, <2>3, <3>1 DEF Fits, Untouched, Open
      <3> QED BY <1>7, <2>1, <3>2 DEF Final
    <2>4. CASE a \in {"held", "rolled_back", "manual_attention"}
      <3>1. action'[o][v] = a
        BY <1>8, <2>1, <2>4 DEF Allowed, Final
      <3>2. Fits(o, v)' /\ action'[o][v] \notin Open
        BY <1>2, <1>4, <1>5, <2>4, <3>1 DEF Fits, Open
      <3> QED BY <1>7, <2>1, <3>2 DEF Final
    <2> QED BY <2>2, <2>3, <2>4
  <1>13. ASSUME NEW ok \in BOOLEAN, DryRun(n, o, ok) PROVE Concerned(n, o)
    <2>1. phase[n] = "idle" /\ dry[n] /\ Untouched(o, v)
      BY <1>2, <1>13 DEF DryRun, At, InHand
    <2>2. CASE ok
      <3>1. Transition(n, o, "verified") /\ Settled(n, o, "idle")
        BY <1>13, <2>2 DEF DryRun
      <3>2. action'[o][v] = "verified"
        BY <1>8, <2>1, <3>1 DEF Allowed, Untouched, Final
      <3>3. Fits(o, v)' /\ action'[o][v] \notin Open
        BY <1>2, <1>4, <1>5, <2>1, <3>2 DEF Fits, Untouched, Open
      <3> QED BY <1>7, <3>1, <3>3 DEF Final
    <2>3. CASE ~ok
      <3>1. Goes(n, "aborting") /\ UNCHANGED action
        BY <1>13, <2>3 DEF DryRun
      <3>2. phase'[n] = "aborting"
        BY <1>3, <3>1, PhaseActs DEF Phases
      <3>3. InHand(n, o, v)'
        BY <1>4, <1>5, <2>1, <3>1, <3>2 DEF InHand, Untouched
      <3>4. Only(n, o)
        BY <1>1, <1>4, <3>1, <3>3, LooksOnly DEF Phases
      <3>5. RetentionTypeOK'
        BY <1>3, <1>4, <3>1, PhaseActs DEF RetentionTypeOK, Phases
      <3> QED BY <1>1, <1>5, <3>4, <3>5 DEF Concerned
    <2> QED BY <2>2, <2>3
  <1> QED
    BY <1>9, <1>10, <1>11, <1>12, <1>13

-----------------------------------------------------------------------------
(* The other steps *)

LEMMA QuietKeeps ==
  ASSUME RetentionInv,
         UNCHANGED <<action, quarantine, reclaimed, plan, issued, consumed, fence, dry, phase, todo>>,
         \A n \in published' \union ready' : n <= issued
  PROVE  Orderly' /\ OnlyThePlannedIsRemoved'
  <1>1. \A o, v : (Gone(o, v)' <=> Gone(o, v)) /\ (Untouched(o, v)' <=> Untouched(o, v))
                 /\ (Fits(o, v)' <=> Fits(o, v)) /\ (Attended(o, v)' <=> Attended(o, v))
    BY DEF Gone, Untouched, Fits, Attended
  <1>2. Claims'
    BY DEF RetentionInv, Orderly, Claims, Named
  <1>3. Owned'
    BY <1>1 DEF RetentionInv, Orderly, Owned
  <1>4. ASSUME NEW n \in Plans PROVE Working(n)'
    <2>1. Working(n)
      BY DEF RetentionInv, Orderly
    <2>2. \A o \in todo[n] : (InHand(n, o, plan[n][o])' <=> InHand(n, o, plan[n][o]))
                            /\ (First(n, o)' <=> First(n, o))
      BY <1>1 DEF InHand, First, Moved, Deleted
    <2> QED BY <1>1, <2>1, <2>2 DEF Working
  <1>5. \A o \in Objects, v \in Versions : Fits(o, v)' /\ Attended(o, v)'
    BY <1>1 DEF RetentionInv, Orderly
  <1>6. OnlyThePlannedIsRemoved'
    BY DEF RetentionInv, OnlyThePlannedIsRemoved
  <1> QED BY <1>2, <1>3, <1>4, <1>5, <1>6 DEF Orderly

LEMMA QuietStep ==
  ASSUME RetentionInv,
         \/ \E o \in Shared : Write(o) \/ Remove(o)
         \/ HoldLapses \/ Midnight
         \/ \E n \in Plans : Publish(n) \/ Start(n) \/ ClaimRefused(n)
         \/ UNCHANGED retentionVars
  PROVE  RetentionInv'
  <1> USE RetentionAssumption DEF RetentionAssumption
  <1>1. RetentionTypeOK /\ Claims
    BY DEF RetentionInv, Orderly
  <1>2. UNCHANGED <<action, quarantine, reclaimed, plan, issued, consumed, fence, dry, phase, todo>>
    BY DEF Write, Remove, HoldLapses, Midnight, Publish, Start, ClaimRefused, retentionVars,
       diskVars, planVars, claimVars, runVars
  <1>3. /\ \A n \in published' \union ready' : n <= issued
        /\ published' \subseteq Plans /\ ready' \subseteq Plans
    <2>1. CASE UNCHANGED <<published, ready>>
      BY <1>1, <2>1 DEF Claims, RetentionTypeOK
    <2>2. ASSUME NEW n \in Plans, Publish(n) \/ Start(n) \/ ClaimRefused(n)
          PROVE  /\ \A m \in published' \union ready' : m <= issued
                 /\ published' \subseteq Plans /\ ready' \subseteq Plans
      BY <1>1, <2>2 DEF Publish, Start, ClaimRefused, Claims, RetentionTypeOK, planVars, claimVars
    <2>3. \/ UNCHANGED <<published, ready>>
          \/ \E n \in Plans : Publish(n) \/ Start(n) \/ ClaimRefused(n)
      BY DEF Write, Remove, HoldLapses, Midnight, retentionVars, planVars, claimVars
    <2> QED BY <2>1, <2>2, <2>3
  <1>4. /\ source' \in [Objects -> 0..MaxVersions] /\ newest' \in [Objects -> Versions]
        /\ holder' \in 0..MaxPlans /\ today' \in 0..DailyQuota
        /\ UNCHANGED <<damaged, deaths>>
    <2>1. ASSUME NEW o \in Shared, Write(o)
          PROVE  source' \in [Objects -> 0..MaxVersions] /\ newest' \in [Objects -> Versions]
      <3>1. newest[o] + 1 \in Versions /\ newest[o] + 1 \in 0..MaxVersions
        BY <1>1, <2>1 DEF Write, RetentionTypeOK, Versions
      <3> QED BY <1>1, <2>1, <3>1 DEF Write, RetentionTypeOK
    <2>2. ASSUME NEW o \in Shared, Remove(o)
          PROVE  source' \in [Objects -> 0..MaxVersions] /\ newest' \in [Objects -> Versions]
      BY <1>1, <2>2 DEF Remove, RetentionTypeOK
    <2>3. \/ \E o \in Shared : Write(o) \/ Remove(o)
          \/ UNCHANGED <<source, newest>>
      BY DEF HoldLapses, Midnight, Publish, Start, ClaimRefused, retentionVars, diskVars
    <2>4. source' \in [Objects -> 0..MaxVersions] /\ newest' \in [Objects -> Versions]
      BY <1>1, <2>1, <2>2, <2>3 DEF RetentionTypeOK
    <2>5. /\ holder' \in {0, holder} /\ today' \in {0, today}
          /\ UNCHANGED <<damaged, deaths>>
      BY DEF Write, Remove, HoldLapses, Midnight, Publish, Start, ClaimRefused, retentionVars,
         diskVars, claimVars
    <2> QED BY <1>1, <2>4, <2>5 DEF RetentionTypeOK
  <1>5. RetentionTypeOK'
    BY <1>1, <1>2, <1>3, <1>4 DEF RetentionTypeOK
  <1> QED BY <1>2, <1>3, <1>5, QuietKeeps DEF RetentionInv

LEMMA ObserveStep ==
  ASSUME RetentionInv, NEW due \in SUBSET Objects, Observe(due)
  PROVE  RetentionInv'
  <1> USE RetentionAssumption DEF RetentionAssumption
  <1>1. RetentionTypeOK /\ Claims /\ Owned
    BY DEF RetentionInv, Orderly
  <1>2. UNCHANGED <<source, newest, quarantine, damaged, reclaimed, published, ready, consumed, holder,
                    fence, today, dry, action, phase, todo, deaths>>
    BY DEF Observe, diskVars, claimVars, runVars
  <1>3. /\ issued + 1 \in Plans /\ issued' = issued + 1 /\ issued \in Nat
        /\ plan' \in [Plans -> [Objects -> 0..MaxVersions]]
        /\ \A n \in Plans : n # issued + 1 => plan'[n] = plan[n]
    <2>1. issued + 1 \in Plans /\ issued' = issued + 1 /\ issued \in Nat
      BY <1>1 DEF Observe, RetentionTypeOK, Plans
    <2>2. [o \in Objects |-> IF o \in due THEN source[o] ELSE 0] \in [Objects -> 0..MaxVersions]
      BY <1>1 DEF RetentionTypeOK
    <2> QED BY <1>1, <2>1, <2>2 DEF Observe, RetentionTypeOK
  <1>4. /\ consumed \subseteq Plans /\ issued + 1 \notin consumed
        /\ \A n \in consumed : plan'[n] = plan[n]
    BY <1>1, <1>3 DEF Claims, RetentionTypeOK, Plans
  <1>5. RetentionTypeOK'
    BY <1>1, <1>2, <1>3 DEF RetentionTypeOK, Plans
  <1>6. OnlyThePlannedIsRemoved'
    BY <1>2 DEF RetentionInv, OnlyThePlannedIsRemoved
  <1>7. \A n \in Plans : todo[n] # {} => n \in consumed
    BY <1>1 DEF Claims
  <1>8. Claims'
    <2>1. \A n \in published \union ready \union consumed : n <= issued'
      BY <1>1, <1>3 DEF Claims, RetentionTypeOK, Plans
    <2>2. \A n \in Plans : todo[n] \subseteq Named(n)'
      BY <1>1, <1>4, <1>7 DEF Claims, Named
    <2> QED BY <1>1, <1>2, <2>1, <2>2 DEF Claims
  <1>9. \A o, v : (Gone(o, v)' <=> Gone(o, v)) /\ (Untouched(o, v)' <=> Untouched(o, v))
                 /\ (Fits(o, v)' <=> Fits(o, v)) /\ (Attended(o, v)' <=> Attended(o, v))
    BY <1>2 DEF Gone, Untouched, Fits, Attended
  <1>10. Owned'
    <2>1. \A n \in consumed, o \in Objects : plan'[n][o] # 0 =>
            fence[o][plan'[n][o]] = n /\ action[o][plan'[n][o]] # "none"
      <3> SUFFICES ASSUME NEW n \in consumed, NEW o \in Objects, plan'[n][o] # 0
                   PROVE  fence[o][plan'[n][o]] = n /\ action[o][plan'[n][o]] # "none"
        OBVIOUS
      <3>1. plan'[n] = plan[n]
        BY <1>4
      <3>2. plan[n][o] # 0 => fence[o][plan[n][o]] = n /\ action[o][plan[n][o]] # "none"
        BY <1>1 DEF Owned
      <3> QED BY <3>1, <3>2, Zenon
    <2>2. \A o \in Objects, v \in Versions :
            IF action[o][v] = "none" THEN quarantine[o][v] = 0 /\ ~Gone(o, v)'
            ELSE fence[o][v] \in consumed /\ plan'[fence[o][v]][o] = v
      BY <1>1, <1>4, <1>9 DEF Owned
    <2> QED BY <1>2, <2>1, <2>2 DEF Owned
  <1>11. ASSUME NEW n \in Plans PROVE Working(n)'
    <2>1. Working(n)
      BY DEF RetentionInv, Orderly
    <2>2. ASSUME NEW o \in todo[n]
          PROVE  /\ plan'[n][o] = plan[n][o]
                 /\ InHand(n, o, plan[n][o])' <=> InHand(n, o, plan[n][o])
                 /\ First(n, o)' <=> First(n, o)
                 /\ Untouched(o, plan[n][o])' <=> Untouched(o, plan[n][o])
      <3>1. plan'[n] = plan[n]
        BY <1>4, <1>7
      <3> QED BY <1>2, <1>9, <3>1 DEF InHand, First, Moved, Deleted, Untouched
    <2> QED BY <1>2, <2>1, <2>2 DEF Working
  <1>12. \A o \in Objects, v \in Versions : Fits(o, v)' /\ Attended(o, v)'
    BY <1>9 DEF RetentionInv, Orderly
  <1> QED BY <1>5, <1>6, <1>8, <1>10, <1>11, <1>12 DEF RetentionInv, Orderly

(* A run ends or dies.                                                         *)
LEMMA EndStep ==
  ASSUME RetentionInv, NEW n \in Plans, ReleasePlan(n) \/ Die(n)
  PROVE  RetentionInv'
  <1> USE RetentionAssumption DEF RetentionAssumption
  <1>1. RetentionTypeOK /\ Claims /\ Owned
    BY DEF RetentionInv, Orderly
  <1>2. UNCHANGED <<source, newest, quarantine, damaged, reclaimed, plan, issued, published, ready,
                    consumed, fence, today, dry, action, todo>>
    BY DEF ReleasePlan, Die, Goes, diskVars, planVars, claimVars
  <1>3. /\ phase' \in [Plans -> Phases] /\ phase[n] \notin {"none", "dead"}
        /\ \A m \in Plans : m # n => phase'[m] = phase[m]
        /\ phase'[n] = "dead" \/ (phase'[n] = "ended" /\ todo[n] = {})
    <2>1. ASSUME ReleasePlan(n)
          PROVE  /\ Goes(n, "ended") /\ "ended" \in Phases /\ todo[n] = {}
                 /\ phase[n] \notin {"none", "dead"}
      BY <2>1 DEF ReleasePlan, BatchDone, Phases
    <2>2. ASSUME Die(n)
          PROVE  Goes(n, "dead") /\ "dead" \in Phases /\ phase[n] \notin {"none", "dead"}
      BY <2>2 DEF Die, Phases
    <2> QED BY <1>1, <2>1, <2>2, PhaseActs
  <1>4. holder' \in 0..MaxPlans /\ deaths' \in 0..MaxDeaths
    BY <1>1 DEF ReleasePlan, Die, RetentionTypeOK, claimVars
  <1>5. RetentionTypeOK'
    BY <1>1, <1>2, <1>3, <1>4 DEF RetentionTypeOK
  <1>6. OnlyThePlannedIsRemoved'
    BY <1>2 DEF RetentionInv, OnlyThePlannedIsRemoved
  <1>7. \A o, v : (Gone(o, v)' <=> Gone(o, v)) /\ (Untouched(o, v)' <=> Untouched(o, v))
                 /\ (Fits(o, v)' <=> Fits(o, v))
    BY <1>2 DEF Gone, Untouched, Fits
  <1>8. Claims'
    BY <1>1, <1>2, <1>3 DEF Claims, Named
  <1>9. Owned'
    BY <1>1, <1>2, <1>7 DEF Owned
  <1>10. ASSUME NEW m \in Plans PROVE Working(m)'
    <2>1. CASE m = n
      BY <1>2, <1>3, <2>1 DEF Working
    <2>2. CASE m # n
      <3>1. phase'[m] = phase[m]
        BY <1>3, <2>2
      <3>2. \A o \in todo[m] : (InHand(m, o, plan[m][o])' <=> InHand(m, o, plan[m][o]))
                              /\ (First(m, o)' <=> First(m, o))
        BY <1>2, <1>7, <3>1 DEF InHand, First, Moved, Deleted
      <3>3. Working(m)
        BY DEF RetentionInv, Orderly
      <3> QED BY <1>2, <1>7, <3>1, <3>2, <3>3 DEF Working
    <2> QED BY <2>1, <2>2
  <1>11. ASSUME NEW o \in Objects, NEW v \in Versions PROVE Fits(o, v)' /\ Attended(o, v)'
    <2>1. Fits(o, v) /\ Attended(o, v)
      BY DEF RetentionInv, Orderly
    <2>2. ASSUME action[o][v] \in Open PROVE fence[o][v] \in Plans
      BY <1>1, <2>2 DEF Owned, RetentionTypeOK, Open
    <2>3. Attended(o, v)'
      BY <1>2, <1>3, <2>1, <2>2 DEF Attended
    <2> QED BY <1>7, <2>1, <2>3
  <1> QED BY <1>5, <1>6, <1>8, <1>9, <1>10, <1>11 DEF RetentionInv, Orderly

(* A claim prepares only what nobody has prepared before.                      *)
LEMMA ClaimStep ==
  ASSUME RetentionInv, NEW n \in Plans, NEW rehearsal \in BOOLEAN, ClaimPlan(n, rehearsal)
  PROVE  RetentionInv'
  <1> USE RetentionAssumption DEF RetentionAssumption
  <1>1. RetentionTypeOK /\ Claims /\ Owned
    BY DEF RetentionInv, Orderly
  <1>2. UNCHANGED <<source, newest, quarantine, damaged, reclaimed, plan, issued, published, deaths>>
    BY DEF ClaimPlan, diskVars, planVars
  <1>3. /\ n \notin consumed /\ n \in ready /\ consumed' = consumed \union {n}
        /\ ready' = ready \ {n} /\ holder' = n /\ phase[n] = "none" /\ todo[n] = {}
    BY <1>1 DEF ClaimPlan, Claimable, Claims
  <1>4. /\ phase' \in [Plans -> Phases] /\ phase'[n] = "idle"
        /\ todo' \in [Plans -> SUBSET Objects] /\ todo'[n] = Named(n)
        /\ dry' \in [Plans -> BOOLEAN]
        /\ \A m \in Plans : m # n => /\ phase'[m] = phase[m] /\ todo'[m] = todo[m]
                                     /\ dry'[m] = dry[m]
    <2>1. Named(n) \subseteq Objects /\ "idle" \in Phases
      BY DEF Named, Phases
    <2> QED BY <1>1, <2>1 DEF ClaimPlan, RetentionTypeOK
  <1>5. /\ action' \in [Objects -> [Versions -> {"none"} \union Open \union Final]]
        /\ fence' \in [Objects -> [Versions -> 0..MaxPlans]]
    <2>1. \A o \in Objects, v \in Versions :
            /\ action[o][v] \in {"none"} \union Open \union Final
            /\ fence[o][v] \in 0..MaxPlans
      BY <1>1 DEF RetentionTypeOK
    <2>2. "prepared" \in Open /\ n \in 0..MaxPlans
      BY DEF Open, Plans
    <2> QED BY <2>1, <2>2 DEF ClaimPlan
  <1>6. \A o \in Objects, v \in Versions :
          /\ Prepares(n, o, v) => action'[o][v] = "prepared" /\ fence'[o][v] = n
          /\ ~Prepares(n, o, v) => action'[o][v] = action[o][v] /\ fence'[o][v] = fence[o][v]
    BY DEF ClaimPlan
  <1>7. today' \in 0..DailyQuota
    <2>1. Cardinality(Named(n)) \in Nat
      <3>1. IsFiniteSet(Named(n))
        BY FS_Subset DEF Named
      <3> QED BY <3>1, FS_CardinalityType
    <2>2. today + Cardinality(Named(n)) <= DailyQuota
      BY DEF ClaimPlan, Claimable, WithinQuota
    <2>3. today \in 0..DailyQuota
      BY <1>1 DEF RetentionTypeOK
    <2> QED BY <2>1, <2>2, <2>3 DEF ClaimPlan
  <1>8. RetentionTypeOK'
    <2>1. holder' \in 0..MaxPlans /\ consumed' \subseteq Plans /\ ready' \subseteq Plans
      BY <1>1, <1>3 DEF RetentionTypeOK, Plans
    <2> QED BY <1>1, <1>2, <1>4, <1>5, <1>7, <2>1 DEF RetentionTypeOK
  <1>9. OnlyThePlannedIsRemoved'
    BY <1>2 DEF RetentionInv, OnlyThePlannedIsRemoved
  <1>10. \A o, v : Gone(o, v)' <=> Gone(o, v)
    BY <1>2 DEF Gone
  <1>11. \A o \in Objects : plan[n][o] \in 0..MaxVersions
    BY <1>1 DEF RetentionTypeOK
  (* What it prepares is new, and nobody has touched it.                       *)
  <1>12. ASSUME NEW o \in Objects, NEW v \in Versions, Prepares(n, o, v)
         PROVE  action[o][v] = "none" /\ Untouched(o, v)'
    <2>1. action[o][v] = "none"
      BY <1>12 DEF ClaimPlan, Claimable, Prepares
    <2>2. quarantine[o][v] = 0 /\ ~Gone(o, v)
      BY <1>1, <2>1 DEF Owned
    <2> QED BY <1>2, <1>6, <1>10, <1>12, <2>1, <2>2 DEF Untouched
  <1>13. ASSUME NEW m \in consumed, NEW o \in Objects, plan[m][o] # 0
         PROVE  /\ plan[m][o] \in Versions /\ ~Prepares(n, o, plan[m][o])
                /\ action[o][plan[m][o]] # "none"
    <2>1. action[o][plan[m][o]] # "none"
      BY <1>1, <1>13 DEF Owned
    <2>2. plan[m][o] \in Versions
      BY <1>1, <1>13 DEF RetentionTypeOK, Versions
    <2> QED BY <1>12, <2>1, <2>2
  <1>14. Claims'
    <2>1. \A m \in Plans : Named(m)' = Named(m)
      BY <1>2 DEF Named
    <2>2. \A m \in Plans : m \notin consumed' \/ phase'[m] = "ended" => todo'[m] = {}
      BY <1>1, <1>3, <1>4 DEF Claims
    <2>3. \A m \in Plans : phase'[m] # "none" => m \in consumed'
      BY <1>1, <1>3, <1>4 DEF Claims
    <2>4. \A m \in Plans : todo'[m] \subseteq Named(m)
      BY <1>1, <1>4 DEF Claims
    <2>5. \A m \in published' \union ready' \union consumed' : m <= issued'
      BY <1>1, <1>2, <1>3 DEF Claims
    <2> QED BY <2>1, <2>2, <2>3, <2>4, <2>5 DEF Claims
  <1>15. Owned'
    <2>1. ASSUME NEW m \in consumed', NEW o \in Objects, plan[m][o] # 0
          PROVE  fence'[o][plan[m][o]] = m /\ action'[o][plan[m][o]] # "none"
      <3>1. CASE m = n
        <4>1. plan[n][o] # 0 /\ plan[n][o] \in 0..MaxVersions
          BY <1>11, <2>1, <3>1
        <4>2. plan[n][o] \in Versions /\ Prepares(n, o, plan[n][o])
          BY <4>1 DEF Versions, Prepares, Named
        <4>3. fence'[o][plan[n][o]] = n /\ action'[o][plan[n][o]] = "prepared"
          BY <1>6, <4>2
        <4> QED BY <3>1, <4>3
      <3>2. CASE m \in consumed
        <4>1. /\ plan[m][o] \in Versions /\ ~Prepares(n, o, plan[m][o])
              /\ action[o][plan[m][o]] # "none"
          BY <1>13, <2>1, <3>2
        <4>2. fence[o][plan[m][o]] = m
          BY <1>1, <2>1, <3>2 DEF Owned
        <4>3. /\ action'[o][plan[m][o]] = action[o][plan[m][o]]
              /\ fence'[o][plan[m][o]] = fence[o][plan[m][o]]
          BY <1>6, <4>1
        <4> QED BY <4>1, <4>2, <4>3
      <3> QED BY <1>3, <2>1, <3>1, <3>2
    <2>2. ASSUME NEW o \in Objects, NEW v \in Versions
          PROVE  IF action'[o][v] = "none" THEN quarantine[o][v] = 0 /\ ~Gone(o, v)'
                 ELSE fence'[o][v] \in consumed' /\ plan[fence'[o][v]][o] = v
      <3>1. CASE Prepares(n, o, v)
        <4>1. action'[o][v] = "prepared" /\ fence'[o][v] = n /\ plan[n][o] = v
          BY <1>6, <3>1 DEF Prepares
        <4> QED BY <1>3, <4>1
      <3>2. CASE ~Prepares(n, o, v)
        <4>1. action'[o][v] = action[o][v] /\ fence'[o][v] = fence[o][v]
          BY <1>6, <3>2
        <4> QED BY <1>1, <1>3, <1>10, <4>1 DEF Owned
      <3> QED BY <3>1, <3>2
    <2> QED BY <1>2, <2>1, <2>2 DEF Owned
  <1>16. ASSUME NEW m \in Plans PROVE Working(m)'
    <2> SUFFICES ASSUME NEW o \in todo'[m], phase'[m] # "dead"
                 PROVE  IF First(m, o)' THEN InHand(m, o, plan[m][o])'
                        ELSE Untouched(o, plan[m][o])'
      BY <1>2 DEF Working
    <2> DEFINE v == plan[m][o]
    <2>1. CASE m = n
      <3>1. o \in Objects /\ v \in Versions /\ Prepares(n, o, v)
        BY <1>4, <1>11, <2>1 DEF Named, Prepares, Versions
      <3>2. PICK w \in Versions : w = v
        BY <3>1
      <3>3. Untouched(o, w)'
        BY <1>12, <3>1, <3>2
      <3>4. InHand(n, o, w)'
        BY <1>4, <3>3 DEF InHand
      <3>5. plan'[m][o] = w
        BY <1>2, <3>2
      <3> QED BY <2>1, <3>3, <3>4, <3>5
    <2>2. CASE m # n
      <3>1. o \in todo[m] /\ phase'[m] = phase[m] /\ (First(m, o)' <=> First(m, o))
        BY <1>4, <2>2 DEF First
      <3>2. m \in consumed /\ o \in Objects /\ v # 0
        BY <1>1, <3>1 DEF Claims, Named
      <3>3. v \in Versions /\ ~Prepares(n, o, v)
        BY <1>13, <3>2
      <3>4. IF First(m, o) THEN InHand(m, o, v) ELSE Untouched(o, v)
        BY <3>1 DEF RetentionInv, Orderly, Working
      <3>5. action'[o][v] = action[o][v]
        BY <1>6, <3>2, <3>3
      <3> HIDE DEF v
      <3>6. (InHand(m, o, v) => InHand(m, o, v)') /\ (Untouched(o, v) => Untouched(o, v)')
        BY <1>2, <1>10, <3>1, <3>5 DEF InHand, Untouched, Moved, Deleted, v
      <3> QED BY <1>2, <3>1, <3>4, <3>6 DEF v
    <2> QED BY <2>1, <2>2
  <1>17. ASSUME NEW o \in Objects, NEW v \in Versions PROVE Fits(o, v)' /\ Attended(o, v)'
    <2>1. CASE Prepares(n, o, v)
      <3>1. Untouched(o, v)' /\ fence'[o][v] = n
        BY <1>6, <1>12, <2>1
      <3>2. phase'[n] = "idle" /\ o \in todo'[n]
        BY <1>4, <2>1 DEF Prepares
      <3> QED BY <3>1, <3>2 DEF Fits, Attended, Untouched
    <2>2. CASE ~Prepares(n, o, v)
      <3>1. action'[o][v] = action[o][v] /\ fence'[o][v] = fence[o][v]
        BY <1>6, <2>2
      <3>2. Fits(o, v) /\ Attended(o, v)
        BY DEF RetentionInv, Orderly
      <3>3. ASSUME action[o][v] # "none"
            PROVE  fence[o][v] \in consumed /\ fence[o][v] \in Plans /\ fence[o][v] # n
        BY <1>1, <1>3, <3>3 DEF Owned, RetentionTypeOK
      <3>4. Fits(o, v)'
        BY <1>2, <1>4, <1>10, <3>1, <3>2, <3>3 DEF Fits
      <3>5. Attended(o, v)'
        BY <1>4, <3>1, <3>2, <3>3 DEF Attended, Open
      <3> QED BY <3>4, <3>5
    <2> QED BY <2>1, <2>2
  <1> QED BY <1>8, <1>9, <1>14, <1>15, <1>16, <1>17 DEF RetentionInv, Orderly

LEMMA StepInv == RetentionInv /\ [RetentionNext]_retentionVars => RetentionInv'
  <1> SUFFICES ASSUME RetentionInv, [RetentionNext]_retentionVars PROVE RetentionInv'
    OBVIOUS
  <1>1. ASSUME NEW n \in Plans, NEW o \in Objects, ReclaimStep(n, o) PROVE RetentionInv'
    <2>1. Concerned(n, o)
      BY <1>1, DiskStep, VerdictStep DEF ReclaimStep
    <2> QED BY <2>1, OnlyKeeps DEF Concerned, RetentionInv
  <1>2. ASSUME NEW n \in Plans, ReleasePlan(n) \/ Die(n) PROVE RetentionInv'
    BY <1>2, EndStep
  <1>3. ASSUME NEW n \in Plans, NEW rehearsal \in BOOLEAN, ClaimPlan(n, rehearsal) PROVE RetentionInv'
    BY <1>3, ClaimStep
  <1>4. ASSUME NEW due \in SUBSET Objects, Observe(due) PROVE RetentionInv'
    BY <1>4, ObserveStep
  <1>5. CASE \/ \E o \in Shared : Write(o) \/ Remove(o)
             \/ HoldLapses \/ Midnight
             \/ \E n \in Plans : Publish(n) \/ Start(n) \/ ClaimRefused(n)
             \/ UNCHANGED retentionVars
    BY <1>5, QuietStep
  <1> QED BY <1>1, <1>2, <1>3, <1>4, <1>5 DEF RetentionNext

(* A plan owns the actions it prepared and its run knows what it did to the       *)
(* object in hand (claim_retention_plan, _apply_action): the invariant the      *)
(* properties rest on.                                                         *)
THEOREM RetentionIsOrderly == RetentionSpec => []RetentionInv
  <1>1. RetentionInit => RetentionInv
    BY InitOrderly
  <1>2. RetentionInv /\ [RetentionNext]_retentionVars => RetentionInv'
    BY StepInv
  <1> QED BY <1>1, <1>2, PTL DEF RetentionSpec

-----------------------------------------------------------------------------
(* The properties of Retention *)

(* The types hold, and with them the daily quota: however many plans a day       *)
(* brings, claim_retention_plan prepares no more than max_bytes_per_day.        *)
THEOREM RetentionTypeCorrect == RetentionSpec => []RetentionTypeOK
  <1>1. RetentionInv => RetentionTypeOK
    BY DEF RetentionInv
  <1> QED BY <1>1, RetentionIsOrderly, PTL

(* run_reclaimer never removes a version other than the one its plan names: the   *)
(* hash is computed again on the object it moved away, where nobody writes.      *)
THEOREM NothingElseRemoved == RetentionSpec => []OnlyThePlannedIsRemoved
  <1>1. RetentionInv => OnlyThePlannedIsRemoved
    BY DEF RetentionInv
  <1> QED BY <1>1, RetentionIsOrderly, PTL

(* What retention_actions says of an object is what _apply_action did to it,      *)
(* whichever of its steps failed or was its last.                              *)
THEOREM VerdictsAreTrue == RetentionSpec => []VerdictsMatchTheDisk
  <1>1. RetentionInv => VerdictsMatchTheDisk
    BY DEF RetentionInv, Orderly, Fits, Gone, VerdictsMatchTheDisk
  <1> QED BY <1>1, RetentionIsOrderly, PTL

(* An action prepared or applied belongs to a run that has it still to settle, or  *)
(* to a dead one: only a death can stop retention for good.                     *)
THEOREM OpenActionsAreAttended == RetentionSpec => []NothingUnattended
  <1>1. RetentionInv => NothingUnattended
    BY DEF RetentionInv, Orderly, Attended, NothingUnattended
  <1> QED BY <1>1, RetentionIsOrderly, PTL

(* No step rewrites a verdict: _apply_action and the abort of the batch ask for    *)
(* changes transition_retention_action refuses, and no claim takes a pair again. *)
THEOREM VerdictsAreFinal == RetentionSpec => ActionVerdictsFinal
  <1>1. RetentionInv /\ [RetentionNext]_retentionVars =>
          [\A o \in Objects, v \in Versions :
             action[o][v] \in Final => action'[o][v] = action[o][v]]_retentionVars
    <2> SUFFICES ASSUME RetentionInv, RetentionNext, NEW o \in Objects, NEW v \in Versions,
                        action[o][v] \in Final
                 PROVE  action'[o][v] = action[o][v]
      BY DEF RetentionNext
    <2> USE RetentionAssumption DEF RetentionAssumption
    <2>1. RetentionTypeOK
      BY DEF RetentionInv
    <2>2. ASSUME NEW n \in Plans, NEW p \in Objects, NEW to \in Open \union Final,
                 plan[n][p] \in Versions, Transition(n, p, to)
          PROVE  action'[o][v] = action[o][v]
      <3>1. CASE p = o /\ plan[n][p] = v
        <4>1. ~Allowed(action[p][plan[n][p]], to)
          BY <3>1 DEF Allowed, Final
        <4> QED BY <2>2, <4>1 DEF Transition
      <3>2. CASE p # o \/ plan[n][p] # v
        BY <2>1, <2>2, <3>2, TransitionActs
      <3> QED BY <3>1, <3>2
    <2>3. ASSUME NEW n \in Plans, NEW p \in Objects, ReclaimStep(n, p)
          PROVE  action'[o][v] = action[o][v]
      <3>1. plan[n][p] \in Versions
        <4>1. p \in todo[n] /\ First(n, p) /\ phase[n] # "dead"
          BY <2>3, DiskStep, VerdictStep DEF ReclaimStep, Concerned
        <4> QED BY <4>1, Here
      <3>2. \/ UNCHANGED action
            \/ \E to \in Open \union Final : Transition(n, p, to)
        <4>1. Verdict(n, p) \in Final
          BY DEF Verdict, Final
        <4>2. "applied" \in Open /\ "verified" \in Final /\ "held" \in Final
          BY DEF Open, Final
        <4> QED
          BY <2>3, <4>1, <4>2
             DEF ReclaimStep, Preflight, Restore, DryRun, Move, RecordApplied, Fail, CheckMoved,
                 Unlink, UnlinkPart, Finish, LookBack, RecordFailure, Abort
      <3> QED BY <2>2, <3>1, <3>2
    <2>4. ASSUME NEW n \in Plans, NEW rehearsal \in BOOLEAN, ClaimPlan(n, rehearsal)
          PROVE  action'[o][v] = action[o][v]
      <3>1. ~Prepares(n, o, v)
        BY <2>4 DEF ClaimPlan, Claimable, Prepares, Final
      <3> QED BY <2>4, <3>1 DEF ClaimPlan
    <2>5. CASE \/ \E p \in Shared : Write(p) \/ Remove(p)
               \/ HoldLapses \/ Midnight
               \/ \E due \in SUBSET Objects : Observe(due)
               \/ \E n \in Plans : Publish(n) \/ Start(n) \/ ClaimRefused(n) \/ ReleasePlan(n) \/ Die(n)
      BY <2>5 DEF Write, Remove, HoldLapses, Midnight, Observe, Publish, Start, ClaimRefused,
                  ReleasePlan, Die
    <2> QED BY <2>3, <2>4, <2>5 DEF RetentionNext
  <1> QED BY <1>1, RetentionIsOrderly, PTL DEF RetentionSpec, ActionVerdictsFinal

=============================================================================
