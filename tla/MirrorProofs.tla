---------------------------- MODULE MirrorProofs ----------------------------
(***************************************************************************)
(* Proofs of what the run of MCMirrors checks on a small instance: of        *)
(* MemoryDelivery for any texts, writers and limits, and of Attention for     *)
(* any faults and limits.                                                    *)
(***************************************************************************)
EXTENDS MemoryDelivery, Attention, TLAPS, FiniteSetTheorems

(* The watcher reads a file that is there; a text not admitted has no item.       *)
Noticed ==
  /\ unseen => file # NoText
  /\ \A c \in Texts : rowid[c] = 0 => status[c] = "none" /\ attempt[c] = 0

(* A text whose attempts are used up is never due again: nothing but a claim      *)
(* gives a lease, and a verdict takes it.                                      *)
Charged(c) ==
  attempt[c] <= MaxAttempts \/ (status[c] \notin Waiting \union {"in_flight"} /\ lease[c] = "none")

(* What a writer knows of its text, from where it is.                          *)
Informed(w) ==
  /\ phase[w] # "idle" => rowid[item[w]] # 0
  /\ phase[w] \in {"claimed", "ready", "posting", "doubting", "deciding"} => tried[w] <= MaxAttempts
  /\ phase[w] = "failing" => cause[w] # "none"
  /\ phase[w] = "failing" /\ cause[w] \in {"429", "connection"} => tried[w] <= MaxAttempts
  /\ phase[w] \in {"completing", "committing"} => item[w] \in proven

MemoryInv ==
  /\ MemoryTypeOK
  /\ Noticed
  /\ \A c \in Texts : Charged(c)
  /\ \A w \in Writers : Informed(w)
  /\ DeliveredIsProven

LEMMA InitMemory == MemoryInit => MemoryInv
  <1> SUFFICES ASSUME MemoryInit PROVE MemoryInv
    OBVIOUS
  <1> USE MemoryAssumption DEF MemoryInit, MemoryAssumption
  <1>1. MemoryTypeOK
    <2>1. /\ rowid \in [Texts -> 0..lastRow] /\ attempt \in [Texts -> 0..(MaxAttempts + 1)]
          /\ watched \in [Texts -> 0..(MaxObservations - 1)] /\ blind \in [Texts -> Nat]
          /\ tried \in [Writers -> 0..(MaxAttempts + 1)] /\ lastRow \in Nat
      OBVIOUS
    <2>2. /\ journal \in [Texts -> [Tries -> Rows]] /\ phase \in [Writers -> Phases]
          /\ cause \in [Writers -> Causes]
      BY DEF Rows, Phases, Causes
    <2>3. \A c \in Texts : attempt[c] <= MaxAttempts
      OBVIOUS
    <2> QED BY <2>1, <2>2, <2>3 DEF MemoryTypeOK
  <1>2. Noticed /\ DeliveredIsProven
    BY DEF Noticed, DeliveredIsProven
  <1>3. \A c \in Texts : Charged(c)
    BY DEF Charged
  <1>4. \A w \in Writers : Informed(w)
    BY DEF Informed
  <1> QED BY <1>1, <1>2, <1>3, <1>4 DEF MemoryInv

-----------------------------------------------------------------------------
(* The invariant by the kind of step that moves its parts *)

NoteOK == /\ file \in Texts \union {NoText} /\ unseen \in BOOLEAN
          /\ rowid \in [Texts -> 0..lastRow] /\ lastRow \in Nat
          /\ unseen => file # NoText

ItemOK == /\ status \in [Texts -> {"none"} \union Waiting \union UnderWay \union Settled]
          /\ attempt \in [Texts -> 0..(MaxAttempts + 1)]
          /\ event \in [Texts -> {"none", "pending", "consumed", "quarantine"}]
          /\ lease \in [Texts -> {"none", "held", "lapsed"}]
          /\ \A c \in Texts : Charged(c) /\ (rowid[c] = 0 => status[c] = "none" /\ attempt[c] = 0)

TaleOK == /\ journal \in [Texts -> [Tries -> Rows]]
          /\ watched \in [Texts -> 0..(MaxObservations - 1)]
          /\ remote \in Texts \union {NoText} /\ late \subseteq Texts
          /\ proven \subseteq Texts /\ blind \in [Texts -> Nat]
          /\ mishaps \in 0..MaxMishaps

WorkOK == /\ phase \in [Writers -> Phases] /\ item \in [Writers -> Texts \union {NoText}]
          /\ tried \in [Writers -> 0..(MaxAttempts + 1)] /\ cause \in [Writers -> Causes]
          /\ \A w \in Writers : (phase[w] # "idle" => item[w] \in Texts) /\ Informed(w)

(* Texts that have a row keep it.                                              *)
Growing == proven \subseteq proven' /\ \A c \in Texts : rowid[c] # 0 => rowid'[c] # 0

LEMMA Parts ==
  /\ MemoryInv => NoteOK /\ ItemOK /\ TaleOK /\ WorkOK /\ DeliveredIsProven
  /\ (NoteOK /\ ItemOK /\ TaleOK /\ WorkOK /\ DeliveredIsProven)' => MemoryInv'
  <1>1. ASSUME ItemOK', NEW c \in Texts
        PROVE  status'[c] \in Waiting \union {"in_flight"} => attempt'[c] <= MaxAttempts
    BY <1>1 DEF ItemOK, Charged
  <1> QED
    BY <1>1 DEF MemoryInv, MemoryTypeOK, Noticed, NoteOK, ItemOK, TaleOK, WorkOK

(* A writer moves on with its text, notes a failure, takes a text or rests.      *)
LEMMA GoesOn ==
  ASSUME WorkOK, Growing, NEW w \in Writers, phase[w] # "idle",
         NEW p \in Phases \ {"idle", "failing"}, Goes(w, p),
         p \in {"claimed", "ready", "posting", "doubting", "deciding"} => tried[w] <= MaxAttempts,
         p \in {"completing", "committing"} => item[w] \in proven'
  PROVE  WorkOK'
  BY DEF WorkOK, Growing, Informed, Goes

LEMMA FailsNow ==
  ASSUME WorkOK, Growing, NEW w \in Writers, phase[w] # "idle",
         NEW why \in Causes \ {"none"}, Fails(w, why),
         why \in {"429", "connection"} => tried[w] <= MaxAttempts
  PROVE  WorkOK'
  BY DEF WorkOK, Growing, Informed, Fails, Phases

LEMMA TakesUp ==
  ASSUME WorkOK, Growing, NEW w \in Writers, NEW c \in Texts, rowid[c] # 0,
         attempt[c] \in 0..(MaxAttempts + 1),
         NEW p \in {"claimed", "reading"}, Takes(w, c, p), UNCHANGED cause,
         p = "claimed" => attempt[c] <= MaxAttempts
  PROVE  WorkOK'
  BY DEF WorkOK, Growing, Informed, Takes, Phases

LEMMA NowRests ==
  ASSUME WorkOK, Growing, NEW w \in Writers, Rests(w)
  PROVE  WorkOK'
  BY MemoryAssumption DEF WorkOK, Growing, Informed, Rests, Phases, Causes, MemoryAssumption

LEMMA StaysPut ==
  ASSUME WorkOK, Growing, UNCHANGED workVars
  PROVE  WorkOK'
  BY DEF WorkOK, Growing, Informed, workVars

LEMMA ItemsStay ==
  ASSUME ItemOK, UNCHANGED <<rowid, itemVars>>
  PROVE  ItemOK'
  BY DEF ItemOK, Charged, itemVars

LEMMA NoteStays ==
  ASSUME NoteOK, UNCHANGED noteVars
  PROVE  NoteOK'
  BY DEF NoteOK, noteVars

LEMMA StillProven ==
  ASSUME DeliveredIsProven, proven \subseteq proven', UNCHANGED <<status, event>>
  PROVE  DeliveredIsProven'
  BY DEF DeliveredIsProven

-----------------------------------------------------------------------------
(* The steps *)

LEMMA OutsideStep ==
  ASSUME MemoryInv,
         \/ \E c \in Texts \union {NoText} : Edit(c)
         \/ Notice \/ ImportLegacy \/ Overlook
         \/ \E overran \in SUBSET Texts : GatewaySweep(overran)
         \/ \E c \in Texts : Land(c) \/ Lapse(c)
         \/ UNCHANGED memoryVars
  PROVE  MemoryInv'
  <1> USE MemoryAssumption DEF MemoryAssumption
  <1>1. NoteOK /\ ItemOK /\ TaleOK /\ WorkOK /\ DeliveredIsProven
    BY Parts
  <1>2. UNCHANGED workVars /\ UNCHANGED <<journal, watched, proven, blind, attempt>>
    BY DEF Edit, Notice, ImportLegacy, Overlook, GatewaySweep, Land, Lapse, memoryVars, taleVars,
           itemVars, workVars
  <1>3. CASE UNCHANGED noteVars /\ UNCHANGED itemVars
    <2>1. TaleOK'
      BY <1>1, <1>2, <1>3 DEF TaleOK, Edit, Notice, ImportLegacy, Overlook, GatewaySweep, Land,
                              Lapse, memoryVars, remoteVars, noteVars, itemVars
    <2> QED
      BY <1>1, <1>2, <1>3, <2>1, StaysPut, ItemsStay, NoteStays, StillProven, Parts
         DEF Growing, noteVars, itemVars
  <1>4. ASSUME NEW c \in Texts \union {NoText}, Edit(c) \/ Overlook PROVE MemoryInv'
    <2>1. NoteOK' /\ UNCHANGED <<rowid, itemVars>>
      BY <1>1, <1>4 DEF Edit, Overlook, NoteOK
    <2>2. TaleOK'
      BY <1>1, <1>2, <1>4 DEF Edit, Overlook, TaleOK, remoteVars
    <2> QED
      BY <1>1, <1>2, <2>1, <2>2, StaysPut, ItemsStay, StillProven, Parts DEF Growing, itemVars
  <1>5. ASSUME Notice \/ ImportLegacy PROVE MemoryInv'
    <2>1. UNCHANGED <<file, attempt, lease, remoteVars, taleVars, mishaps>> /\ file \in Texts
      BY <1>1, <1>5 DEF Notice, ImportLegacy, NoteOK
    <2>2. TaleOK'
      BY <1>1, <1>2, <2>1 DEF TaleOK, remoteVars
    <2>3. /\ \E s \in {"pending", "quarantine"} :
               status' \in {status, [status EXCEPT ![file] = s]}
               /\ (s = "pending" /\ status' # status => Admits(file))
          /\ \E v \in {"pending", "quarantine"} : event' \in {event, [event EXCEPT ![file] = v]}
          /\ unseen' = FALSE
      BY <1>5 DEF Notice, ImportLegacy
    <2>4. /\ Admits(file) => rowid' = [rowid EXCEPT ![file] = lastRow + 1] /\ lastRow' = lastRow + 1
          /\ ~Admits(file) => UNCHANGED <<rowid, lastRow>>
      BY <1>5 DEF Notice, ImportLegacy
    <2>5. NoteOK'
      <3>1. CASE Admits(file)
        <4>1. \A n \in 0..lastRow : n \in 0..(lastRow + 1)
          BY <1>1 DEF NoteOK
        <4>2. lastRow + 1 \in 0..(lastRow + 1) /\ lastRow + 1 \in Nat
          BY <1>1 DEF NoteOK
        <4>3. rowid' \in [Texts -> 0..(lastRow + 1)]
          BY <1>1, <2>1, <2>4, <3>1, <4>1, <4>2 DEF NoteOK
        <4> QED BY <1>1, <2>1, <2>3, <2>4, <3>1, <4>2, <4>3 DEF NoteOK
      <3>2. CASE ~Admits(file)
        BY <1>1, <2>1, <2>3, <2>4, <3>2 DEF NoteOK
      <3> QED BY <3>1, <3>2
    <2>6. \A c \in Texts : rowid[c] \in Nat /\ (rowid[c] # 0 => rowid'[c] # 0)
                           /\ (rowid'[c] = 0 => c # file /\ rowid[c] = 0)
      BY <1>1, <2>1, <2>4 DEF NoteOK, Admits
    <2>7. ItemOK'
      <3>1. Admits(file) => attempt[file] <= MaxAttempts
        BY <1>1, <2>1 DEF ItemOK, Admits
      <3>2. /\ status' \in [Texts -> {"none"} \union Waiting \union UnderWay \union Settled]
            /\ event' \in [Texts -> {"none", "pending", "consumed", "quarantine"}]
        BY <1>1, <2>3 DEF ItemOK, Waiting, Settled
      <3>3. ASSUME NEW c \in Texts
            PROVE  Charged(c)' /\ (rowid'[c] = 0 => status'[c] = "none" /\ attempt'[c] = 0)
        <4>1. \/ status'[c] = status[c] \/ status'[c] = "quarantine"
              \/ attempt[c] <= MaxAttempts
          BY <1>1, <2>1, <2>3, <3>1 DEF ItemOK
        <4>2. Charged(c)'
          BY <1>1, <2>1, <4>1 DEF ItemOK, Charged, Waiting
        <4>3. rowid'[c] = 0 => status'[c] = status[c]
          BY <1>1, <2>3, <2>6 DEF ItemOK
        <4> QED BY <1>1, <2>1, <2>6, <4>2, <4>3 DEF ItemOK
      <3> QED BY <1>1, <2>1, <3>2, <3>3 DEF ItemOK
    <2>8. DeliveredIsProven'
      BY <1>1, <1>2, <2>3 DEF DeliveredIsProven, ItemOK
    <2>9. WorkOK'
      BY <1>1, <1>2, <2>6, StaysPut DEF Growing
    <2> QED BY <2>2, <2>5, <2>7, <2>8, <2>9, Parts
  <1>6. ASSUME NEW overran \in SUBSET Texts, GatewaySweep(overran) PROVE MemoryInv'
    <2>1. UNCHANGED <<noteVars, attempt, event, journal, watched, remoteVars, taleVars, mishaps>>
      BY <1>6 DEF GatewaySweep
    <2>2. TaleOK'
      BY <1>1, <2>1 DEF TaleOK, remoteVars, taleVars
    <2>3. \A c \in Texts : /\ status'[c] = status[c] \/ status'[c] \in {"dead_letter", "retry_wait"}
                           /\ status'[c] = "retry_wait" /\ status[c] # "retry_wait"
                                => status[c] = "in_flight"
                           /\ status'[c] # status[c] => status[c] # "none"
                           /\ lease'[c] \in {lease[c], "none"}
      BY <1>1, <1>6 DEF GatewaySweep, GatewayReclaims, Waiting, ItemOK
    <2>4. /\ status' \in [Texts -> {"none"} \union Waiting \union UnderWay \union Settled]
          /\ lease' \in [Texts -> {"none", "held", "lapsed"}]
      BY <1>1, <1>6 DEF GatewaySweep, ItemOK, Waiting, Settled
    <2>5. ASSUME NEW c \in Texts
          PROVE  Charged(c)' /\ (rowid'[c] = 0 => status'[c] = "none" /\ attempt'[c] = 0)
      BY <1>1, <1>2, <2>1, <2>3, <2>4 DEF ItemOK, Charged, Waiting, noteVars
    <2>6. ItemOK'
      BY <1>1, <2>1, <2>4, <2>5 DEF ItemOK
    <2>7. DeliveredIsProven'
      BY <1>1, <1>2, <2>1, <2>3 DEF DeliveredIsProven
    <2> QED
      BY <1>1, <1>2, <2>1, <2>2, <2>6, <2>7, StaysPut, NoteStays, Parts DEF Growing, noteVars
  <1>7. ASSUME NEW c \in Texts, Lapse(c) PROVE MemoryInv'
    <2>1. /\ UNCHANGED <<noteVars, status, attempt, event, journal, watched, remoteVars, taleVars>>
          /\ lease[c] = "held" /\ lease' = [lease EXCEPT ![c] = "lapsed"]
          /\ mishaps' \in {mishaps, mishaps + 1} /\ (mishaps' = mishaps \/ mishaps < MaxMishaps)
      BY <1>7 DEF Lapse
    <2>2. TaleOK'
      BY <1>1, <2>1 DEF TaleOK, remoteVars, taleVars
    <2>3. ItemOK'
      BY <1>1, <2>1 DEF ItemOK, Charged, noteVars
    <2> QED
      BY <1>1, <1>2, <2>1, <2>2, <2>3, StaysPut, NoteStays, StillProven, Parts DEF Growing, noteVars
  <1>8. ASSUME NEW c \in Texts, Land(c) PROVE UNCHANGED noteVars /\ UNCHANGED itemVars
    BY <1>8 DEF Land
  <1>9. ASSUME UNCHANGED memoryVars PROVE UNCHANGED noteVars /\ UNCHANGED itemVars
    BY <1>9 DEF memoryVars, noteVars, itemVars
  <1> QED BY <1>3, <1>4, <1>5, <1>6, <1>7, <1>8, <1>9

(* Steps of a writer leave the note alone.                                     *)
LEMMA ClaimStep ==
  ASSUME MemoryInv, NEW w \in Writers, NEW c \in Texts, Claim(w, c)
  PROVE  MemoryInv'
  <1>1. NoteOK /\ ItemOK /\ TaleOK /\ WorkOK /\ DeliveredIsProven
    BY Parts
  <1>2. UNCHANGED <<noteVars, attempt, event, journal, watched, remoteVars, taleVars, mishaps>>
    BY DEF Claim
  <1>3. Growing
    BY <1>2 DEF Growing, noteVars, taleVars
  <1>4. TaleOK'
    BY <1>1, <1>2 DEF TaleOK, remoteVars, taleVars
  <1>5. rowid[c] # 0 /\ attempt[c] <= MaxAttempts
    BY <1>1 DEF Claim, Reclaimed, ItemOK, Charged, Waiting, UnderWay
  <1>6. WorkOK'
    <2>1. attempt[c] \in 0..(MaxAttempts + 1) /\ Takes(w, c, "claimed") /\ UNCHANGED cause
      BY <1>1 DEF Claim, ItemOK
    <2> QED BY <1>1, <1>3, <1>5, <2>1, TakesUp
  <1>7. ItemOK'
    <2>1. ASSUME NEW d \in Texts
          PROVE  /\ status'[d] \in {status[d], "in_flight", "retry_wait"}
                 /\ lease'[d] \in {lease[d], "held", "none"}
                 /\ d # c => lease'[d] # "held" \/ lease[d] = "held"
                 /\ d # c /\ status'[d] # status[d] => lease[d] = "lapsed" /\ status[d] # "none"
      BY <1>1 DEF Claim, Reclaimed, UnderWay, ItemOK
    <2>2. /\ status' \in [Texts -> {"none"} \union Waiting \union UnderWay \union Settled]
          /\ lease' \in [Texts -> {"none", "held", "lapsed"}]
      BY <1>1 DEF Claim, ItemOK, UnderWay, Waiting
    <2>3. ASSUME NEW d \in Texts
          PROVE  Charged(d)' /\ (rowid'[d] = 0 => status'[d] = "none" /\ attempt'[d] = 0)
      <3>1. rowid' = rowid /\ attempt' = attempt
        BY <1>2 DEF noteVars
      <3>2. CASE d = c
        BY <1>1, <1>5, <3>1, <3>2 DEF Charged
      <3>3. CASE d # c
        BY <1>1, <2>1, <3>1, <3>3 DEF Charged, ItemOK
      <3> QED BY <3>2, <3>3
    <2> QED BY <1>1, <1>2, <2>2, <2>3 DEF ItemOK
  <1>8. DeliveredIsProven'
    <2>1. \A d \in Texts : status'[d] = "completed" => status[d] = "completed"
      BY <1>1 DEF Claim, ItemOK
    <2> QED BY <1>1, <1>2, <2>1 DEF DeliveredIsProven, taleVars
  <1> QED BY <1>1, <1>2, <1>4, <1>6, <1>7, <1>8, NoteStays, Parts

LEMMA PollStep ==
  ASSUME MemoryInv, NEW w \in Writers, NEW c \in Texts, NEW answer \in Answers, Poll(w, c, answer)
  PROVE  MemoryInv'
  <1> USE MemoryAssumption DEF MemoryAssumption
  <1>1. NoteOK /\ ItemOK /\ TaleOK /\ WorkOK /\ DeliveredIsProven
    BY Parts
  <1>2. UNCHANGED <<noteVars, itemVars, journal, remoteVars, taleVars, mishaps>>
    BY DEF Poll
  <1>3. Growing
    BY <1>2 DEF Growing, noteVars, taleVars
  <1>4. rowid[c] # 0 /\ attempt[c] \in 0..(MaxAttempts + 1)
    BY <1>1 DEF Poll, ItemOK
  <1>5. watched' \in [Texts -> 0..(MaxObservations - 1)]
    BY <1>1 DEF Poll, Hopeless, LastLook, TaleOK
  <1>6. TaleOK'
    BY <1>1, <1>2, <1>5 DEF TaleOK, remoteVars, taleVars
  <1>7. WorkOK'
    <2>1. CASE Takes(w, c, "failing") /\ cause' = [cause EXCEPT ![w] = "quarantine"]
      BY <1>1, <1>3, <1>4, <2>1 DEF WorkOK, Growing, Informed, Takes, Phases, Causes
    <2>2. CASE Takes(w, c, "reading") /\ UNCHANGED cause
      BY <1>1, <1>3, <1>4, <2>2, TakesUp
    <2>3. CASE UNCHANGED workVars
      BY <1>1, <1>3, <2>3, StaysPut
    <2> QED BY <2>1, <2>2, <2>3 DEF Poll
  <1> QED
    BY <1>1, <1>2, <1>6, <1>7, NoteStays, ItemsStay, StillProven, Parts DEF noteVars, itemVars, taleVars

(* Steps before the verdict: the items stay as they are, except for Decide.      *)
LEMMA WorkingStep ==
  ASSUME MemoryInv, NEW w \in Writers,
         \/ CheckFile(w) \/ Begin(w) \/ Post(w) \/ CheckNewest(w)
         \/ \E answered \in BOOLEAN : Doubt(w, answered) \/ ReadBack(w, answered)
  PROVE  MemoryInv'
  <1> USE MemoryAssumption DEF MemoryAssumption
  <1> DEFINE c == item[w]
  <1>1. NoteOK /\ ItemOK /\ TaleOK /\ WorkOK /\ DeliveredIsProven
    BY Parts
  <1>2. UNCHANGED <<noteVars, itemVars, watched, mishaps>> /\ phase[w] # "idle"
    BY DEF CheckFile, Begin, Post, Posted, Refused, Unanswered, Garbled, CheckNewest, Doubt, ReadBack
  <1>3. c \in Texts /\ rowid[c] # 0 /\ tried[w] \in 0..(MaxAttempts + 1)
    BY <1>1, <1>2 DEF WorkOK, Informed
  <1>4. Informed(w)
    BY <1>1 DEF WorkOK
  (* The tale of one text goes on.                                             *)
  <1>5. ASSUME journal' \in [Texts -> [Tries -> Rows]], blind' \in [Texts -> Nat],
               remote' \in Texts \union {NoText}, late' \subseteq Texts,
               proven' \in {proven, proven \union {c}},
               Growing => WorkOK'
        PROVE  MemoryInv'
    <2>1. Growing
      BY <1>2, <1>5 DEF Growing, noteVars
    <2>2. TaleOK'
      BY <1>1, <1>2, <1>3, <1>5 DEF TaleOK
    <2> QED
      BY <1>1, <1>2, <1>5, <2>1, <2>2, NoteStays, ItemsStay, StillProven, Parts
         DEF Growing, noteVars, itemVars
  <1>6. /\ journal \in [Texts -> [Tries -> Rows]] /\ blind \in [Texts -> Nat]
        /\ remote \in Texts \union {NoText} /\ late \subseteq Texts
    BY <1>1 DEF TaleOK
  <1>7. ASSUME NEW row \in Rows, NEW t \in Tries, tried[w] <= MaxAttempts
        PROVE  [journal EXCEPT ![c][t] = row] \in [Texts -> [Tries -> Rows]]
    BY <1>6
  <1>8. tried[w] <= MaxAttempts => tried[w] + 1 \in Tries
    BY <1>3 DEF Tries
  <1>9. ASSUME CheckFile(w) PROVE MemoryInv'
    <2>1. Goes(w, "ready") \/ Fails(w, "permanent") \/ Fails(w, "quarantine")
      BY <1>9 DEF CheckFile
    <2>2. UNCHANGED <<journal, blind, remote, late, proven>> /\ tried[w] <= MaxAttempts
      BY <1>4, <1>9 DEF CheckFile, remoteVars, taleVars, Informed
    <2>3. Growing => WorkOK'
      BY <1>1, <1>2, <2>1, <2>2, GoesOn, FailsNow DEF Phases, Causes
    <2> QED BY <1>5, <1>6, <2>2, <2>3
  <1>10. ASSUME CheckNewest(w) PROVE MemoryInv'
    <2>1. Goes(w, "committing") \/ Fails(w, "quarantine")
      BY <1>10 DEF CheckNewest
    <2>2. UNCHANGED <<journal, blind, remote, late, proven>> /\ c \in proven
      BY <1>4, <1>10 DEF CheckNewest, remoteVars, taleVars, Informed
    <2>3. Growing => WorkOK'
      BY <1>1, <1>2, <2>1, <2>2, GoesOn, FailsNow DEF Phases, Causes
    <2> QED BY <1>5, <1>6, <2>2, <2>3
  <1>11. ASSUME Begin(w) PROVE MemoryInv'
    <2>1. tried[w] <= MaxAttempts /\ UNCHANGED <<blind, remote, late, proven>>
      BY <1>4, <1>11 DEF Begin, remoteVars, taleVars, Informed
    <2>2. PICK p \in {"posting", "deciding"} : Goes(w, p)
      BY <1>11 DEF Begin
    <2>3. Growing => WorkOK'
      BY <1>1, <1>2, <2>1, <2>2, GoesOn DEF Phases
    <2>4. journal' \in [Texts -> [Tries -> Rows]]
      BY <1>6, <1>7, <1>8, <1>11, <2>1 DEF Begin, Rows
    <2> QED BY <1>5, <1>6, <2>1, <2>3, <2>4
  <1>12. ASSUME Post(w) PROVE MemoryInv'
    <2>1. tried[w] <= MaxAttempts /\ UNCHANGED proven
      BY <1>4, <1>12 DEF Post, Posted, Refused, Unanswered, Garbled, taleVars, Informed
    <2>2. ASSUME NEW reply \in Replies, NEW now \in BOOLEAN, Posted(w, reply, now) PROVE MemoryInv'
      <3>1. journal' \in [Texts -> [Tries -> Rows]]
        BY <1>7, <1>8, <2>1, <2>2 DEF Posted, Rows
      <3>2. remote' \in Texts \union {NoText} /\ late' \subseteq Texts /\ UNCHANGED blind
        BY <1>3, <1>6, <2>2 DEF Posted, taleVars
      <3>3. Growing => WorkOK'
        BY <1>1, <1>2, <2>1, <2>2, GoesOn DEF Posted, Phases
      <3> QED BY <1>5, <1>6, <2>1, <3>1, <3>2, <3>3
    <2>3. ASSUME NEW why \in {"429", "permanent"}, Refused(w, why) PROVE MemoryInv'
      <3>1. journal' \in [Texts -> [Tries -> Rows]]
        BY <1>7, <1>8, <2>1, <2>3 DEF Refused, Rows
      <3>2. UNCHANGED <<remote, late, blind>>
        BY <2>3 DEF Refused, remoteVars, taleVars
      <3>3. Growing => WorkOK'
        BY <1>1, <1>2, <2>1, <2>3, FailsNow DEF Refused, Causes
      <3> QED BY <1>5, <1>6, <2>1, <3>1, <3>2, <3>3
    <2>4. ASSUME NEW outcome \in Outcomes, Unanswered(w, outcome) PROVE MemoryInv'
      <3>1. journal' \in [Texts -> [Tries -> Rows]]
        BY <1>7, <1>8, <2>1, <2>4 DEF Unanswered, Rows
      <3>2. /\ remote' \in Texts \union {NoText} /\ late' \subseteq Texts
            /\ blind' \in [Texts -> Nat]
        BY <1>3, <1>6, <2>4 DEF Unanswered, Written
      <3>3. Growing => WorkOK'
        BY <1>1, <1>2, <2>1, <2>4, GoesOn DEF Unanswered, Phases
      <3> QED BY <1>5, <1>6, <2>1, <3>1, <3>2, <3>3
    <2>5. ASSUME NEW outcome \in Outcomes, Garbled(w, outcome) PROVE MemoryInv'
      <3>1. /\ remote' \in Texts \union {NoText} /\ late' \subseteq Texts
            /\ UNCHANGED <<journal, blind>>
        BY <1>3, <1>6, <2>5 DEF Garbled, Written, taleVars
      <3>2. Growing => WorkOK'
        BY <1>1, <1>2, <2>1, <2>5, FailsNow DEF Garbled, Causes
      <3> QED BY <1>5, <1>6, <2>1, <3>1, <3>2
    <2> QED BY <1>12, <2>2, <2>3, <2>4, <2>5 DEF Post
  <1>13. ASSUME NEW answered \in BOOLEAN, Doubt(w, answered) PROVE MemoryInv'
    <2>1. tried[w] <= MaxAttempts /\ UNCHANGED <<remote, late, blind>>
      BY <1>4, <1>13 DEF Doubt, remoteVars, Informed
    <2>2. CASE answered /\ Verified(c)
      <3>1. /\ journal' = [journal EXCEPT ![c][tried[w] + 1] = "recovered"]
            /\ proven' = proven \union {c} /\ Goes(w, "completing")
        BY <1>13, <2>2 DEF Doubt, Verified
      <3>2. journal' \in [Texts -> [Tries -> Rows]]
        BY <1>7, <1>8, <2>1, <3>1 DEF Rows
      <3>3. Growing => WorkOK'
        BY <1>1, <1>2, <3>1, GoesOn DEF Phases
      <3> QED BY <1>5, <1>6, <2>1, <3>1, <3>2, <3>3
    <2>3. CASE ~(answered /\ Verified(c))
      <3>1. /\ UNCHANGED <<journal, proven>>
            /\ Fails(w, "quarantine") \/ Fails(w, "connection")
        BY <1>13, <2>3 DEF Doubt
      <3>2. Growing => WorkOK'
        BY <1>1, <1>2, <2>1, <3>1, FailsNow DEF Causes
      <3> QED BY <1>5, <1>6, <2>1, <3>1, <3>2
    <2> QED BY <2>2, <2>3
  <1>14. ASSUME NEW answered \in BOOLEAN, ReadBack(w, answered) PROVE MemoryInv'
    <2>1. UNCHANGED <<journal, remote, late, blind>>
      BY <1>14 DEF ReadBack, remoteVars
    <2>2. \/ proven' = proven \union {c} /\ Goes(w, "completing")
          \/ UNCHANGED proven /\ Fails(w, "quarantine")
      BY <1>14 DEF ReadBack, Verified
    <2>3. Growing => WorkOK'
      BY <1>1, <1>2, <2>2, GoesOn, FailsNow DEF Phases, Causes
    <2> QED BY <1>5, <1>6, <2>1, <2>2, <2>3
  <1> QED BY <1>9, <1>10, <1>11, <1>12, <1>13, <1>14

(* A verdict, or a task, is written for the text of a writer.                   *)
LEMMA SettlingStep ==
  ASSUME MemoryInv, NEW w \in Writers,
         \/ Decide(w) \/ Complete(w) \/ Die(w)
         \/ \E overran \in BOOLEAN : RecordFailure(w, overran)
  PROVE  MemoryInv'
  <1> USE MemoryAssumption DEF MemoryAssumption
  <1> DEFINE c == item[w]
  <1>1. NoteOK /\ ItemOK /\ TaleOK /\ WorkOK /\ DeliveredIsProven
    BY Parts
  <1>2. UNCHANGED <<noteVars, remoteVars, proven>> /\ phase[w] # "idle"
    BY DEF Decide, Complete, Die, RecordFailure, taleVars
  <1>3. c \in Texts /\ rowid[c] # 0 /\ tried[w] \in 0..(MaxAttempts + 1)
    BY <1>1, <1>2 DEF WorkOK, Informed
  <1>4. Informed(w) /\ Growing
    BY <1>1, <1>2 DEF WorkOK, Growing, noteVars
  <1>5. ASSUME Forgets(c) \/ UNCHANGED <<journal, blind>>,
               watched' = [watched EXCEPT ![c] = 0] \/ UNCHANGED watched, mishaps' \in 0..MaxMishaps
        PROVE  TaleOK'
    <2>1. [t \in Tries |-> "none"] \in [Tries -> Rows]
      BY DEF Rows
    <2>2. CASE Forgets(c)
      <3>1. journal' \in [Texts -> [Tries -> Rows]]
        BY <1>1, <2>1, <2>2 DEF TaleOK, Forgets
      <3>2. blind' \in [Texts -> Nat]
        BY <1>1, <2>2 DEF TaleOK, Forgets
      <3> QED BY <1>1, <1>2, <1>5, <3>1, <3>2 DEF TaleOK, remoteVars
    <2>3. CASE UNCHANGED <<journal, blind>>
      BY <1>1, <1>2, <1>5, <2>3 DEF TaleOK, remoteVars
    <2> QED BY <1>5, <2>2, <2>3
  <1>6. ASSUME NEW s \in UnderWay \union Waiting \union Settled, NEW n \in 0..(MaxAttempts + 1),
               \/ UNCHANGED <<status, attempt>>
               \/ /\ status' = [status EXCEPT ![c] = s] /\ attempt' = [attempt EXCEPT ![c] = n]
                  /\ n <= MaxAttempts \/ s \notin Waiting \union {"in_flight"},
               lease' = [lease EXCEPT ![c] = "none"],
               event' \in [Texts -> {"none", "pending", "consumed", "quarantine"}]
        PROVE  ItemOK'
    <2>1. /\ status' \in [Texts -> {"none"} \union Waiting \union UnderWay \union Settled]
          /\ attempt' \in [Texts -> 0..(MaxAttempts + 1)]
          /\ lease' \in [Texts -> {"none", "held", "lapsed"}]
      <3>1. lease' \in [Texts -> {"none", "held", "lapsed"}]
        BY <1>1, <1>6 DEF ItemOK
      <3>2. status' \in [Texts -> {"none"} \union Waiting \union UnderWay \union Settled]
        BY <1>1, <1>6 DEF ItemOK
      <3>3. attempt' \in [Texts -> 0..(MaxAttempts + 1)]
        BY <1>1, <1>6 DEF ItemOK
      <3> QED BY <3>1, <3>2, <3>3
    <2>2. ASSUME NEW d \in Texts
          PROVE  Charged(d)' /\ (rowid'[d] = 0 => status'[d] = "none" /\ attempt'[d] = 0)
      <3>1. rowid' = rowid
        BY <1>2 DEF noteVars
      <3>2. CASE d = c
        BY <1>1, <1>3, <1>6, <3>1, <3>2 DEF ItemOK, Charged
      <3>3. CASE d # c
        BY <1>1, <1>6, <3>1, <3>3 DEF ItemOK, Charged
      <3> QED BY <3>2, <3>3
    <2> QED BY <1>6, <2>1, <2>2 DEF ItemOK
  <1>7. ASSUME NEW verdict \in {"consumed", "quarantine"}, Closes(c, verdict)
        PROVE  event' \in [Texts -> {"none", "pending", "consumed", "quarantine"}]
    BY <1>1, <1>7 DEF ItemOK, Closes
  <1>8. ASSUME Rests(w) PROVE WorkOK'
    BY <1>1, <1>4, <1>8, NowRests
  <1>9. NoteOK'
    BY <1>1, <1>2, NoteStays
  <1>10. ASSUME Die(w) PROVE MemoryInv'
    <2>1. UNCHANGED itemVars /\ UNCHANGED <<journal, watched, blind>> /\ mishaps' \in 0..MaxMishaps
      BY <1>1, <1>10 DEF Die, taleVars, TaleOK
    <2>2. ItemOK' /\ DeliveredIsProven'
      BY <1>1, <1>2, <2>1, ItemsStay, StillProven DEF noteVars, itemVars
    <2>3. TaleOK'
      BY <1>5, <2>1
    <2> QED BY <1>8, <1>9, <1>10, <2>2, <2>3, Parts DEF Die
  <1>11. ASSUME Complete(w) PROVE MemoryInv'
    <2>1. c \in proven
      BY <1>4, <1>11 DEF Complete, Informed
    <2>2. TaleOK' /\ WorkOK'
      BY <1>1, <1>5, <1>8, <1>11 DEF Complete, TaleOK
    <2>3. event' \in [Texts -> {"none", "pending", "consumed", "quarantine"}]
      BY <1>7, <1>11 DEF Complete
    <2>4. /\ lease' = [lease EXCEPT ![c] = "none"] /\ UNCHANGED attempt
          /\ UNCHANGED status \/ status' = [status EXCEPT ![c] = "completed"]
      BY <1>11 DEF Complete
    <2>5. ItemOK'
      <3>1. attempt = [attempt EXCEPT ![c] = attempt[c]] /\ attempt[c] \in 0..(MaxAttempts + 1)
        BY <1>1, <1>3 DEF ItemOK
      <3>2. "completed" \in Settled /\ "completed" \notin Waiting \union {"in_flight"}
        BY DEF Settled, Waiting
      <3> QED BY <1>6, <2>3, <2>4, <3>1, <3>2
    <2>6. DeliveredIsProven'
      BY <1>1, <1>2, <1>3, <1>11, <2>1, <2>4 DEF DeliveredIsProven, Complete, Closes, ItemOK
    <2> QED BY <1>9, <2>2, <2>5, <2>6, Parts
  <1>12. ASSUME NEW overran \in BOOLEAN, RecordFailure(w, overran) PROVE MemoryInv'
    <2> DEFINE s == Verdict(cause[w], tried[w], overran)
               n == NewAttempt(cause[w], tried[w], overran)
    <2>1. TaleOK' /\ WorkOK'
      BY <1>1, <1>5, <1>8, <1>12 DEF RecordFailure, TaleOK
    <2>2. cause[w] \in Causes \ {"none"}
          /\ (cause[w] \in {"429", "connection"} => tried[w] <= MaxAttempts)
      BY <1>1, <1>4, <1>12 DEF RecordFailure, WorkOK, Informed
    <2>3. /\ s \in {"failed", "quarantine", "dead_letter", "retry_wait"}
          /\ n \in 0..(MaxAttempts + 1) /\ (s = "retry_wait" => n <= MaxAttempts)
      BY <1>3, <2>2 DEF Verdict, NewAttempt, Charge, Exhausted, Causes
    <2>4. /\ lease' = [lease EXCEPT ![c] = "none"]
          /\ \/ UNCHANGED <<status, attempt>>
             \/ status' = [status EXCEPT ![c] = s] /\ attempt' = [attempt EXCEPT ![c] = n]
          /\ UNCHANGED event \/ Closes(c, "quarantine")
      BY <1>12 DEF RecordFailure
    <2> HIDE DEF s, n
    <2>5. event' \in [Texts -> {"none", "pending", "consumed", "quarantine"}]
      BY <1>1, <1>7, <2>4 DEF ItemOK
    <2>6. /\ s \in UnderWay \union Waiting \union Settled
          /\ n <= MaxAttempts \/ s \notin Waiting \union {"in_flight"}
      BY <2>3 DEF Waiting, Settled
    <2>7. ItemOK'
      BY <1>6, <2>3, <2>4, <2>5, <2>6
    <2>8. DeliveredIsProven'
      BY <1>1, <1>2, <1>3, <2>3, <2>4 DEF DeliveredIsProven, Closes, ItemOK
    <2> QED BY <1>9, <2>1, <2>7, <2>8, Parts
  <1>13. ASSUME Decide(w) PROVE MemoryInv'
    <2>1. UNCHANGED <<attempt, event, mishaps>> /\ mishaps \in 0..MaxMishaps
      BY <1>1, <1>13 DEF Decide, TaleOK
    <2>2. CASE journal[c][tried[w] + 1] = "task"
      <3>1. /\ status' = [status EXCEPT ![c] = "awaiting_task"]
            /\ lease' = [lease EXCEPT ![c] = "none"] /\ Forgets(c) /\ Rests(w)
            /\ watched' = [watched EXCEPT ![c] = 0]
        BY <1>13, <2>2 DEF Decide
      <3>2. TaleOK' /\ WorkOK'
        BY <1>5, <1>8, <2>1, <3>1
      <3>3. attempt = [attempt EXCEPT ![c] = attempt[c]] /\ attempt[c] \in 0..(MaxAttempts + 1)
        BY <1>1, <1>3 DEF ItemOK
      <3>4. "awaiting_task" \in UnderWay /\ "awaiting_task" \notin Waiting \union {"in_flight"}
        BY DEF UnderWay, Waiting
      <3>5. event' \in [Texts -> {"none", "pending", "consumed", "quarantine"}]
        BY <1>1, <2>1 DEF ItemOK
      <3>6. ItemOK'
        BY <1>6, <2>1, <3>1, <3>3, <3>4, <3>5
      <3>7. DeliveredIsProven'
        BY <1>1, <1>2, <1>3, <2>1, <3>1 DEF DeliveredIsProven, ItemOK
      <3> QED BY <1>9, <3>2, <3>6, <3>7, Parts
    <2>3. CASE journal[c][tried[w] + 1] # "task"
      <3>1. /\ UNCHANGED <<status, lease, watched, journal, blind>>
            /\ Goes(w, "reading") \/ Fails(w, "quarantine") \/ Fails(w, "permanent")
        BY <1>13, <2>3 DEF Decide
      <3>2. TaleOK'
        BY <1>5, <2>1, <3>1
      <3>3. WorkOK'
        BY <1>1, <1>2, <1>4, <3>1, GoesOn, FailsNow DEF Phases, Causes
      <3>4. ItemOK' /\ DeliveredIsProven'
        BY <1>1, <1>2, <2>1, <3>1, ItemsStay, StillProven DEF noteVars, itemVars
      <3> QED BY <1>9, <3>2, <3>3, <3>4, Parts
    <2> QED BY <2>2, <2>3
  <1> QED BY <1>10, <1>11, <1>12, <1>13

LEMMA MemoryStep == MemoryInv /\ [MemoryNext]_memoryVars => MemoryInv'
  <1> SUFFICES ASSUME MemoryInv, [MemoryNext]_memoryVars PROVE MemoryInv'
    OBVIOUS
  <1>1. CASE \/ \E c \in Texts \union {NoText} : Edit(c)
             \/ Notice \/ ImportLegacy \/ Overlook
             \/ \E overran \in SUBSET Texts : GatewaySweep(overran)
             \/ \E c \in Texts : Land(c) \/ Lapse(c)
             \/ UNCHANGED memoryVars
    BY <1>1, OutsideStep
  <1>2. ASSUME NEW w \in Writers, NEW c \in Texts, Claim(w, c) \/ Look(w, c) PROVE MemoryInv'
    BY <1>2, ClaimStep, PollStep DEF Look
  <1>3. ASSUME NEW w \in Writers, Work(w) \/ Die(w) PROVE MemoryInv'
    BY <1>3, WorkingStep, SettlingStep DEF Work
  <1> QED BY <1>1, <1>2, <1>3 DEF MemoryNext

(* Every writer knows of its text what its place in _write, _complete and _fail   *)
(* promises: the invariant the properties rest on.                             *)
THEOREM MemoryIsInformed == MemorySpec => []MemoryInv
  BY InitMemory, MemoryStep, PTL DEF MemorySpec

-----------------------------------------------------------------------------
(* The properties of MemoryDelivery *)

(* The types hold, and with them MemorySkillWriter.max_attempts: an item that is   *)
(* due or being sent is never charged beyond it, whichever writers overlap.     *)
THEOREM MemoryTypeCorrect == MemorySpec => []MemoryTypeOK
  <1>1. MemoryInv => MemoryTypeOK
    BY DEF MemoryInv
  <1> QED BY <1>1, MemoryIsInformed, PTL

(* _complete is reached through a read-back only, so an item completed or an event *)
(* consumed is a text the service was seen to hold, for any number of writers.   *)
THEOREM DeliveriesAreProven == MemorySpec => []DeliveredIsProven
  <1>1. MemoryInv => DeliveredIsProven
    BY DEF MemoryInv
  <1> QED BY <1>1, MemoryIsInformed, PTL

-----------------------------------------------------------------------------
(* With one writer, as in the worker, no newer text is completed while an older   *)
(* one is sent or about to be completed.                                       *)

OneWriter == \A v, w \in Writers : v = w

InOrder ==
  \A w \in Writers, d \in Texts :
    phase[w] \in {"ready", "posting", "committing"} /\ rowid[d] > rowid[item[w]] =>
      status[d] # "completed"

LEMMA OnlyCompleteCompletes ==
  ASSUME MemoryInv, [MemoryNext]_memoryVars, NEW d \in Texts,
         status'[d] = "completed", status[d] # "completed"
  PROVE  \E w \in Writers : Complete(w) /\ item[w] = d
  <1>1. status \in [Texts -> {"none"} \union Waiting \union UnderWay \union Settled]
    BY DEF MemoryInv, MemoryTypeOK
  <1>2. ASSUME NEW w \in Writers, NEW c \in Texts, Claim(w, c) \/ Look(w, c) PROVE FALSE
    BY <1>1, <1>2 DEF Claim, Look, Poll, itemVars
  <1>3. ASSUME NEW w \in Writers,
               \/ CheckFile(w) \/ Begin(w) \/ Post(w) \/ CheckNewest(w) \/ Die(w) \/ Decide(w)
               \/ \E answered \in BOOLEAN : Doubt(w, answered) \/ ReadBack(w, answered)
        PROVE  FALSE
    BY <1>1, <1>3 DEF CheckFile, Begin, Post, Posted, Refused, Unanswered, Garbled, CheckNewest,
                      Doubt, ReadBack, Die, Decide, itemVars
  <1>4. ASSUME NEW w \in Writers, NEW overran \in BOOLEAN, RecordFailure(w, overran) PROVE FALSE
    BY <1>1, <1>4 DEF RecordFailure, Verdict
  <1>5. ASSUME NEW w \in Writers, Complete(w) PROVE item[w] = d
    BY <1>1, <1>5 DEF Complete
  <1>6. CASE \/ \E c \in Texts \union {NoText} : Edit(c)
             \/ Notice \/ ImportLegacy \/ Overlook
             \/ \E overran \in SUBSET Texts : GatewaySweep(overran)
             \/ \E c \in Texts : Land(c) \/ Lapse(c)
             \/ UNCHANGED memoryVars
    BY <1>1, <1>6 DEF Edit, Notice, ImportLegacy, Overlook, GatewaySweep, Land, Lapse, memoryVars,
                      itemVars, Waiting, Settled
  <1> QED BY <1>2, <1>3, <1>4, <1>5, <1>6 DEF MemoryNext, Work

(* A row is given once, and to a text that is only now pending, or imported.      *)
LEMMA RowsAreGivenOnce ==
  ASSUME MemoryInv, [MemoryNext]_memoryVars
  PROVE  \/ rowid' = rowid
         \/ /\ file \in Texts /\ rowid[file] = 0 /\ rowid' = [rowid EXCEPT ![file] = lastRow + 1]
            /\ \E s \in {"pending", "quarantine"} : status' = [status EXCEPT ![file] = s]
            /\ UNCHANGED workVars
  <1>1. CASE Notice \/ ImportLegacy
    <2>1. file \in Texts /\ (rowid[file] = 0 => status[file] = "none")
      BY <1>1 DEF Notice, ImportLegacy, MemoryInv, Noticed, MemoryTypeOK
    <2> QED BY <1>1, <2>1 DEF Notice, ImportLegacy, Admits
  <1>2. CASE ~Notice /\ ~ImportLegacy
    <2>1. ASSUME NEW w \in Writers, Work(w) \/ Die(w) PROVE rowid' = rowid
      BY <2>1 DEF Work, Die, CheckFile, Begin, Post, Posted, Refused, Unanswered, Garbled,
                  CheckNewest, Doubt, ReadBack, Decide, Complete, RecordFailure, noteVars
    <2>2. ASSUME NEW w \in Writers, NEW c \in Texts, Claim(w, c) \/ Look(w, c) PROVE rowid' = rowid
      BY <2>2 DEF Claim, Look, Poll, noteVars
    <2>3. CASE \/ \E c \in Texts \union {NoText} : Edit(c)
               \/ Overlook
               \/ \E overran \in SUBSET Texts : GatewaySweep(overran)
               \/ \E c \in Texts : Land(c) \/ Lapse(c)
               \/ UNCHANGED memoryVars
      BY <2>3 DEF Edit, Overlook, GatewaySweep, Land, Lapse, memoryVars, noteVars
    <2> QED BY <1>2, <2>1, <2>2, <2>3 DEF MemoryNext
  <1> QED BY <1>1, <1>2

(* A writer comes to send or complete a text only after a look at the newer ones. *)
LEMMA EntersInOrder ==
  ASSUME MemoryInv, [MemoryNext]_memoryVars, NEW w \in Writers,
         phase'[w] \in {"ready", "posting", "committing"}
  PROVE  /\ item'[w] = item[w]
         /\ \/ phase[w] \in {"ready", "posting", "committing"}
            \/ ~Superseded(item[w]) /\ UNCHANGED <<status, rowid>>
  <1>1. /\ phase \in [Writers -> Phases] /\ item \in [Writers -> Texts \union {NoText}]
    BY DEF MemoryInv, MemoryTypeOK
  <1>2. CASE UNCHANGED workVars
    BY <1>2 DEF workVars
  <1>3. ASSUME NEW v \in Writers, NEW c \in Texts, Claim(v, c) \/ Look(v, c)
        PROVE  item'[w] = item[w] /\ phase'[w] = phase[w]
    <2>1. v # w \/ UNCHANGED workVars
      BY <1>1, <1>3 DEF Claim, Look, Poll, Takes, workVars
    <2> QED BY <1>1, <1>3, <2>1 DEF Claim, Look, Poll, Takes, workVars
  <1>4. ASSUME NEW v \in Writers, CheckFile(v) \/ CheckNewest(v)
        PROVE  /\ item'[w] = item[w]
               /\ phase'[w] = phase[w] \/ (~Superseded(item[w]) /\ UNCHANGED <<status, rowid>>)
    BY <1>1, <1>4 DEF CheckFile, CheckNewest, Goes, Fails, itemVars, noteVars
  <1>5. ASSUME NEW v \in Writers,
               \/ Begin(v) \/ Post(v) \/ Die(v) \/ Decide(v) \/ Complete(v)
               \/ \E answered \in BOOLEAN : Doubt(v, answered) \/ ReadBack(v, answered)
               \/ \E overran \in BOOLEAN : RecordFailure(v, overran)
        PROVE  item'[w] = item[w] /\ phase[w] \in {"ready", "posting", "committing"}
    <2>1. CASE v # w
      <3>1. item'[w] = item[w] /\ phase'[w] = phase[w]
        BY <1>1, <1>5, <2>1
           DEF Begin, Post, Posted, Refused, Unanswered, Garbled, Doubt, ReadBack, Die, Decide,
               Complete, RecordFailure, Goes, Fails, Rests
      <3> QED BY <3>1
    <2>2. CASE v = w
      BY <1>1, <1>5, <2>2
         DEF Begin, Post, Posted, Refused, Unanswered, Garbled, Doubt, ReadBack, Die, Decide,
             Complete, RecordFailure, Goes, Fails, Rests
    <2> QED BY <2>1, <2>2
  <1>6. \/ UNCHANGED workVars
        \/ \E v \in Writers : Work(v) \/ Die(v) \/ \E c \in Texts : Claim(v, c) \/ Look(v, c)
    BY DEF MemoryNext, Edit, Notice, ImportLegacy, Overlook, GatewaySweep, Land, Lapse, memoryVars,
           workVars
  <1> QED BY <1>2, <1>3, <1>4, <1>5, <1>6 DEF Work

LEMMA OrderStep ==
  ASSUME OneWriter, MemoryInv, InOrder, [MemoryNext]_memoryVars
  PROVE  InOrder'
  <1> SUFFICES ASSUME NEW w \in Writers, NEW d \in Texts,
                      phase'[w] \in {"ready", "posting", "committing"},
                      rowid'[d] > rowid'[item'[w]], status'[d] = "completed"
               PROVE  FALSE
    BY DEF InOrder
  <1>1. /\ item'[w] = item[w]
        /\ \/ phase[w] \in {"ready", "posting", "committing"}
           \/ ~Superseded(item[w]) /\ UNCHANGED <<status, rowid>>
    BY EntersInOrder
  <1>2. phase[w] \in {"ready", "posting", "committing"}
    BY <1>1 DEF Superseded
  <1>3. /\ item[w] \in Texts /\ rowid[item[w]] # 0 /\ rowid \in [Texts -> 0..lastRow]
        /\ status \in [Texts -> {"none"} \union Waiting \union UnderWay \union Settled]
        /\ lastRow \in Nat /\ phase \in [Writers -> Phases]
    BY <1>2 DEF MemoryInv, MemoryTypeOK, Informed
  <1>4. status[d] = "completed"
    <2>1. ASSUME NEW v \in Writers, Complete(v) PROVE FALSE
      <3>1. v = w
        BY DEF OneWriter
      <3> QED BY <1>3, <2>1, <3>1 DEF Complete, Rests
    <2> QED BY <2>1, OnlyCompleteCompletes
  <1>5. rowid[d] > rowid[item[w]]
    <2>1. CASE rowid' = rowid
      BY <1>1, <2>1
    <2>2. CASE /\ file \in Texts /\ rowid[file] = 0 /\ rowid' = [rowid EXCEPT ![file] = lastRow + 1]
               /\ \E s \in {"pending", "quarantine"} : status' = [status EXCEPT ![file] = s]
      <3>1. d # file /\ item[w] # file
        BY <1>3, <2>2
      <3> QED BY <1>1, <1>3, <2>2, <3>1
    <2> QED BY <2>1, <2>2, RowsAreGivenOnce
  <1> QED BY <1>2, <1>4, <1>5 DEF InOrder

(* MemorySkillWriter looks for newer texts before it sends and before it          *)
(* completes; with a single writer that is enough, for any number of edits,      *)
(* failures and crashes.                                                       *)
THEOREM NewerTextsStand == OneWriter => (MemorySpec => NewerStands)
  <1> SUFFICES ASSUME OneWriter PROVE MemorySpec => NewerStands
    OBVIOUS
  <1>1. MemoryInit => InOrder
    BY DEF MemoryInit, InOrder
  <1>2. MemoryInv /\ InOrder /\ [MemoryNext]_memoryVars => InOrder'
    BY OrderStep
  <1>3. MemoryInv /\ InOrder /\ [MemoryNext]_memoryVars =>
          [\A c, d \in Texts :
             rowid[c] # 0 /\ rowid[c] < rowid[d] /\ status[d] = "completed" =>
               /\ remote' = c /\ remote # c => c \in late
               /\ status'[c] = "completed" => status[c] = "completed"]_memoryVars
    <2> SUFFICES ASSUME MemoryInv, InOrder, [MemoryNext]_memoryVars, NEW c \in Texts, NEW d \in Texts,
                        rowid[c] # 0, rowid[c] < rowid[d], status[d] = "completed"
                 PROVE  /\ remote' = c /\ remote # c => c \in late
                        /\ status'[c] = "completed" => status[c] = "completed"
      OBVIOUS
    <2>1. rowid \in [Texts -> 0..lastRow] /\ lastRow \in Nat
      BY DEF MemoryInv, MemoryTypeOK
    <2>2. ASSUME NEW w \in Writers, phase[w] \in {"posting", "committing"} PROVE item[w] # c
      BY <2>1, <2>2 DEF InOrder
    <2>3. ASSUME NEW w \in Writers, Post(w), remote' # remote PROVE remote' # c
      <3>1. phase[w] = "posting" /\ remote' = item[w]
        BY <2>3 DEF Post, Posted, Refused, Unanswered, Garbled, Written, remoteVars
      <3> QED BY <2>2, <3>1
    <2>4. ASSUME remote' # remote
          PROVE  \/ \E b \in Texts : Land(b)
                 \/ \E w \in Writers : Post(w)
      BY <2>4 DEF MemoryNext, Edit, Notice, ImportLegacy, Overlook, GatewaySweep, Lapse, Work, Die,
                  Claim, Look, Poll, CheckFile, Begin, CheckNewest, Doubt, ReadBack, Decide, Complete,
                  RecordFailure, memoryVars, remoteVars
    <2>5. remote' = c /\ remote # c => c \in late
      BY <2>3, <2>4 DEF Land
    <2>6. ASSUME status'[c] = "completed", status[c] # "completed" PROVE FALSE
      <3>1. PICK w \in Writers : Complete(w) /\ item[w] = c
        BY <2>6, OnlyCompleteCompletes
      <3> QED BY <2>2, <3>1 DEF Complete
    <2> QED BY <2>5, <2>6
  <1> QED BY <1>1, <1>2, <1>3, MemoryIsInformed, PTL DEF MemorySpec, NewerStands

-----------------------------------------------------------------------------
(* With one writer, a text is sent blindly once for each of two rows of its       *)
(* journal.  Another send is for a row that was sent before, whose failure was    *)
(* not charged: the writer died, or lost its item with its lease.                *)

(* An attempt that was charged has left its row unknown.                        *)
Below(c) == \E t \in Tries : t <= attempt[c] /\ journal[c][t] = "unknown"

Within(c, n) == blind[c] <= n \/ (blind[c] <= n + 1 /\ Below(c))

(* A lapse that is still to be paid for by a second send of the same row.        *)
Leeway(c) == IF lease[c] = "held" THEN mishaps ELSE mishaps - 1

Here(w) == journal[item[w]][tried[w] + 1] = "unknown"

(* An item under a lease was taken, and may have been quarantined since.           *)
Taken == {"in_flight", "quarantine"}

HeldTaken == \A c \in Texts : lease[c] = "held" => status[c] \in Taken

(* A text no writer is at: nothing more is sent for it, or the next attempt is one  *)
(* that was paid for.                                                          *)
Left(c) == Within(c, mishaps) \/ (status[c] \in Settled /\ Within(c, mishaps + 1))

LeftAlone ==
  \A c \in Texts : (\A w \in Writers : phase[w] = "idle" \/ item[w] # c) => Left(c)

Sending(w) ==
  LET c == item[w] IN
  /\ tried[w] = attempt[c]
  /\ Within(c, mishaps + 1)
  /\ phase[w] \in {"claimed", "ready", "posting"} \/ (phase[w] = "failing" /\ cause[w] = "429") =>
       Within(c, Leeway(c))
  /\ phase[w] = "doubting" => Within(c, Leeway(c) + 1) /\ Here(w)
  /\ phase[w] = "failing" /\ cause[w] = "connection" =>
       Within(c, Leeway(c)) \/ (blind[c] <= Leeway(c) + 1 /\ Here(w))

ResendInv ==
  /\ HeldTaken
  /\ LeftAlone
  /\ \A w \in Writers : phase[w] # "idle" => Sending(w)

Ahead(w) ==
  \/ phase[w] \in {"claimed", "ready", "posting", "doubting", "deciding"}
  \/ phase[w] = "failing" /\ cause[w] \in {"429", "connection"}

(* Types, in the form the steps need them.                                     *)
ResendTyped ==
  /\ blind \in [Texts -> Nat] /\ mishaps \in Nat /\ attempt \in [Texts -> Nat]
  /\ journal \in [Texts -> [Tries -> Rows]] /\ lease \in [Texts -> {"none", "held", "lapsed"}]
  /\ status \in [Texts -> {"none"} \union Waiting \union UnderWay \union Settled]
  /\ phase \in [Writers -> Phases] /\ item \in [Writers -> Texts \union {NoText}]
  /\ cause \in [Writers -> Causes] /\ tried \in [Writers -> Nat]
  /\ \A w \in Writers : phase[w] # "idle" => item[w] \in Texts
  /\ \A w \in Writers : Ahead(w) => tried[w] + 1 \in Tries

LEMMA ResendTypes == MemoryInv => ResendTyped
  <1> SUFFICES ASSUME MemoryInv PROVE ResendTyped
    OBVIOUS
  <1> USE MemoryAssumption DEF MemoryAssumption
  <1>1. /\ attempt \in [Texts -> 0..(MaxAttempts + 1)] /\ mishaps \in 0..MaxMishaps
        /\ tried \in [Writers -> 0..(MaxAttempts + 1)]
    BY DEF MemoryInv, MemoryTypeOK
  <1>2. attempt \in [Texts -> Nat] /\ mishaps \in Nat /\ tried \in [Writers -> Nat]
    BY <1>1
  <1>3. ASSUME NEW w \in Writers, Ahead(w) PROVE tried[w] + 1 \in Tries
    <2>1. tried[w] <= MaxAttempts
      BY <1>3 DEF MemoryInv, Informed, Ahead
    <2> QED BY <1>1, <2>1 DEF Tries
  <1> QED BY <1>2, <1>3 DEF ResendTyped, MemoryInv, MemoryTypeOK

LEMMA HeldStep ==
  ASSUME MemoryInv, HeldTaken, [MemoryNext]_memoryVars
  PROVE  HeldTaken'
  <1>1. ResendTyped
    BY ResendTypes
  <1> SUFFICES ASSUME NEW d \in Texts, lease'[d] = "held"
               PROVE  status'[d] \in Taken
    BY DEF HeldTaken
  <1>2. lease[d] = "held" => status[d] \in Taken
    BY DEF HeldTaken
  <1>3. ASSUME UNCHANGED <<status, lease>> PROVE status'[d] \in Taken
    BY <1>2, <1>3
  <1>4. ASSUME Notice PROVE status'[d] \in Taken
    <2>1. rowid[d] = 0 => status[d] = "none"
      BY DEF MemoryInv, Noticed
    <2>2. lease'[d] = lease[d] /\ (status'[d] = status[d] \/ rowid[d] = 0)
      BY <1>1, <1>4 DEF Notice, Admits, ResendTyped
    <2> QED BY <1>2, <2>1, <2>2 DEF Taken
  <1>5. ASSUME NEW overran \in SUBSET Texts, GatewaySweep(overran) PROVE status'[d] \in Taken
    BY <1>2, <1>5 DEF GatewaySweep, GatewayReclaims, Waiting, Taken
  <1>6. ASSUME NEW c \in Texts, Lapse(c) PROVE status'[d] \in Taken
    BY <1>1, <1>2, <1>6 DEF Lapse, ResendTyped
  <1>7. ASSUME NEW w \in Writers, NEW c \in Texts, Claim(w, c) PROVE status'[d] \in Taken
    BY <1>2, <1>7 DEF Claim, Reclaimed, Taken
  <1>8. ASSUME NEW w \in Writers, Decide(w) PROVE status'[d] \in Taken
    BY <1>1, <1>2, <1>8 DEF Decide, ResendTyped
  <1>9. ASSUME NEW w \in Writers, Complete(w) PROVE status'[d] \in Taken
    BY <1>1, <1>2, <1>9 DEF Complete, ResendTyped
  <1>10. ASSUME NEW w \in Writers, NEW overran \in BOOLEAN, RecordFailure(w, overran)
         PROVE  status'[d] \in Taken
    BY <1>1, <1>2, <1>10 DEF RecordFailure, ResendTyped
  <1>11. ASSUME ImportLegacy PROVE status'[d] \in Taken
    <2>1. /\ lease'[d] = lease[d]
          /\ status'[d] = status[d] \/ status'[d] = "quarantine"
      BY <1>1, <1>11 DEF ImportLegacy, ResendTyped
    <2> QED BY <1>2, <2>1 DEF Taken
  <1>12. \/ UNCHANGED <<status, lease>> \/ Notice \/ ImportLegacy
         \/ \E overran \in SUBSET Texts : GatewaySweep(overran)
         \/ \E c \in Texts : Lapse(c)
         \/ \E w \in Writers : \/ Decide(w) \/ Complete(w)
                               \/ \E c \in Texts : Claim(w, c)
                               \/ \E overran \in BOOLEAN : RecordFailure(w, overran)
    BY DEF MemoryNext, Edit, Overlook, Land, Work, Die, Look, Poll, CheckFile, Begin, Post, Posted,
           Refused, Unanswered, Garbled, CheckNewest, Doubt, ReadBack, memoryVars, itemVars
  <1> QED BY <1>3, <1>4, <1>5, <1>6, <1>7, <1>8, <1>9, <1>10, <1>11, <1>12

(* A step that leaves a text's journal, attempts and count alone.                *)
LEMMA WithinStays ==
  ASSUME NEW c \in Texts, ResendTyped, NEW n \in Int, NEW m \in Int, n <= m,
         blind'[c] = blind[c], attempt'[c] = attempt[c], journal'[c] = journal[c], Within(c, n)
  PROVE  blind'[c] <= m \/ (blind'[c] <= m + 1 /\ Below(c)')
  <1>1. Below(c) => Below(c)'
    BY DEF Below
  <1>2. blind[c] \in Nat
    BY DEF ResendTyped
  <1> QED BY <1>1, <1>2 DEF Within

LEMMA LeftStays ==
  ASSUME NEW c \in Texts, ResendTyped, mishaps' \in Nat, mishaps <= mishaps',
         blind'[c] = blind[c], attempt'[c] = attempt[c], journal'[c] = journal[c],
         status[c] \in Settled => status'[c] \in Settled, Left(c)
  PROVE  Left(c)'
  <1>1. /\ mishaps \in Int /\ mishaps' \in Int /\ mishaps + 1 \in Int /\ mishaps' + 1 \in Int
        /\ mishaps + 1 <= mishaps' + 1
    <2>1. \A m, n \in Nat : m <= n => m \in Int /\ n \in Int /\ m + 1 \in Int /\ n + 1 \in Int
                                  /\ m + 1 <= n + 1
      OBVIOUS
    <2>2. mishaps \in Nat
      BY DEF ResendTyped
    <2> QED BY <2>1, <2>2
  <1>2. Within(c, mishaps) => Within(c, mishaps)'
    BY <1>1, WithinStays DEF Within
  <1>3. Within(c, mishaps + 1) => Within(c, mishaps + 1)'
    BY <1>1, WithinStays DEF Within
  <1> QED BY <1>2, <1>3 DEF Left

(* The world moves: what a writer knows stands.                                *)
LEMMA WorldMoves ==
  ASSUME ResendTyped, LeftAlone, \A w \in Writers : phase[w] # "idle" => Sending(w),
         UNCHANGED <<attempt, journal, blind, workVars>>, mishaps' \in Nat, mishaps <= mishaps',
         \A c \in Texts : status[c] \in Settled => status'[c] \in Settled,
         \A c \in Texts : (\E w \in Writers : phase[w] # "idle" /\ item[w] = c) =>
                             Leeway(c) <= Leeway(c)'
  PROVE  LeftAlone' /\ \A w \in Writers : phase'[w] # "idle" => Sending(w)'
  <1>1. \A c \in Texts, n \in Int, m \in Int : n <= m /\ Within(c, n) =>
          blind'[c] <= m \/ (blind'[c] <= m + 1 /\ Below(c)')
    BY WithinStays
  <1>2. \A c \in Texts : Leeway(c) \in Int /\ Leeway(c)' \in Int
    BY DEF Leeway, ResendTyped
  <1>3. phase' = phase /\ item' = item /\ cause' = cause /\ tried' = tried
    BY DEF workVars
  <1>4. ASSUME NEW c \in Texts, \A w \in Writers : phase'[w] = "idle" \/ item'[w] # c
        PROVE  Left(c)'
    <2>1. Left(c)
      BY <1>3, <1>4 DEF LeftAlone
    <2> QED BY <2>1, LeftStays
  <1>5. ASSUME NEW w \in Writers, phase'[w] # "idle" PROVE Sending(w)'
    <2> DEFINE c == item[w]
    <2>1. c \in Texts /\ item'[w] = c /\ phase[w] # "idle"
      BY <1>3, <1>5 DEF ResendTyped
    <2>2. Sending(w) /\ Leeway(c) <= Leeway(c)'
      BY <2>1
    <2>3. mishaps \in Nat /\ blind[c] \in Nat /\ blind'[c] = blind[c]
      BY <2>1 DEF ResendTyped
    <2>4. Within(c, mishaps + 1)'
      BY <1>1, <2>1, <2>2, <2>3 DEF Sending, Within
    <2>5. Within(c, Leeway(c)) => Within(c, Leeway(c))'
      BY <1>1, <1>2, <2>1, <2>2 DEF Within
    <2>6. Within(c, Leeway(c) + 1) => Within(c, Leeway(c) + 1)'
      <3>1. /\ Leeway(c) + 1 \in Int /\ Leeway(c)' + 1 \in Int
            /\ Leeway(c) + 1 <= Leeway(c)' + 1
        BY <1>2, <2>1, <2>2
      <3> QED BY <1>1, <2>1, <3>1 DEF Within
    <2>7. blind[c] <= Leeway(c) + 1 => (blind[c] <= Leeway(c) + 1)'
      BY <1>2, <2>1, <2>2, <2>3
    <2>8. Here(w)' <=> Here(w)
      BY <1>3 DEF Here
    <2>9. tried'[w] = attempt'[c]
      BY <1>3, <2>2 DEF Sending
    <2> QED BY <1>3, <2>1, <2>2, <2>4, <2>5, <2>6, <2>7, <2>8, <2>9 DEF Sending
  <1> QED BY <1>4, <1>5 DEF LeftAlone

LEMMA WorldResends ==
  ASSUME MemoryInv, ResendInv,
         \/ \E c \in Texts \union {NoText} : Edit(c)
         \/ Notice \/ ImportLegacy \/ Overlook
         \/ \E overran \in SUBSET Texts : GatewaySweep(overran)
         \/ \E c \in Texts : Land(c) \/ Lapse(c)
         \/ UNCHANGED memoryVars
  PROVE  LeftAlone' /\ \A w \in Writers : phase'[w] # "idle" => Sending(w)'
  <1>1. ResendTyped
    BY ResendTypes
  <1>2. UNCHANGED <<attempt, journal, blind, workVars>>
    BY DEF Edit, Notice, ImportLegacy, Overlook, GatewaySweep, Land, Lapse, memoryVars, taleVars,
           itemVars, workVars
  <1>3. mishaps' \in Nat /\ mishaps <= mishaps'
    BY <1>1 DEF Edit, Notice, ImportLegacy, Overlook, GatewaySweep, Land, Lapse, memoryVars,
                ResendTyped
  <1>4. ASSUME NEW c \in Texts, NEW w \in Writers, phase[w] # "idle", item[w] = c
        PROVE  Leeway(c) <= Leeway(c)'
    <2>1. mishaps \in Nat /\ mishaps' \in Nat /\ mishaps <= mishaps'
      BY <1>1, <1>3 DEF ResendTyped
    <2>2. ASSUME lease'[c] = lease[c] PROVE Leeway(c) <= Leeway(c)'
      <3>1. lease'[c] = lease[c]
        BY <2>2
      <3>2. CASE lease[c] = "held"
        BY <2>1, <3>1, <3>2 DEF Leeway
      <3>3. CASE lease[c] # "held"
        <4>1. Leeway(c) = mishaps - 1 /\ Leeway(c)' = mishaps' - 1
          BY <3>1, <3>3 DEF Leeway
        <4>2. mishaps - 1 <= mishaps' - 1
          <5>1. \A m \in Nat, n \in Nat : m <= n => m - 1 <= n - 1
            OBVIOUS
          <5> QED BY <2>1, <5>1
        <4> QED BY <4>1, <4>2
      <3> QED BY <3>2, <3>3
    <2>3. ASSUME NEW overran \in SUBSET Texts, GatewaySweep(overran) PROVE Leeway(c) <= Leeway(c)'
      <3>1. mishaps' = mishaps /\ mishaps \in Nat
        BY <1>1, <2>3 DEF GatewaySweep, ResendTyped
      <3>2. lease[c] = "held" => status[c] \in Taken
        BY DEF ResendInv, HeldTaken
      <3>3. lease'[c] = "held" <=> lease[c] = "held"
        BY <1>1, <2>3, <3>2 DEF GatewaySweep, GatewayReclaims, Waiting, Taken, ResendTyped
      <3> QED BY <3>1, <3>3 DEF Leeway
    <2>4. ASSUME NEW d \in Texts, Lapse(d) PROVE Leeway(c) <= Leeway(c)'
      <3>1. CASE d = c
        <4>1. mishaps' = mishaps + 1 /\ lease[c] = "held" /\ mishaps \in Nat
          BY <1>1, <1>4, <2>4, <3>1 DEF Lapse, AtWork, ResendTyped
        <4> QED BY <4>1 DEF Leeway
      <3>2. CASE d # c
        <4>1. lease'[c] = lease[c]
          BY <1>1, <2>4, <3>2 DEF Lapse, ResendTyped
        <4> QED BY <2>2, <4>1
      <3> QED BY <3>1, <3>2
    <2>5. \/ UNCHANGED lease
          \/ \E overran \in SUBSET Texts : GatewaySweep(overran)
          \/ \E d \in Texts : Lapse(d)
      BY DEF Edit, Notice, ImportLegacy, Overlook, Land, memoryVars, itemVars
    <2> QED BY <2>2, <2>3, <2>4, <2>5
  <1>5. \A c \in Texts : (\E w \in Writers : phase[w] # "idle" /\ item[w] = c) =>
                             Leeway(c) <= Leeway(c)'
    BY <1>4
  <1>6. ASSUME NEW c \in Texts, status[c] \in Settled PROVE status'[c] \in Settled
    <2>1. /\ rowid[c] = 0 => status[c] = "none"
          /\ status[c] \notin {"none", "in_flight"} \union Waiting
      BY <1>6 DEF MemoryInv, Noticed, Settled, Waiting
    <2>2. ASSUME Notice PROVE status'[c] = status[c]
      BY <1>1, <1>6, <2>1, <2>2 DEF Notice, Admits, ResendTyped, Settled
    <2>3. ASSUME ImportLegacy PROVE status'[c] \in Settled
      BY <1>1, <1>6, <2>3 DEF ImportLegacy, ResendTyped, Settled
    <2>4. ASSUME NEW overran \in SUBSET Texts, GatewaySweep(overran) PROVE status'[c] \in Settled
      BY <1>6, <2>1, <2>4 DEF GatewaySweep, GatewayReclaims, Settled
    <2>5. \/ status' = status \/ Notice \/ ImportLegacy
          \/ \E overran \in SUBSET Texts : GatewaySweep(overran)
      BY DEF Edit, Overlook, Land, Lapse, memoryVars, itemVars
    <2> QED BY <1>6, <2>2, <2>3, <2>4, <2>5
  <1> QED BY <1>1, <1>2, <1>3, <1>5, <1>6, WorldMoves DEF ResendInv

(* The text of the writer is accounted for, the others are as they were.          *)
LEMMA OneMoves ==
  ASSUME OneWriter, ResendTyped, LeftAlone, NEW w \in Writers, NEW c \in Texts,
         phase[w] = "idle" \/ item[w] = c,
         phase'[w] = "idle" \/ item'[w] = c,
         mishaps' \in Nat, mishaps <= mishaps',
         \A d \in Texts \ {c} : /\ blind'[d] = blind[d] /\ attempt'[d] = attempt[d]
                                /\ journal'[d] = journal[d]
                                /\ status[d] \in Settled => status'[d] \in Settled,
         phase'[w] = "idle" => Left(c)',
         phase'[w] # "idle" => Sending(w)'
  PROVE  LeftAlone' /\ \A v \in Writers : phase'[v] # "idle" => Sending(v)'
  <1>1. \A v \in Writers : v = w
    BY DEF OneWriter
  <1>2. ASSUME NEW d \in Texts \ {c} PROVE Left(d)'
    <2>1. Left(d)
      BY <1>1, <1>2 DEF LeftAlone
    <2> QED BY <1>2, <2>1, LeftStays
  <1>3. \A d \in Texts : (\A v \in Writers : phase'[v] = "idle" \/ item'[v] # d) => Left(d)'
    <2> SUFFICES ASSUME NEW d \in Texts, phase'[w] = "idle" \/ item'[w] # d PROVE Left(d)'
      OBVIOUS
    <2>1. CASE d = c
      BY <2>1
    <2>2. CASE d # c
      BY <1>2, <2>2
    <2> QED BY <2>1, <2>2
  <1> QED BY <1>1, <1>3 DEF LeftAlone

(* A writer takes a text up.                                                   *)
LEMMA ClaimResends ==
  ASSUME OneWriter, MemoryInv, ResendInv, NEW w \in Writers, NEW c \in Texts, Claim(w, c)
  PROVE  LeftAlone' /\ \A v \in Writers : phase'[v] # "idle" => Sending(v)'
  <1>1. ResendTyped
    BY ResendTypes
  <1>2. UNCHANGED <<attempt, journal, blind, cause, mishaps>> /\ phase[w] = "idle"
    BY DEF Claim, taleVars
  <1>3. /\ item'[w] = c /\ phase'[w] = "claimed" /\ tried'[w] = attempt[c]
        /\ lease'[c] = "held"
    BY <1>1 DEF Claim, Takes, ResendTyped
  <1>4. Within(c, mishaps)
    <2>1. status[c] \notin Settled
      BY DEF Claim, Reclaimed, Waiting, UnderWay, Settled
    <2> QED BY <1>2, <2>1 DEF ResendInv, LeftAlone, Left, OneWriter
  <1>5. Within(c, mishaps)' /\ Within(c, mishaps + 1)'
    <2>1. mishaps \in Int /\ mishaps' = mishaps
      BY <1>1, <1>2 DEF ResendTyped
    <2> QED BY <1>1, <1>2, <1>4, <2>1, WithinStays DEF Within
  <1>6. Sending(w)'
    <2>1. Within(c, Leeway(c))'
      BY <1>3, <1>5 DEF Within, Leeway
    <2> QED BY <1>2, <1>3, <1>5, <2>1 DEF Sending
  <1>7. mishaps' \in Nat /\ mishaps <= mishaps'
    BY <1>1, <1>2 DEF ResendTyped
  <1>8. phase'[w] # "idle"
    BY <1>3
  <1>9. \A d \in Texts \ {c} : status[d] \in Settled => status'[d] \in Settled
    BY DEF Claim, Reclaimed, UnderWay, Settled
  <1> QED BY <1>1, <1>2, <1>3, <1>6, <1>7, <1>8, <1>9, OneMoves DEF ResendInv

LEMMA PollResends ==
  ASSUME OneWriter, MemoryInv, ResendInv, NEW w \in Writers, NEW c \in Texts,
         NEW answer \in Answers, Poll(w, c, answer)
  PROVE  LeftAlone' /\ \A v \in Writers : phase'[v] # "idle" => Sending(v)'
  <1>1. ResendTyped
    BY ResendTypes
  <1>2. /\ UNCHANGED <<attempt, journal, blind, lease, status, mishaps>> /\ phase[w] = "idle"
        /\ mishaps \in Nat /\ status[c] \notin Settled
    BY <1>1 DEF Poll, itemVars, taleVars, ResendTyped, Settled
  <1>3. CASE UNCHANGED workVars
    <2>1. mishaps' \in Nat /\ mishaps <= mishaps'
      BY <1>2
    <2>2. \A d \in Texts : Leeway(d) <= Leeway(d)'
      BY <1>2 DEF Leeway
    <2> QED BY <1>1, <1>2, <1>3, <2>1, <2>2, WorldMoves DEF ResendInv
  <1>4. CASE ~UNCHANGED workVars
    <2>1. /\ item'[w] = c /\ tried'[w] = attempt[c]
          /\ phase'[w] = "reading" \/ (phase'[w] = "failing" /\ cause'[w] = "quarantine")
      BY <1>1, <1>4 DEF Poll, Takes, ResendTyped
    <2>2. Within(c, mishaps)
      BY <1>2 DEF ResendInv, LeftAlone, Left, OneWriter
    <2>3. Within(c, mishaps + 1)'
      <3>1. mishaps \in Int /\ mishaps + 1 \in Int
        BY <1>2
      <3> QED BY <1>1, <1>2, <2>2, <3>1, WithinStays DEF Within
    <2>4. Sending(w)'
      BY <1>2, <2>1, <2>3 DEF Sending
    <2>5. mishaps' \in Nat /\ mishaps <= mishaps'
      BY <1>2
    <2>6. phase'[w] # "idle"
      BY <2>1
    <2> QED BY <1>1, <1>2, <2>1, <2>4, <2>5, <2>6, OneMoves DEF ResendInv
  <1> QED BY <1>3, <1>4

(* A writer that rests, for whatever reason: it died, or nothing is left to be    *)
(* sent, or what it leaves is within bounds.                                   *)
LEMMA RestResends ==
  ASSUME OneWriter, ResendTyped, LeftAlone, NEW w \in Writers, NEW c \in Texts,
         phase[w] # "idle", item[w] = c, Rests(w),
         mishaps' \in Nat, mishaps <= mishaps',
         \A d \in Texts \ {c} : /\ blind'[d] = blind[d] /\ attempt'[d] = attempt[d]
                                /\ journal'[d] = journal[d]
                                /\ status[d] \in Settled => status'[d] \in Settled,
         Left(c)'
  PROVE  LeftAlone' /\ \A v \in Writers : phase'[v] # "idle" => Sending(v)'
  <1>1. phase'[w] = "idle"
    BY DEF Rests, ResendTyped
  <1> QED BY <1>1, OneMoves

LEMMA ForgetsResends ==
  ASSUME ResendTyped, NEW c \in Texts, Forgets(c), mishaps' \in Nat
  PROVE  /\ Left(c)'
         /\ \A d \in Texts \ {c} : blind'[d] = blind[d] /\ journal'[d] = journal[d]
  <1>1. blind'[c] = 0
    BY DEF Forgets, ResendTyped
  <1>2. \A d \in Texts \ {c} : blind'[d] = blind[d] /\ journal'[d] = journal[d]
    BY DEF Forgets, ResendTyped
  <1>3. blind'[c] <= mishaps'
    BY <1>1
  <1> QED BY <1>2, <1>3 DEF Left, Within

LEMMA DieResends ==
  ASSUME OneWriter, MemoryInv, ResendInv, NEW w \in Writers, Die(w)
  PROVE  LeftAlone' /\ \A v \in Writers : phase'[v] # "idle" => Sending(v)'
  <1>1. ResendTyped
    BY ResendTypes
  <1> PICK c \in Texts : item[w] = c
    BY <1>1 DEF Die, ResendTyped
  <1>2. /\ UNCHANGED <<attempt, journal, blind, status>> /\ phase[w] # "idle"
        /\ mishaps \in Nat /\ mishaps' = mishaps + 1 /\ Rests(w)
    BY <1>1 DEF Die, itemVars, taleVars, ResendTyped
  <1>3. Within(c, mishaps + 1)
    BY <1>2 DEF ResendInv, Sending
  <1>4. Left(c)'
    <2>1. mishaps + 1 \in Int
      BY <1>2
    <2> QED BY <1>1, <1>2, <1>3, <2>1, WithinStays DEF Left, Within
  <1>5. mishaps' \in Nat /\ mishaps <= mishaps'
    BY <1>2
  <1> QED BY <1>1, <1>2, <1>4, <1>5, RestResends DEF ResendInv

LEMMA EndResends ==
  ASSUME OneWriter, MemoryInv, ResendInv, NEW w \in Writers,
         Complete(w) \/ \E overran \in BOOLEAN : RecordFailure(w, overran)
  PROVE  LeftAlone' /\ \A v \in Writers : phase'[v] # "idle" => Sending(v)'
  <1>1. ResendTyped
    BY ResendTypes
  <1> PICK c \in Texts : item[w] = c
    BY <1>1 DEF Complete, RecordFailure, ResendTyped
  <1>2. /\ phase[w] # "idle" /\ Rests(w)
        /\ mishaps \in Nat /\ mishaps' = mishaps
    BY <1>1 DEF Complete, RecordFailure, ResendTyped
  <1>3. \A d \in Texts \ {c} : attempt'[d] = attempt[d] /\ status'[d] = status[d]
    BY <1>1, <1>2 DEF Complete, RecordFailure, ResendTyped
  <1>4. mishaps' \in Nat /\ mishaps <= mishaps'
    BY <1>2
  <1>5. CASE Forgets(c)
    BY <1>1, <1>2, <1>3, <1>4, <1>5, ForgetsResends, RestResends DEF ResendInv
  <1>6. CASE ~Forgets(c)
    <2>1. PICK overran \in BOOLEAN : RecordFailure(w, overran)
      BY <1>6 DEF Complete
    <2>2. /\ phase[w] = "failing" /\ UNCHANGED <<journal, blind>>
          /\ Verdict(cause[w], tried[w], overran) \notin Settled
      BY <1>6, <2>1 DEF RecordFailure
    <2>3. /\ ~overran /\ cause[w] \in {"429", "connection"}
      <3>1. cause[w] # "none"
        BY <2>2 DEF MemoryInv, Informed
      <3> QED BY <1>1, <2>2, <3>1 DEF Verdict, Settled, ResendTyped, Causes
    <2>4. Sending(w)
      BY <1>2 DEF ResendInv
    <2>5. tried[w] = attempt[c] /\ attempt[c] \in Nat /\ blind[c] \in Nat
      BY <1>1, <1>2, <2>4 DEF Sending, ResendTyped
    <2>6. IF status[c] \in UnderWay THEN attempt'[c] = Charge(cause[w], attempt[c])
                                    ELSE /\ attempt'[c] = attempt[c]
                                         /\ lease[c] # "held" \/ status'[c] = "quarantine"
      <3>1. lease[c] = "held" => status[c] \in Taken
        BY <1>2 DEF ResendInv, HeldTaken
      <3> QED BY <1>1, <1>2, <2>1, <2>3, <2>5, <3>1
              DEF RecordFailure, NewAttempt, UnderWay, Taken, ResendTyped
    <2>7. Leeway(c) <= mishaps /\ (lease[c] # "held" => Leeway(c) + 1 <= mishaps)
          /\ Leeway(c) \in Int
      BY <1>2 DEF Leeway
    <2>8. Below(c) => Below(c)'
      <3>1. attempt[c] <= attempt'[c] /\ attempt'[c] \in Nat
        BY <2>5, <2>6 DEF Charge
      <3>2. UNCHANGED journal
        BY <2>2
      <3>3. \A t \in Tries : t <= attempt[c] => t <= attempt'[c]
        BY <2>5, <3>1, MemoryAssumption DEF Tries, MemoryAssumption
      <3> QED BY <3>2, <3>3 DEF Below
    <2>9. blind'[c] = blind[c]
      BY <2>2
    <2>10. Within(c, Leeway(c)) => Within(c, mishaps)'
      <3>1. mishaps' = mishaps
        BY <1>2
      <3> QED BY <1>2, <2>5, <2>7, <2>8, <2>9, <3>1 DEF Within
    <2>11. ASSUME cause[w] = "connection", ~Within(c, Leeway(c)) PROVE Left(c)'
      <3>1. blind[c] <= Leeway(c) + 1 /\ Here(w)
        BY <2>2, <2>4, <2>11 DEF Sending
      <3>2. CASE status[c] \in UnderWay
        <4>1. attempt'[c] = attempt[c] + 1
          BY <2>6, <2>11, <3>2 DEF Charge
        <4>2. tried[w] + 1 \in Tries
          BY <1>1, <2>2, <2>3 DEF ResendTyped, Ahead
        <4>3. Below(c)'
          BY <2>2, <2>5, <3>1, <4>1, <4>2 DEF Below, Here
        <4>4. blind'[c] <= mishaps' + 1
          BY <1>2, <2>5, <2>7, <2>9, <3>1
        <4> QED BY <4>3, <4>4 DEF Left, Within
      <3>3. CASE status[c] \notin UnderWay /\ lease[c] # "held"
        <4>1. blind'[c] <= mishaps'
          BY <1>2, <2>5, <2>6, <2>7, <2>9, <3>1, <3>3
        <4> QED BY <4>1 DEF Left, Within
      <3>4. CASE status[c] \notin UnderWay /\ lease[c] = "held"
        <4>1. attempt'[c] = attempt[c] /\ status'[c] = "quarantine"
          BY <2>6, <3>4
        <4>2. Within(c, mishaps + 1) /\ mishaps + 1 \in Int
          BY <1>2, <2>4 DEF Sending
        <4>3. Within(c, mishaps + 1)'
          BY <1>1, <1>2, <2>2, <4>1, <4>2, WithinStays DEF Within
        <4> QED BY <4>1, <4>3 DEF Left, Settled
      <3> QED BY <3>2, <3>3, <3>4
    <2>12. Left(c)'
      <3>1. cause[w] = "429" \/ cause[w] = "connection"
        BY <2>3
      <3>2. cause[w] = "429" => Within(c, Leeway(c))
        BY <2>2, <2>4 DEF Sending
      <3> QED BY <2>10, <2>11, <3>1, <3>2 DEF Left
    <2>13. \A d \in Texts \ {c} : blind'[d] = blind[d] /\ journal'[d] = journal[d]
      BY <2>2
    <2> QED BY <1>1, <1>2, <1>3, <1>4, <2>12, <2>13, RestResends DEF ResendInv
  <1> QED BY <1>5, <1>6

(* A writer that goes on with its text.                                        *)
LEMMA OnwardResends ==
  ASSUME OneWriter, ResendTyped, LeftAlone, NEW w \in Writers, NEW c \in Texts, item[w] = c,
         phase[w] # "idle", phase'[w] # "idle", Sending(w),
         UNCHANGED <<attempt, lease, status, mishaps, item, tried>>,
         NEW row \in Rows,
         journal' = journal \/ journal' = [journal EXCEPT ![c][tried[w] + 1] = row],
         blind' = [blind EXCEPT ![c] = blind'[c]],
         Within(c, mishaps + 1)',
         phase'[w] \in {"claimed", "ready", "posting"} \/ (phase'[w] = "failing" /\ cause'[w] = "429")
           => Within(c, Leeway(c))',
         phase'[w] = "doubting" => Within(c, Leeway(c) + 1)' /\ Here(w)',
         phase'[w] = "failing" /\ cause'[w] = "connection"
           => Within(c, Leeway(c))' \/ (blind[c] <= Leeway(c) + 1 /\ Here(w))'
  PROVE  LeftAlone' /\ \A v \in Writers : phase'[v] # "idle" => Sending(v)'
  <1>1. /\ tried'[w] = attempt'[c] /\ item'[w] = c
        /\ mishaps' \in Nat /\ mishaps <= mishaps'
    BY DEF Sending, ResendTyped
  <1>2. \A d \in Texts \ {c} : /\ blind'[d] = blind[d] /\ attempt'[d] = attempt[d]
                               /\ journal'[d] = journal[d] /\ status'[d] = status[d]
    BY DEF ResendTyped
  <1>3. Sending(w)'
    BY <1>1 DEF Sending
  <1> QED BY <1>1, <1>2, <1>3, OneMoves

(* The rows of the attempts charged are below the one being tried.               *)
LEMMA BelowStays ==
  ASSUME ResendTyped, NEW w \in Writers, NEW c \in Texts, item[w] = c, tried[w] = attempt[c],
         NEW row \in Rows, Ahead(w), UNCHANGED attempt,
         journal' = journal \/ journal' = [journal EXCEPT ![c][tried[w] + 1] = row]
  PROVE  Below(c)' <=> Below(c)
  <1>1. tried[w] + 1 \in Tries /\ attempt[c] \in Nat
    BY DEF ResendTyped
  <1>2. ASSUME NEW t \in Tries, t <= attempt[c] PROVE journal'[c][t] = journal[c][t]
    <2>1. t # tried[w] + 1
      BY <1>1, <1>2, MemoryAssumption DEF Tries, MemoryAssumption
    <2> QED BY <2>1 DEF ResendTyped
  <1> QED BY <1>2 DEF Below

(* A second row left unknown is seen.                                          *)
LEMMA TwoAreSpent ==
  ASSUME ResendTyped, NEW w \in Writers, NEW c \in Texts, item[w] = c, tried[w] = attempt[c],
         Ahead(w), Below(c), Here(w)
  PROVE  Spent(c)
  <1> DEFINE Unknown == {t \in Tries : journal[c][t] = "unknown"}
  <1>1. PICK t \in Tries : t <= attempt[c] /\ journal[c][t] = "unknown"
    BY DEF Below
  <1>2. tried[w] + 1 \in Unknown /\ t \in Unknown /\ t # tried[w] + 1
    BY <1>1, MemoryAssumption DEF ResendTyped, Here, Tries, MemoryAssumption
  <1>3. IsFiniteSet(Tries)
    BY FS_Interval, MemoryAssumption DEF Tries, MemoryAssumption
  <1>4. IsFiniteSet(Unknown)
    BY <1>3, FS_Subset
  <1>5. /\ {t} \union {tried[w] + 1} \subseteq Unknown
        /\ IsFiniteSet({t}) /\ Cardinality({t}) = 1
    BY <1>2, FS_Singleton
  <1>6. Cardinality({t} \union {tried[w] + 1}) = 2
    <2>1. tried[w] + 1 \notin {t}
      BY <1>2
    <2>2. Cardinality({t} \union {tried[w] + 1}) = Cardinality({t}) + 1
      BY <1>5, <2>1, FS_AddElement
    <2> QED BY <1>5, <2>2
  <1>7. Cardinality({t} \union {tried[w] + 1}) <= Cardinality(Unknown) /\ Cardinality(Unknown) \in Nat
    BY <1>4, <1>5, FS_Subset, FS_CardinalityType
  <1>8. Cardinality(Unknown) > 1
    <2> DEFINE two == Cardinality({t} \union {tried[w] + 1})
               many == Cardinality(Unknown)
    <2>1. two = 2 /\ two <= many /\ many \in Nat
      BY <1>6, <1>7
    <2> HIDE DEF two, many
    <2>2. many > 1
      BY <2>1
    <2> QED BY <2>2 DEF many
  <1> QED BY <1>8 DEF Spent

(* No request failed without an answer: the count of the text stands.            *)
LEMMA CountStands ==
  ASSUME ResendTyped, NEW w \in Writers, NEW c \in Texts, item[w] = c, tried[w] = attempt[c],
         UNCHANGED <<attempt, lease, mishaps, blind>>,
         \/ journal' = journal
         \/ Ahead(w) /\ \E row \in Rows : journal' = [journal EXCEPT ![c][tried[w] + 1] = row]
  PROVE  /\ Within(c, mishaps + 1) => Within(c, mishaps + 1)'
         /\ Within(c, Leeway(c)) => Within(c, Leeway(c))'
  <1>1. Below(c)' <=> Below(c)
    <2>1. CASE journal' = journal
      BY <2>1 DEF Below
    <2>2. CASE Ahead(w) /\ \E row \in Rows : journal' = [journal EXCEPT ![c][tried[w] + 1] = row]
      BY <2>2, BelowStays
    <2> QED BY <2>1, <2>2
  <1>2. Leeway(c)' = Leeway(c)
    BY DEF Leeway
  <1> QED BY <1>1, <1>2 DEF Within

LEMMA LooksResends ==
  ASSUME OneWriter, MemoryInv, ResendInv, NEW w \in Writers,
         CheckFile(w) \/ Begin(w) \/ CheckNewest(w) \/ \E answered \in BOOLEAN : ReadBack(w, answered)
  PROVE  LeftAlone' /\ \A v \in Writers : phase'[v] # "idle" => Sending(v)'
  <1>1. ResendTyped
    BY ResendTypes
  <1> PICK c \in Texts : item[w] = c
    BY <1>1 DEF CheckFile, Begin, CheckNewest, ReadBack, ResendTyped
  <1>2. /\ UNCHANGED <<attempt, lease, status, mishaps, blind, item, tried>>
        /\ phase[w] # "idle" /\ phase'[w] # "idle"
    BY <1>1 DEF CheckFile, Begin, CheckNewest, ReadBack, itemVars, taleVars, Goes, Fails, ResendTyped
  <1>3. Sending(w)
    BY <1>2 DEF ResendInv
  <1>4. tried[w] = attempt[c] /\ Within(c, mishaps + 1)
    BY <1>3 DEF Sending
  <1>5. \/ journal' = journal
        \/ Ahead(w) /\ journal' = [journal EXCEPT ![c][tried[w] + 1] = "pending"]
    BY DEF CheckFile, Begin, CheckNewest, ReadBack, Ahead
  <1>6. "pending" \in Rows
    BY DEF Rows
  <1>7. /\ phase'[w] \in {"claimed", "ready", "posting"} => phase[w] \in {"claimed", "ready", "posting"}
        /\ phase'[w] # "doubting"
        /\ phase'[w] = "failing" => cause'[w] \notin {"429", "connection"}
    BY <1>1 DEF CheckFile, Begin, CheckNewest, ReadBack, Goes, Fails, ResendTyped
  <1>8. /\ Within(c, mishaps + 1) => Within(c, mishaps + 1)'
        /\ Within(c, Leeway(c)) => Within(c, Leeway(c))'
    BY <1>1, <1>2, <1>4, <1>5, <1>6, CountStands
  <1>9. phase[w] \in {"claimed", "ready", "posting"} => Within(c, Leeway(c))
    BY <1>3 DEF Sending
  <1>10. blind' = [blind EXCEPT ![c] = blind'[c]]
    BY <1>1, <1>2 DEF ResendTyped
  <1> QED
    BY <1>1, <1>2, <1>3, <1>4, <1>5, <1>6, <1>7, <1>8, <1>9, <1>10, OnwardResends DEF ResendInv

LEMMA AnsweredResends ==
  ASSUME OneWriter, MemoryInv, ResendInv, NEW w \in Writers,
         \/ \E reply \in Replies, now \in BOOLEAN : Posted(w, reply, now)
         \/ \E why \in {"429", "permanent"} : Refused(w, why)
         \/ \E outcome \in Outcomes : Garbled(w, outcome)
  PROVE  LeftAlone' /\ \A v \in Writers : phase'[v] # "idle" => Sending(v)'
  <1>1. ResendTyped
    BY ResendTypes
  <1> PICK c \in Texts : item[w] = c
    BY <1>1 DEF Posted, Refused, Garbled, ResendTyped
  <1>2. /\ UNCHANGED <<attempt, lease, status, mishaps, blind, item, tried>>
        /\ phase[w] = "posting" /\ phase'[w] # "idle"
    BY <1>1 DEF Posted, Refused, Garbled, itemVars, taleVars, Goes, Fails, ResendTyped
  <1>3. Sending(w)
    BY <1>2 DEF ResendInv
  <1>4. tried[w] = attempt[c] /\ Within(c, mishaps + 1) /\ Within(c, Leeway(c))
    BY <1>2, <1>3 DEF Sending
  <1>5. PICK row \in Rows :
          journal' = journal \/ journal' = [journal EXCEPT ![c][tried[w] + 1] = row]
    BY DEF Posted, Refused, Garbled, Rows
  <1>6. Ahead(w)
    BY <1>2 DEF Ahead
  <1>7. phase'[w] \in {"deciding", "failing"}
    BY <1>1 DEF Posted, Refused, Garbled, Goes, Fails, ResendTyped
  <1>8. Within(c, mishaps + 1)' /\ Within(c, Leeway(c))'
    BY <1>1, <1>2, <1>4, <1>5, <1>6, CountStands
  <1>9. blind' = [blind EXCEPT ![c] = blind'[c]]
    BY <1>1, <1>2 DEF ResendTyped
  <1> QED
    BY <1>1, <1>2, <1>3, <1>5, <1>7, <1>8, <1>9, OnwardResends DEF ResendInv

LEMMA UnansweredResends ==
  ASSUME OneWriter, MemoryInv, ResendInv, NEW w \in Writers, NEW outcome \in Outcomes,
         Unanswered(w, outcome)
  PROVE  LeftAlone' /\ \A v \in Writers : phase'[v] # "idle" => Sending(v)'
  <1>1. ResendTyped
    BY ResendTypes
  <1> PICK c \in Texts : item[w] = c
    BY <1>1 DEF Unanswered, ResendTyped
  <1>2. /\ UNCHANGED <<attempt, lease, status, mishaps, item, tried>>
        /\ phase[w] = "posting" /\ phase'[w] = "doubting"
        /\ journal' = [journal EXCEPT ![c][tried[w] + 1] = "unknown"]
        /\ blind'[c] = blind[c] + 1 /\ blind' = [blind EXCEPT ![c] = blind'[c]]
    BY <1>1 DEF Unanswered, itemVars, Goes, ResendTyped
  <1>3. Sending(w)
    BY <1>2 DEF ResendInv
  <1>4. tried[w] = attempt[c] /\ Within(c, Leeway(c))
    BY <1>2, <1>3 DEF Sending
  <1>5. Ahead(w) /\ "unknown" \in Rows
    BY <1>2 DEF Ahead, Rows
  <1>6. Below(c)' <=> Below(c)
    BY <1>1, <1>2, <1>4, <1>5, BelowStays
  <1>7. /\ Leeway(c)' = Leeway(c) /\ Leeway(c) \in Int /\ Leeway(c) <= mishaps
        /\ mishaps \in Nat /\ mishaps' = mishaps /\ blind[c] \in Nat
    BY <1>1, <1>2 DEF Leeway, ResendTyped
  <1>8. Within(c, Leeway(c) + 1)'
    BY <1>2, <1>4, <1>6, <1>7 DEF Within
  <1>9. Within(c, mishaps + 1)'
    BY <1>2, <1>4, <1>6, <1>7 DEF Within
  <1>10. Here(w)'
    BY <1>1, <1>2, <1>5 DEF Here, ResendTyped
  <1> QED
    BY <1>1, <1>2, <1>3, <1>5, <1>8, <1>9, <1>10, OnwardResends DEF ResendInv

LEMMA DoubtResends ==
  ASSUME OneWriter, MemoryInv, ResendInv, NEW w \in Writers, NEW answered \in BOOLEAN,
         Doubt(w, answered)
  PROVE  LeftAlone' /\ \A v \in Writers : phase'[v] # "idle" => Sending(v)'
  <1>1. ResendTyped
    BY ResendTypes
  <1> PICK c \in Texts : item[w] = c
    BY <1>1 DEF Doubt, ResendTyped
  <1>2. /\ UNCHANGED <<attempt, lease, status, mishaps, blind, item, tried>> /\ phase[w] = "doubting"
        /\ \/ phase'[w] = "completing"
           \/ phase'[w] = "failing" /\ cause'[w] = "quarantine"
           \/ phase'[w] = "failing" /\ cause'[w] = "connection" /\ ~Spent(c) /\ UNCHANGED journal
        /\ \/ journal' = journal
           \/ journal' = [journal EXCEPT ![c][tried[w] + 1] = "recovered"]
    BY <1>1 DEF Doubt, itemVars, Goes, Fails, ResendTyped
  <1>3. Sending(w)
    BY <1>2 DEF ResendInv
  <1>4. /\ tried[w] = attempt[c] /\ Within(c, mishaps + 1)
        /\ Within(c, Leeway(c) + 1) /\ Here(w)
    BY <1>2, <1>3 DEF Sending
  <1>5. Ahead(w) /\ "recovered" \in Rows
    BY <1>2 DEF Ahead, Rows
  <1>6. Within(c, mishaps + 1)'
    BY <1>1, <1>2, <1>4, <1>5, CountStands
  <1>7. ASSUME phase'[w] = "failing", cause'[w] = "connection"
        PROVE  blind[c] <= Leeway(c) + 1 /\ Here(w)
    <2>1. ~Below(c)
      BY <1>1, <1>2, <1>4, <1>5, <1>7, TwoAreSpent
    <2> QED BY <1>4, <2>1 DEF Within
  <1>8. ASSUME phase'[w] = "failing", cause'[w] = "connection"
        PROVE  (blind[c] <= Leeway(c) + 1 /\ Here(w))'
    <2>1. journal' = journal
      BY <1>2, <1>8
    <2>2. Leeway(c)' = Leeway(c)
      BY <1>2 DEF Leeway
    <2> QED BY <1>2, <1>7, <1>8, <2>1, <2>2 DEF Here
  <1>9. blind' = [blind EXCEPT ![c] = blind'[c]]
    BY <1>1, <1>2 DEF ResendTyped
  <1>10. /\ phase'[w] # "idle" /\ phase'[w] # "doubting" /\ phase[w] # "idle"
         /\ ~(phase'[w] \in {"claimed", "ready", "posting"} \/ (phase'[w] = "failing" /\ cause'[w] = "429"))
    BY <1>2
  <1> QED
    BY <1>1, <1>2, <1>3, <1>5, <1>6, <1>8, <1>9, <1>10, OnwardResends DEF ResendInv

LEMMA DecideResends ==
  ASSUME OneWriter, MemoryInv, ResendInv, NEW w \in Writers, Decide(w)
  PROVE  LeftAlone' /\ \A v \in Writers : phase'[v] # "idle" => Sending(v)'
  <1>1. ResendTyped
    BY ResendTypes
  <1> PICK c \in Texts : item[w] = c
    BY <1>1 DEF Decide, ResendTyped
  <1>2. UNCHANGED <<attempt, mishaps>> /\ phase[w] = "deciding" /\ mishaps' \in Nat /\ mishaps <= mishaps'
    BY <1>1 DEF Decide, ResendTyped
  <1>3. CASE Forgets(c) /\ Rests(w)
    <2>1. \A d \in Texts \ {c} : attempt'[d] = attempt[d] /\ status'[d] = status[d]
      BY <1>1, <1>2 DEF Decide, ResendTyped
    <2> QED BY <1>1, <1>2, <1>3, <2>1, ForgetsResends, RestResends DEF ResendInv
  <1>4. CASE ~(Forgets(c) /\ Rests(w))
    <2>1. /\ UNCHANGED <<status, lease, journal, blind, item, tried>>
          /\ phase'[w] = "reading" \/ (phase'[w] = "failing" /\ cause'[w] \in {"quarantine", "permanent"})
      BY <1>1, <1>4 DEF Decide, Goes, Fails, ResendTyped
    <2>2. Sending(w)
      BY <1>2 DEF ResendInv
    <2>3. Within(c, mishaps + 1) /\ tried[w] = attempt[c]
      BY <2>2 DEF Sending
    <2>4. Within(c, mishaps + 1)'
      BY <1>1, <1>2, <2>1, <2>3, CountStands
    <2>5. blind' = [blind EXCEPT ![c] = blind'[c]] /\ "none" \in Rows
      BY <1>1, <2>1 DEF ResendTyped, Rows
    <2>6. /\ phase'[w] # "idle" /\ phase'[w] # "doubting" /\ phase[w] # "idle"
          /\ ~(phase'[w] \in {"claimed", "ready", "posting"}
               \/ (phase'[w] = "failing" /\ cause'[w] = "429"))
          /\ ~(phase'[w] = "failing" /\ cause'[w] = "connection")
      BY <1>2, <2>1
    <2> QED
      BY <1>1, <1>2, <2>1, <2>2, <2>4, <2>5, <2>6, OnwardResends DEF ResendInv
  <1> QED BY <1>3, <1>4

LEMMA ResendStep ==
  ASSUME OneWriter, MemoryInv, ResendInv, [MemoryNext]_memoryVars
  PROVE  ResendInv'
  <1>1. HeldTaken'
    BY HeldStep DEF ResendInv
  <1>2. LeftAlone' /\ \A v \in Writers : phase'[v] # "idle" => Sending(v)'
    <2>1. CASE \/ \E c \in Texts \union {NoText} : Edit(c)
               \/ Notice \/ ImportLegacy \/ Overlook
               \/ \E overran \in SUBSET Texts : GatewaySweep(overran)
               \/ \E c \in Texts : Land(c) \/ Lapse(c)
               \/ UNCHANGED memoryVars
      BY <2>1, WorldResends
    <2>2. CASE \E w \in Writers : Work(w) \/ Die(w) \/ \E c \in Texts : Claim(w, c) \/ Look(w, c)
      <3>1. PICK w \in Writers : Work(w) \/ Die(w) \/ \E c \in Texts : Claim(w, c) \/ Look(w, c)
        BY <2>2
      <3>2. CASE Work(w)
        BY <3>2, LooksResends, AnsweredResends, UnansweredResends, DoubtResends, DecideResends,
           EndResends DEF Work, Post
      <3> QED BY <3>1, <3>2, DieResends, ClaimResends, PollResends DEF Look
    <2> QED BY <2>1, <2>2 DEF MemoryNext
  <1> QED BY <1>1, <1>2 DEF ResendInv

(* "content/write response unknown after controlled resend": with a single writer  *)
(* a text is sent blindly twice, and once more for each death or lease that was     *)
(* overrun.                                                                    *)
THEOREM ResendsControlled == OneWriter => (MemorySpec => []ResendsAreControlled)
  <1> SUFFICES ASSUME OneWriter PROVE MemorySpec => []ResendsAreControlled
    OBVIOUS
  <1>1. MemoryInit => ResendInv
    BY MemoryAssumption
       DEF MemoryInit, ResendInv, HeldTaken, LeftAlone, Left, Within, MemoryAssumption
  <1>2. MemoryInv /\ ResendInv /\ [MemoryNext]_memoryVars => ResendInv'
    BY ResendStep
  <1>3. MemoryInv /\ ResendInv => ResendsAreControlled
    <2> SUFFICES ASSUME MemoryInv, ResendInv, NEW c \in Texts PROVE blind[c] <= 2 + mishaps
      BY DEF ResendsAreControlled
    <2>1. blind[c] \in Nat /\ mishaps \in Nat
      BY ResendTypes DEF ResendTyped
    <2>2. CASE \A w \in Writers : phase[w] = "idle" \/ item[w] # c
      <3>1. Within(c, mishaps) \/ Within(c, mishaps + 1)
        BY <2>2 DEF ResendInv, LeftAlone, Left
      <3> QED BY <2>1, <3>1 DEF Within
    <2>3. CASE \E w \in Writers : phase[w] # "idle" /\ item[w] = c
      <3>1. Within(c, mishaps + 1)
        BY <2>3 DEF ResendInv, Sending
      <3> QED BY <2>1, <3>1 DEF Within
    <2> QED BY <2>2, <2>3
  <1> QED BY <1>1, <1>2, <1>3, MemoryIsInformed, PTL DEF MemorySpec

-----------------------------------------------------------------------------
(* Attention *)

(* The alerts a pass holds: those it has still to tell and the one it is telling.  *)
Held(p) == queue[p] \union ({telling[p]} \ {0})

(* It tells only in its last step, and holds no more than there are faults.        *)
Tellers ==
  \A p \in Projectors :
    /\ telling[p] # 0 => at[p] = "telling"
    /\ Cardinality(Held(p)) <= Cardinality(Faults)

LEMMA FaultsFinite ==
  /\ IsFiniteSet(Faults) /\ Cardinality(Faults) \in Nat
  /\ IsFiniteSet(Alerts) /\ Cardinality(Alerts) = 3 * Cardinality(Faults)
  /\ Alerts \subseteq Nat \ {0}
  <1>1. IsFiniteSet(Faults) /\ Cardinality(Faults) \in Nat
    BY AttentionAssumption, FS_AddElement, FS_CardinalityType DEF AttentionAssumption, Faults
  <1>2. 3 * Cardinality(Faults) \in Int /\ 3 * Cardinality(Faults) >= 0
    BY <1>1
  <1>3. IsFiniteSet(Alerts) /\ Cardinality(Alerts) = 3 * Cardinality(Faults)
    BY <1>1, <1>2, FS_Interval DEF Alerts
  <1> QED BY <1>1, <1>3 DEF Alerts

LEMMA ProjectorPair == Projectors = {dispatcher, worker} /\ dispatcher # worker
  BY AttentionAssumption DEF AttentionAssumption, Projectors

(* No more alerts are open of some faults than there are faults among them.        *)
LEMMA OpensAreFew ==
  ASSUME open \in [Faults -> Alerts \union {0}], NEW S \in SUBSET Faults
  PROVE  LET opens == {open[f] : f \in S} \ {0}
         IN  IsFiniteSet(opens) /\ Cardinality(opens) <= Cardinality(S)
  <1> DEFINE T == {open[f] : f \in S}
             g == [f \in S |-> open[f]]
  <1>1. IsFiniteSet(S)
    BY FaultsFinite, FS_Subset
  <1>2. g \in Surjection(S, T)
    BY DEF Surjection
  <1> HIDE DEF g
  <1>3. IsFiniteSet(T) /\ Cardinality(T) <= Cardinality(S)
    BY <1>1, <1>2, FS_Surjection
  <1>4. IsFiniteSet(T \ {0}) /\ Cardinality(T \ {0}) <= Cardinality(T)
    BY <1>3, FS_Subset
  <1> HIDE DEF T
  <1>5. Cardinality(T \ {0}) <= Cardinality(S)
    BY <1>1, <1>3, <1>4, FS_CardinalityType
  <1> QED BY <1>4, <1>5 DEF T

(* There is an id for another alert whenever a fault has none.                    *)
LEMMA AnIdIsLeft ==
  ASSUME AttentionTypeOK, Tellers, NEW f \in Faults, open[f] = 0
  PROVE  Alerts \ Live # {}
  <1> DEFINE n == Cardinality(Faults)
             opens == {open[g] : g \in Faults \ {f}} \ {0}
  <1>1. n \in Nat /\ Cardinality(Faults \ {f}) = n - 1 /\ IsFiniteSet(Faults)
    BY FaultsFinite, FS_RemoveElement
  <1>2. IsFiniteSet(opens) /\ Cardinality(opens) <= n - 1
    BY <1>1, OpensAreFew, Faults \ {f} \in SUBSET Faults DEF AttentionTypeOK
  <1>3. \A p \in Projectors : IsFiniteSet(Held(p)) /\ Cardinality(Held(p)) <= n
    <2>1. \A p \in Projectors : Held(p) \subseteq Alerts
      BY DEF Held, AttentionTypeOK
    <2> QED BY <2>1, FaultsFinite, FS_Subset DEF Tellers
  <1>4. Live = opens \union (Held(dispatcher) \union Held(worker))
    <2>1. {open[g] : g \in Faults} \ {0} = opens
      BY Zenon
    <2>2. UNION {queue[p] \union {telling[p]} : p \in Projectors} =
            (queue[dispatcher] \union {telling[dispatcher]}) \union (queue[worker] \union {telling[worker]})
      BY ProjectorPair
    <2>3. 0 \notin queue[dispatcher] /\ 0 \notin queue[worker]
      BY ProjectorPair, FaultsFinite DEF AttentionTypeOK
    <2> HIDE DEF opens
    <2> QED BY <2>1, <2>2, <2>3 DEF Live, Held
  <1> HIDE DEF opens, n
  <1>5. IsFiniteSet(Live) /\ Cardinality(Live) <= (n - 1) + (n + n)
    <2> DEFINE both == Held(dispatcher) \union Held(worker)
    <2>1. IsFiniteSet(both) /\ Cardinality(both) <= n + n
      <3>1. /\ IsFiniteSet(Held(dispatcher)) /\ IsFiniteSet(Held(worker))
            /\ Cardinality(Held(dispatcher)) <= n /\ Cardinality(Held(worker)) <= n
        BY <1>3, ProjectorPair
      <3>2. /\ Cardinality(Held(dispatcher)) \in Nat /\ Cardinality(Held(worker)) \in Nat
            /\ Cardinality(Held(dispatcher) \cap Held(worker)) \in Nat
        BY <3>1, FS_CardinalityType, FS_Intersection
      <3>3. /\ IsFiniteSet(both)
            /\ Cardinality(both) = Cardinality(Held(dispatcher)) + Cardinality(Held(worker))
                                     - Cardinality(Held(dispatcher) \cap Held(worker))
        BY <3>1, FS_Union
      <3> HIDE DEF both
      <3> QED BY <1>1, <3>1, <3>2, <3>3 DEF n
    <2> HIDE DEF both
    <2>2. Live = opens \union both
      BY <1>4 DEF both
    <2>3. /\ Cardinality(opens) \in Nat /\ Cardinality(both) \in Nat
          /\ Cardinality(opens \cap both) \in Nat
      BY <1>2, <2>1, FS_CardinalityType, FS_Intersection
    <2>4. /\ IsFiniteSet(Live)
          /\ Cardinality(Live) = Cardinality(opens) + Cardinality(both) - Cardinality(opens \cap both)
      BY <1>2, <2>1, <2>2, FS_Union
    <2> QED BY <1>1, <1>2, <2>1, <2>3, <2>4 DEF n
  <1>6. ASSUME Alerts \subseteq Live PROVE FALSE
    <2>1. Cardinality(Alerts) <= Cardinality(Live)
      BY <1>5, <1>6, FS_Subset
    <2>2. Cardinality(Alerts) = 3 * n /\ Cardinality(Live) \in Nat
      BY <1>5, FaultsFinite, FS_CardinalityType DEF n
    <2> QED BY <1>1, <1>5, <2>1, <2>2 DEF n
  <1> QED BY <1>6

(* What a fault is given for an open alert is one, and the one it had if it had one. *)
LEMMA UpsertOpens ==
  ASSUME AttentionTypeOK, Tellers, NEW f \in Faults, Upsert(f)
  PROVE  /\ open' \in [Faults -> Alerts \union {0}] /\ open'[f] # 0
         /\ \A g \in Faults : open[g] # 0 \/ g # f => open'[g] = open[g]
  <1>1. CASE open[f] # 0
    BY <1>1 DEF Upsert, AttentionTypeOK
  <1>2. CASE open[f] = 0
    <2>1. (CHOOSE a \in Alerts \ Live : TRUE) \in Alerts
      BY <1>2, AnIdIsLeft
    <2> DEFINE id == CHOOSE a \in Alerts \ Live : TRUE
    <2>2. open' = [open EXCEPT ![f] = id]
      BY <1>2 DEF Upsert, AttentionTypeOK
    <2>3. id # 0
      BY <2>1, FaultsFinite
    <2> HIDE DEF id
    <2> QED BY <1>2, <2>1, <2>2, <2>3 DEF AttentionTypeOK, id
  <1> QED BY <1>1, <1>2

-----------------------------------------------------------------------------
(* The parts of the type invariant, by the kind of step that moves them *)

RowsOK ==
  /\ open \in [Faults -> Alerts \union {0}]
  /\ closed \in [Faults -> SUBSET {"resolved", "suppressed", "acknowledged"}]
  /\ evidence \subseteq Faults

NoticesOK == told \subseteq Alerts /\ notices \in [Alerts -> Nat]

ReadOK ==
  /\ at \in [Projectors -> Steps] /\ seen \in [Projectors -> SUBSET Canonical]
  /\ healthy \in [Projectors -> BOOLEAN] /\ hidden \in [Projectors -> SUBSET Faults]
  /\ todo \in [Projectors -> SUBSET Canonical]

TellingOK ==
  /\ queue \in [Projectors -> SUBSET Alerts] /\ telling \in [Projectors -> Alerts \union {0}]

WorldOK ==
  /\ fault \subseteq Faults /\ age \in 0..Grace
  /\ changes \in 0..MaxChanges /\ deaths \in 0..MaxDeaths

HistoryOK == stale \subseteq Projectors /\ calm \in {"no", "begun", "yes"}

LEMMA AttentionParts ==
  AttentionTypeOK <=> RowsOK /\ NoticesOK /\ ReadOK /\ TellingOK /\ WorldOK /\ HistoryOK
  BY DEF AttentionTypeOK, RowsOK, NoticesOK, ReadOK, TellingOK, WorldOK, HistoryOK

LEMMA KeepOK ==
  ASSUME NoticesOK, NEW known \in SUBSET Alerts, Keep(known)
  PROVE  NoticesOK'
  BY DEF NoticesOK, Keep

LEMMA TicksAreFew ==
  /\ Grace \in Nat \ {0} /\ MaxChanges \in Nat /\ MaxDeaths \in Nat
  BY AttentionAssumption DEF AttentionAssumption

LEMMA RowsStep == AttentionTypeOK /\ Tellers /\ AttentionStep => RowsOK'
  <1> SUFFICES ASSUME AttentionTypeOK, Tellers, AttentionStep PROVE RowsOK'
    OBVIOUS
  <1> USE DEF RowsOK
  <1>0. RowsOK
    BY AttentionParts
  <1>1. ASSUME UNCHANGED rowVars PROVE RowsOK'
    BY <1>0, <1>1 DEF rowVars
  <1>2. ASSUME NEW f \in Faults, Upsert(f), UNCHANGED <<closed, evidence>> PROVE RowsOK'
    BY <1>0, <1>2, UpsertOpens
  <1>3. CASE Tick
    <2>1. registry \in Faults
      BY DEF Faults
    <2> QED BY <1>0, <1>2, <1>3, <2>1 DEF Tick
  <1>4. ASSUME NEW p \in Projectors, NEW f \in Canonical, Raise(p, f) PROVE RowsOK'
    <2>1. f \in Faults
      BY DEF Faults
    <2> QED BY <1>2, <1>4, <2>1 DEF Raise
  <1>5. ASSUME NEW p \in Projectors, Resolve(p) PROVE RowsOK'
    <2>1. \A f \in Faults : ClosesAs(f) \subseteq {"resolved", "suppressed", "acknowledged"}
      BY DEF ClosesAs
    <2> QED BY <1>0, <1>5, <2>1 DEF Resolve
  <1>6. ASSUME NEW f \in Canonical, Suppress(f) PROVE RowsOK'
    <2>1. f \in Faults
      BY DEF Faults
    <2> QED BY <1>0, <1>6, <2>1 DEF Suppress
  <1>7. ASSUME NEW p \in Projectors, PassStep(p) \/ PassDies(p) PROVE RowsOK'
    <2>1. \/ UNCHANGED rowVars \/ Resolve(p)
          \/ \E f \in Canonical : Raise(p, f)
      BY <1>7 DEF PassStep, PassDies, Hide, List, RecordDelivery, PassEnds, Show
    <2> QED BY <1>1, <1>4, <1>5, <2>1
  <1>8. ASSUME \/ \E f \in Faults : Change(f)
               \/ Project \/ RunOnce
        PROVE  RowsOK'
    BY <1>1, <1>8 DEF Change, Project, RunOnce, Reads
  <1> QED BY <1>3, <1>6, <1>7, <1>8 DEF AttentionStep

LEMMA NoticesStep == AttentionTypeOK /\ AttentionStep => NoticesOK'
  <1> SUFFICES ASSUME AttentionTypeOK, AttentionStep PROVE NoticesOK'
    OBVIOUS
  <1>0. NoticesOK
    BY AttentionParts
  <1>1. CASE UNCHANGED noticeVars
    BY <1>0, <1>1 DEF NoticesOK, noticeVars
  <1>2. CASE Keep(told)
    BY <1>0, <1>2, KeepOK DEF NoticesOK
  <1>3. ASSUME NEW p \in Projectors, NEW a \in Alerts, Show(p, a) PROVE NoticesOK'
    BY <1>0, <1>3 DEF NoticesOK, Show
  <1>4. ASSUME NEW p \in Projectors, RecordDelivery(p) PROVE NoticesOK'
    <2>1. told \union {telling[p]} \in SUBSET Alerts
      BY <1>4 DEF RecordDelivery, AttentionTypeOK
    <2> QED BY <1>0, <1>4, <2>1, KeepOK DEF RecordDelivery
  <1>5. ASSUME NEW p \in Projectors, PassStep(p) \/ PassDies(p) PROVE NoticesOK'
    <2>1. \/ UNCHANGED noticeVars \/ Keep(told) \/ RecordDelivery(p)
          \/ \E a \in Alerts : Show(p, a)
      BY <1>5 DEF PassStep, PassDies, Hide, Raise, Resolve, List, PassEnds
    <2> QED BY <1>1, <1>2, <1>3, <1>4, <2>1
  <1>6. ASSUME \/ \E f \in Faults : Change(f)
               \/ Tick \/ Project \/ RunOnce
               \/ \E f \in Canonical : Suppress(f)
        PROVE  NoticesOK'
    <2>1. UNCHANGED noticeVars \/ Keep(told)
      BY <1>6 DEF Change, Tick, Project, RunOnce, Reads, Suppress
    <2> QED BY <1>1, <1>2, <2>1
  <1> QED BY <1>5, <1>6 DEF AttentionStep

LEMMA ReadStep == AttentionTypeOK /\ AttentionStep => ReadOK'
  <1> SUFFICES ASSUME AttentionTypeOK, AttentionStep PROVE ReadOK'
    OBVIOUS
  <1> USE DEF ReadOK
  <1>0. ReadOK
    BY AttentionParts
  <1>1. CASE UNCHANGED <<at, seen, healthy, hidden, todo>>
    BY <1>0, <1>1
  <1>2. CASE Tick
    BY <1>0, <1>2, ProjectorPair DEF Tick, Steps
  <1>3. ASSUME NEW p \in Projectors, NEW from, NEW to \in Steps, Proceeds(p, from, to), Reads(p)
        PROVE  ReadOK'
    BY <1>0, <1>3 DEF Proceeds, Reads
  <1>4. CASE Project \/ RunOnce
    BY <1>3, <1>4, ProjectorPair DEF Project, RunOnce, Steps
  <1>5. ASSUME NEW p \in Projectors, Hide(p) PROVE ReadOK'
    <2>1. Suppressed \subseteq Faults
      BY DEF Suppressed
    <2> QED BY <1>0, <1>5, <2>1 DEF Hide, Proceeds, Steps
  <1>6. ASSUME NEW p \in Projectors, Resolve(p) PROVE ReadOK'
    BY <1>0, <1>6 DEF Resolve, Proceeds, Steps
  <1>7. ASSUME NEW p \in Projectors, PassDies(p) PROVE ReadOK'
    BY <1>0, <1>7 DEF PassDies, Steps
  <1>8. ASSUME NEW p \in Projectors, NEW f \in Canonical, Raise(p, f) PROVE ReadOK'
    BY <1>0, <1>8 DEF Raise
  <1>9. ASSUME NEW p \in Projectors, List(p) \/ PassEnds(p) PROVE ReadOK'
    BY <1>0, <1>9 DEF List, PassEnds, Proceeds, Steps
  <1>10. ASSUME NEW p \in Projectors, \/ RecordDelivery(p) \/ \E a \in Alerts : Show(p, a)
         PROVE  ReadOK'
    BY <1>1, <1>10 DEF RecordDelivery, Show
  <1>11. ASSUME \/ \E f \in Faults : Change(f)
                \/ \E f \in Canonical : Suppress(f)
         PROVE  ReadOK'
    BY <1>1, <1>11 DEF Change, Suppress, passVars
  <1> QED
    BY <1>2, <1>4, <1>5, <1>6, <1>7, <1>8, <1>9, <1>10, <1>11 DEF AttentionStep, PassStep

LEMMA WorldStep == AttentionTypeOK /\ AttentionStep => WorldOK'
  <1> SUFFICES ASSUME AttentionTypeOK, AttentionStep PROVE WorldOK'
    OBVIOUS
  <1> USE DEF WorldOK
  <1>0. WorldOK
    BY AttentionParts
  <1>1. CASE UNCHANGED worldVars
    BY <1>0, <1>1 DEF worldVars
  <1>2. ASSUME NEW f \in Faults, Change(f) PROVE WorldOK'
    BY <1>0, <1>2, TicksAreFew DEF Change
  <1>3. CASE Tick
    BY <1>0, <1>3, TicksAreFew DEF Tick
  <1>4. ASSUME NEW p \in Projectors, PassDies(p) PROVE WorldOK'
    BY <1>0, <1>4, TicksAreFew DEF PassDies
  <1>5. ASSUME NEW p \in Projectors, PassStep(p) PROVE UNCHANGED worldVars
    BY <1>5 DEF PassStep, Hide, Raise, Resolve, List, RecordDelivery, PassEnds, Show, worldVars
  <1>6. ASSUME Project \/ RunOnce \/ \E f \in Canonical : Suppress(f)
        PROVE  UNCHANGED worldVars
    BY <1>6 DEF Project, RunOnce, Reads, Suppress
  <1> QED BY <1>1, <1>2, <1>3, <1>4, <1>5, <1>6 DEF AttentionStep

(* Steps that move what a pass holds: it lists, shows, records, ends or dies.      *)
LEMMA TellingStep ==
  AttentionTypeOK /\ Tellers /\ AttentionStep => TellingOK' /\ Tellers'
  <1> SUFFICES ASSUME AttentionTypeOK, Tellers, AttentionStep PROVE TellingOK' /\ Tellers'
    OBVIOUS
  <1>0. TellingOK /\ ReadOK /\ RowsOK
    BY AttentionParts
  <1>1. ASSUME NEW p \in Projectors, \A q \in Projectors \ {p} : at'[q] = at[q],
               queue' \in [Projectors -> SUBSET Alerts],
               telling' \in [Projectors -> Alerts \union {0}],
               \A q \in Projectors \ {p} : queue'[q] = queue[q] /\ telling'[q] = telling[q],
               telling'[p] # 0 => at'[p] = "telling",
               Held(p)' \subseteq Held(p) \/ Held(p)' \subseteq {open[f] : f \in Faults} \ {0}
        PROVE  TellingOK' /\ Tellers'
    <2>1. TellingOK'
      BY <1>1 DEF TellingOK
    <2>2. \A q \in Projectors : IsFiniteSet(Held(q))
      BY FaultsFinite, FS_Subset DEF Held, AttentionTypeOK
    <2>3. /\ IsFiniteSet({open[f] : f \in Faults} \ {0})
          /\ Cardinality({open[f] : f \in Faults} \ {0}) <= Cardinality(Faults)
      BY OpensAreFew DEF AttentionTypeOK
    <2>4. \A q \in Projectors : Cardinality(Held(q)) <= Cardinality(Faults)
      BY DEF Tellers
    <2>5. Cardinality(Held(p)') <= Cardinality(Faults)
      <3> DEFINE now == Held(p)'
      <3> HIDE DEF now
      <3>1. ASSUME NEW S, IsFiniteSet(S), Cardinality(S) <= Cardinality(Faults), now \subseteq S
            PROVE  Cardinality(now) <= Cardinality(Faults)
        <4>1. Cardinality(now) <= Cardinality(S) /\ IsFiniteSet(now)
          BY <3>1, FS_Subset
        <4>2. Cardinality(now) \in Nat /\ Cardinality(S) \in Nat
          BY <3>1, <4>1, FS_CardinalityType
        <4> QED BY <3>1, <4>1, <4>2, FaultsFinite
      <3>2. now \subseteq Held(p) \/ now \subseteq {open[f] : f \in Faults} \ {0}
        BY <1>1 DEF now
      <3> QED BY <2>2, <2>3, <2>4, <3>1, <3>2 DEF now
    <2>6. \A q \in Projectors \ {p} : Held(q)' = Held(q)
      BY <1>1 DEF Held
    <2> QED BY <1>1, <2>1, <2>4, <2>5, <2>6 DEF Tellers
  <1>2. ASSUME UNCHANGED <<queue, telling>>,
               \A q \in Projectors : at[q] = "telling" => at'[q] = "telling"
        PROVE  TellingOK' /\ Tellers'
    BY <1>0, <1>2 DEF TellingOK, Tellers, Held
  <1>3. ASSUME NEW p \in Projectors, List(p) PROVE TellingOK' /\ Tellers'
    <2>1. telling[p] = 0
      BY <1>3 DEF Tellers, List, Proceeds
    <2>2. {open[f] : f \in Faults} \ {0} \in SUBSET Alerts
      BY <1>0 DEF RowsOK
    <2>3. queue'[p] = {open[f] : f \in Faults} \ {0} /\ telling' = telling /\ at'[p] = "telling"
      BY <1>0, <1>3 DEF List, Proceeds, TellingOK, ReadOK
    <2>4. Held(p)' \subseteq {open[f] : f \in Faults} \ {0}
      BY <2>1, <2>3 DEF Held
    <2>5. /\ queue' \in [Projectors -> SUBSET Alerts]
          /\ \A q \in Projectors \ {p} : queue'[q] = queue[q] /\ at'[q] = at[q]
      BY <1>0, <1>3, <2>2 DEF List, Proceeds, TellingOK, ReadOK
    <2> QED BY <1>0, <1>1, <2>3, <2>4, <2>5 DEF TellingOK
  <1>4. ASSUME NEW p \in Projectors, NEW a \in Alerts, Show(p, a) PROVE TellingOK' /\ Tellers'
    <2>1. /\ queue'[p] = queue[p] \ {a} /\ telling'[p] = a /\ a \in queue[p]
          /\ at' = at /\ at[p] = "telling"
      BY <1>0, <1>4 DEF Show, TellingOK
    <2>2. Held(p)' \subseteq Held(p)
      BY <2>1 DEF Held
    <2>3. /\ queue' \in [Projectors -> SUBSET Alerts] /\ telling' \in [Projectors -> Alerts \union {0}]
          /\ \A q \in Projectors \ {p} : queue'[q] = queue[q] /\ telling'[q] = telling[q]
      BY <1>0, <1>4 DEF Show, TellingOK
    <2> QED BY <1>1, <2>1, <2>2, <2>3
  <1>5. ASSUME NEW p \in Projectors, RecordDelivery(p) \/ PassEnds(p) \/ PassDies(p)
        PROVE  TellingOK' /\ Tellers'
    <2>1. /\ queue'[p] \subseteq queue[p] /\ telling'[p] \in {telling[p], 0}
          /\ telling'[p] # 0 => FALSE
      BY <1>0, <1>5 DEF RecordDelivery, PassEnds, PassDies, TellingOK
    <2>2. Held(p)' \subseteq Held(p)
      BY <2>1 DEF Held
    <2>3. /\ queue' \in [Projectors -> SUBSET Alerts] /\ telling' \in [Projectors -> Alerts \union {0}]
          /\ \A q \in Projectors \ {p} :
                queue'[q] = queue[q] /\ telling'[q] = telling[q] /\ at'[q] = at[q]
      BY <1>0, <1>5 DEF RecordDelivery, PassEnds, PassDies, Proceeds, TellingOK, ReadOK
    <2> QED BY <1>1, <2>1, <2>2, <2>3
  <1>6. ASSUME NEW p \in Projectors, \/ Hide(p) \/ Resolve(p)
                                     \/ \E f \in Canonical : Raise(p, f)
        PROVE  TellingOK' /\ Tellers'
    BY <1>0, <1>2, <1>6 DEF Hide, Resolve, Raise, Proceeds, ReadOK
  <1>7. ASSUME \/ \E f \in Faults : Change(f)
               \/ Tick \/ Project \/ RunOnce
               \/ \E f \in Canonical : Suppress(f)
        PROVE  TellingOK' /\ Tellers'
    BY <1>0, <1>2, <1>7, ProjectorPair
    DEF Change, Tick, Project, RunOnce, Suppress, Reads, Proceeds, passVars, ReadOK
  <1> QED BY <1>3, <1>4, <1>5, <1>6, <1>7 DEF AttentionStep, PassStep

LEMMA AttentionTypeStep ==
  AttentionTypeOK /\ Tellers /\ [AttentionNext]_attentionVars => AttentionTypeOK' /\ Tellers'
  <1> SUFFICES ASSUME AttentionTypeOK, Tellers, [AttentionNext]_attentionVars
               PROVE  AttentionTypeOK' /\ Tellers'
    OBVIOUS
  <1>1. CASE AttentionNext
    <2>1. AttentionStep /\ History
      BY <1>1 DEF AttentionNext
    <2>2. HistoryOK'
      <3>1. stale' \subseteq Projectors
        BY <2>1 DEF History
      <3>2. calm' \in {"no", "begun", "yes"}
        BY <2>1, AttentionParts DEF History, HistoryOK
      <3> QED BY <3>1, <3>2 DEF HistoryOK
    <2>3. RowsOK' /\ NoticesOK' /\ ReadOK' /\ TellingOK' /\ WorldOK' /\ Tellers'
      BY <2>1, RowsStep, NoticesStep, ReadStep, TellingStep, WorldStep
    <2> QED BY <2>2, <2>3
            DEF AttentionTypeOK, RowsOK, NoticesOK, ReadOK, TellingOK, WorldOK, HistoryOK
  <1>2. CASE UNCHANGED attentionVars
    BY <1>2 DEF attentionVars, rowVars, noticeVars, passVars, worldVars, AttentionTypeOK, Tellers, Held
  <1> QED BY <1>1, <1>2

LEMMA AttentionTypeInit == AttentionInit => AttentionTypeOK /\ Tellers
  <1> SUFFICES ASSUME AttentionInit PROVE AttentionTypeOK /\ Tellers
    OBVIOUS
  <1>1. AttentionTypeOK
    BY TicksAreFew DEF AttentionInit, AttentionTypeOK, Steps
  <1>2. ASSUME NEW p \in Projectors PROVE Held(p) = {} /\ telling[p] = 0
    BY <1>2 DEF AttentionInit, Held
  <1> QED BY <1>1, <1>2, FaultsFinite, FS_EmptySet DEF Tellers

(* The ids never run out, for any number of faults, and every part has its type.   *)
THEOREM AttentionTypeCorrect == AttentionSpec => [](AttentionTypeOK /\ Tellers)
  BY AttentionTypeInit, AttentionTypeStep, PTL DEF AttentionSpec

-----------------------------------------------------------------------------
(* An alert not recorded was shown once for each death and once by each pass that   *)
(* is telling it.                                                             *)
Shows(p, a) == IF telling[p] = a THEN 1 ELSE 0

NoticesBounded ==
  \A a \in Alerts :
    /\ notices[a] <= deaths + 2
    /\ a \notin told => notices[a] <= deaths + Shows(dispatcher, a) + Shows(worker, a)

LEMMA NoticesBoundedStep ==
  AttentionTypeOK /\ NoticesBounded /\ [AttentionNext]_attentionVars => NoticesBounded'
  <1> SUFFICES ASSUME AttentionTypeOK, NoticesBounded, [AttentionNext]_attentionVars,
                      NEW a \in Alerts
               PROVE  /\ notices'[a] <= deaths' + 2
                      /\ a \notin told' =>
                           notices'[a] <= deaths' + Shows(dispatcher, a)' + Shows(worker, a)'
    BY DEF NoticesBounded
  <1> USE DEF Shows
  <1>0. /\ notices[a] \in Nat /\ deaths \in Nat /\ a # 0
        /\ dispatcher \in Projectors /\ worker \in Projectors /\ dispatcher # worker
        /\ told \subseteq Alerts /\ telling \in [Projectors -> Alerts \union {0}]
        /\ notices \in [Alerts -> Nat]
    BY TicksAreFew, FaultsFinite, ProjectorPair DEF AttentionTypeOK
  <1>1. /\ notices[a] <= deaths + 2
        /\ a \notin told => notices[a] <= deaths + Shows(dispatcher, a) + Shows(worker, a)
    BY DEF NoticesBounded
  <1>x. /\ Shows(dispatcher, a) \in Nat /\ Shows(worker, a) \in Nat
        /\ Shows(dispatcher, a)' \in Nat /\ Shows(worker, a)' \in Nat
    OBVIOUS
  <1>2. CASE UNCHANGED <<noticeVars, telling, deaths>>
    BY <1>1, <1>2 DEF noticeVars
  <1>3. ASSUME NEW known \in SUBSET Alerts, Keep(known), told \subseteq known,
               \/ a \in known
               \/ deaths' + Shows(dispatcher, a)' + Shows(worker, a)' >=
                    deaths + Shows(dispatcher, a) + Shows(worker, a),
               deaths' \in Nat, deaths' >= deaths
        PROVE  /\ notices'[a] <= deaths' + 2
               /\ a \notin told' =>
                    notices'[a] <= deaths' + Shows(dispatcher, a)' + Shows(worker, a)'
    <2>0. deaths' \in Nat
      BY <1>3, Zenon
    <2>1. \/ notices'[a] = 0
          \/ notices'[a] = notices[a] /\ (a \in told' <=> a \in known)
      BY <1>3 DEF Keep
    <2> HIDE DEF Shows
    <2>2. CASE notices'[a] = 0
      <3>0. \A d \in Nat : 0 <= d + 2
        OBVIOUS
      <3>1. 0 <= deaths' + 2
        BY <2>0, <3>0, Zenon
      <3>2. 0 <= deaths' + Shows(dispatcher, a)' + Shows(worker, a)'
        BY <1>x, <2>0
      <3> QED BY <2>2, <3>1, <3>2
    <2>3. CASE notices'[a] = notices[a] /\ (a \in told' <=> a \in known)
      <3>1. notices'[a] <= deaths' + 2
        BY <1>0, <1>1, <1>3, <2>3
      <3>2. ASSUME a \notin known
            PROVE  notices[a] <= deaths' + Shows(dispatcher, a)' + Shows(worker, a)'
        <4>1. notices[a] <= deaths + Shows(dispatcher, a) + Shows(worker, a)
          BY <1>1, <1>3, <3>2
        <4>2. deaths' + Shows(dispatcher, a)' + Shows(worker, a)' >=
                 deaths + Shows(dispatcher, a) + Shows(worker, a)
          BY <1>3, <3>2
        <4> QED BY <1>0, <1>x, <1>3, <4>1, <4>2
      <3> QED BY <2>3, <3>1, <3>2
    <2> QED BY <2>1, <2>2, <2>3
  <1>4. ASSUME NEW p \in Projectors, NEW b \in Alerts, Show(p, b)
        PROVE  /\ notices'[a] <= deaths' + 2
               /\ a \notin told' =>
                    notices'[a] <= deaths' + Shows(dispatcher, a)' + Shows(worker, a)'
    <2>1. /\ telling[p] = 0 /\ b \notin told /\ told' = told /\ deaths' = deaths
          /\ telling' = [telling EXCEPT ![p] = b] /\ notices' = [notices EXCEPT ![b] = @ + 1]
      BY <1>4 DEF Show, Told, worldVars
    <2>2. p = dispatcher \/ p = worker
      BY ProjectorPair
    <2>3. CASE a = b
      <3>1. notices'[a] = notices[a] + 1 /\ telling'[p] = a
        BY <1>0, <2>1, <2>3
      <3>2. CASE p = dispatcher
        BY <1>0, <1>1, <2>1, <2>3, <3>1, <3>2
      <3>3. CASE p = worker
        BY <1>0, <1>1, <2>1, <2>3, <3>1, <3>3
      <3> QED BY <2>2, <3>2, <3>3
    <2>4. CASE a # b
      BY <1>0, <1>1, <2>1, <2>4
    <2> QED BY <2>3, <2>4
  <1>5. ASSUME NEW p \in Projectors, RecordDelivery(p)
        PROVE  /\ notices'[a] <= deaths' + 2
               /\ a \notin told' =>
                    notices'[a] <= deaths' + Shows(dispatcher, a)' + Shows(worker, a)'
    <2>1. /\ Keep(told \union {telling[p]}) /\ deaths' = deaths /\ telling[p] # 0
          /\ telling' = [telling EXCEPT ![p] = 0]
      BY <1>5 DEF RecordDelivery, worldVars
    <2>2. told \union {telling[p]} \in SUBSET Alerts
      BY <1>0, <2>1
    <2>3. a \in told \union {telling[p]} \/ \A q \in Projectors : telling'[q] = a <=> telling[q] = a
      BY <1>0, <2>1
    <2> QED BY <1>0, <1>3, <2>1, <2>2, <2>3
  <1>6. ASSUME NEW p \in Projectors, PassDies(p)
        PROVE  /\ notices'[a] <= deaths' + 2
               /\ a \notin told' =>
                    notices'[a] <= deaths' + Shows(dispatcher, a)' + Shows(worker, a)'
    <2>1. Keep(told) /\ deaths' = deaths + 1 /\ telling' = [telling EXCEPT ![p] = 0]
      BY <1>6 DEF PassDies
    <2>2. \A q \in Projectors \ {p} : telling'[q] = telling[q]
      BY <1>0, <2>1
    <2>3. p = dispatcher \/ p = worker
      BY ProjectorPair
    <2> QED BY <1>0, <1>3, <2>1, <2>2, <2>3
  <1>7. ASSUME NEW p \in Projectors, Resolve(p) \/ PassEnds(p)
        PROVE  Keep(told) /\ UNCHANGED <<telling, deaths>>
    BY <1>7 DEF Resolve, PassEnds, worldVars
  <1>8. ASSUME NEW f \in Canonical, Suppress(f)
        PROVE  Keep(told) /\ UNCHANGED <<telling, deaths>>
    BY <1>8 DEF Suppress, worldVars, passVars
  <1>9. CASE Keep(told) /\ UNCHANGED <<telling, deaths>>
    BY <1>0, <1>3, <1>9
  <1>10. ASSUME NEW p \in Projectors, Hide(p) \/ List(p) \/ \E f \in Canonical : Raise(p, f)
         PROVE  UNCHANGED <<noticeVars, telling, deaths>>
    BY <1>10 DEF Hide, List, Raise, worldVars
  <1>11. ASSUME Tick \/ Project \/ RunOnce \/ \E f \in Faults : Change(f)
         PROVE  UNCHANGED <<noticeVars, telling, deaths>>
    BY <1>11 DEF Tick, Project, RunOnce, Reads, Change, passVars, worldVars
  <1>12. CASE UNCHANGED attentionVars
    BY <1>2, <1>12 DEF attentionVars, passVars, worldVars
  <1> QED
    BY <1>2, <1>4, <1>5, <1>6, <1>7, <1>8, <1>9, <1>10, <1>11, <1>12
    DEF AttentionNext, AttentionStep, PassStep

(* deliver_macos_notifications looks up whether an alert was shown in a transaction   *)
(* of its own before it shows it: only the other process and a death in between let   *)
(* it be shown again, whatever the passes.                                       *)
THEOREM NoticesAreFew == AttentionSpec => []FewNotices
  <1>1. AttentionInit => NoticesBounded
    BY TicksAreFew DEF AttentionInit, NoticesBounded, Shows
  <1>2. AttentionTypeOK /\ NoticesBounded => FewNotices
    <2>1. Cardinality(Projectors) = 2
      <3>1. Projectors = {dispatcher} \union {worker} /\ worker \notin {dispatcher}
        BY ProjectorPair
      <3>2. IsFiniteSet({dispatcher}) /\ Cardinality({dispatcher}) = 1
        BY FS_Singleton
      <3>3. Cardinality({dispatcher} \union {worker}) = Cardinality({dispatcher}) + 1
        BY <3>1, <3>2, FS_AddElement
      <3> QED BY <3>1, <3>2, <3>3
    <2> QED BY <2>1, TicksAreFew DEF NoticesBounded, FewNotices, AttentionTypeOK
  <1> QED BY <1>1, <1>2, AttentionTypeCorrect, NoticesBoundedStep, PTL DEF AttentionSpec

-----------------------------------------------------------------------------
(* What the passes know and leave behind *)

(* A pass that is not stale has read the database as it is.                       *)
Current ==
  \A p \in Projectors : p \notin stale =>
    /\ at[p] \in {"looked", "raising"} =>
         seen[p] = fault \intersect Canonical /\ healthy[p] = (age < Grace)
    /\ at[p] = "raising" => hidden[p] = Suppressed /\ todo[p] \subseteq seen[p] \ hidden[p]

(* Since the pass of the dispatcher that began with no stale one about.             *)
Quiet ==
  calm # "no" =>
    /\ stale = {}
    /\ registry \in fault => age = Grace /\ open[registry] # 0
    /\ registry \notin fault => age < Grace

(* That pass, while it goes on, has opened what it found, but for what it has still  *)
(* to open.                                                                   *)
Begun ==
  calm = "begun" =>
    /\ at[dispatcher] # "idle"
    /\ at[dispatcher] = "raising" =>
         \A f \in (seen[dispatcher] \ hidden[dispatcher]) \ todo[dispatcher] : open[f] # 0

(* It has closed the rest.                                                       *)
Reconciled == calm = "yes" \/ (calm = "begun" /\ at[dispatcher] \in {"listing", "telling"})

RowsFollow == Reconciled => \A f \in Faults : open[f] # 0 <=> Due(f)

(* The alerts open are told, or in its hands.                                     *)
TellsFollow ==
  /\ calm = "begun" /\ at[dispatcher] = "telling" =>
       \A f \in Faults : open[f] # 0 =>
         open[f] \in told \union queue[dispatcher] \union {telling[dispatcher]}
  /\ calm = "yes" => \A f \in Faults : open[f] # 0 => open[f] \in told

FollowInv == Current /\ Quiet /\ Begun /\ RowsFollow /\ TellsFollow

LEMMA FaultKinds ==
  Canonical \subseteq Faults /\ registry \in Faults /\ registry \notin Canonical
  /\ Faults \ Canonical = {registry}
  BY AttentionAssumption DEF AttentionAssumption, Faults

(* What a step does to a pass.                                                  *)
LEMMA PassMoves ==
  ASSUME AttentionTypeOK, AttentionStep, NEW p \in Projectors
  PROVE  \/ at'[p] = at[p] /\ UNCHANGED <<seen[p], healthy[p], hidden[p], todo[p]>>
         \/ at'[p] \notin {"looked", "raising"}
         \/ /\ at'[p] = "looked" /\ seen'[p] = fault \intersect Canonical
            /\ healthy'[p] = (age < Grace)
         \/ Hide(p)
         \/ \E f \in Canonical : Raise(p, f)
  <1>0. ReadOK
    BY AttentionParts
  <1> DEFINE Same == at'[p] = at[p] /\ UNCHANGED <<seen[p], healthy[p], hidden[p], todo[p]>>
             Reading == /\ at'[p] = "looked" /\ seen'[p] = fault \intersect Canonical
                        /\ healthy'[p] = (age < Grace)
  <1>1. ASSUME Tick PROVE Same \/ at'[p] \notin {"looked", "raising"}
    BY <1>0, <1>1 DEF Tick, ReadOK
  <1>2. ASSUME NEW q \in Projectors, NEW from, Proceeds(q, from, "looked"), Reads(q)
        PROVE  Same \/ Reading
    BY <1>0, <1>2 DEF Proceeds, Reads, ReadOK
  <1>3. ASSUME Project \/ RunOnce PROVE Same \/ Reading
    BY <1>2, <1>3, ProjectorPair DEF Project, RunOnce
  <1>4. ASSUME NEW q \in Projectors, q # p, Hide(q) \/ \E f \in Canonical : Raise(q, f)
        PROVE  Same
    BY <1>0, <1>4 DEF Hide, Raise, Proceeds, ReadOK
  <1>5. ASSUME NEW q \in Projectors, Resolve(q) \/ List(q) \/ PassEnds(q) \/ PassDies(q)
        PROVE  Same \/ at'[p] \notin {"looked", "raising"}
    BY <1>0, <1>5 DEF Resolve, List, PassEnds, PassDies, Proceeds, ReadOK
  <1>6. ASSUME NEW q \in Projectors, RecordDelivery(q) \/ \E a \in Alerts : Show(q, a)
        PROVE  Same
    BY <1>6 DEF RecordDelivery, Show
  <1>7. ASSUME \/ \E f \in Faults : Change(f)
               \/ \E f \in Canonical : Suppress(f)
        PROVE  Same
    BY <1>7 DEF Change, Suppress, passVars
  <1> QED
    BY <1>1, <1>3, <1>4, <1>5, <1>6, <1>7 DEF AttentionStep, PassStep

LEMMA CurrentStep ==
  AttentionTypeOK /\ Current /\ AttentionNext => Current'
  <1> SUFFICES ASSUME AttentionTypeOK, Current, AttentionStep, History,
                      NEW p \in Projectors, p \notin stale'
               PROVE  /\ at'[p] \in {"looked", "raising"} =>
                           seen'[p] = fault' \intersect Canonical /\ healthy'[p] = (age' < Grace)
                      /\ at'[p] = "raising" =>
                           hidden'[p] = Suppressed' /\ todo'[p] \subseteq seen'[p] \ hidden'[p]
    BY DEF AttentionNext, Current
  <1>0. ReadOK
    BY AttentionParts
  <1>1. CASE at'[p] \notin {"looked", "raising"}
    BY <1>1
  <1>2. CASE at[p] = "idle" /\ at'[p] \in {"looked", "raising"}
    <2>1. Reads(p) /\ at'[p] = "looked"
      <3>1. CASE RunOnce
        BY <1>0, <1>2, <3>1, ProjectorPair DEF RunOnce, Proceeds, ReadOK
      <3>2. CASE Project
        BY <1>0, <1>2, <3>2 DEF Project, Proceeds, ReadOK
      <3>3. CASE Tick
        BY <1>0, <1>2, <3>3 DEF Tick, ReadOK
      <3>4. CASE \E q \in Projectors : PassStep(q) \/ PassDies(q)
        BY <1>0, <1>2, <3>4 DEF PassStep, PassDies, Hide, Raise, Resolve, List, Show, RecordDelivery,
                                PassEnds, Proceeds, ReadOK
      <3>5. CASE (\E f \in Faults : Change(f)) \/ (\E f \in Canonical : Suppress(f))
        BY <1>2, <3>5 DEF Change, Suppress, passVars
      <3> QED BY <3>1, <3>2, <3>3, <3>4, <3>5 DEF AttentionStep
    <2> QED BY <1>0, <2>1 DEF Reads, worldVars, ReadOK
  <1>3. CASE at[p] # "idle" /\ at'[p] \in {"looked", "raising"}
    <2>1. ~Changed /\ p \notin stale
      BY <1>3 DEF History
    <2>2. fault' = fault /\ age' = age /\ Suppressed' = Suppressed
      BY <2>1 DEF Changed
    <2>3. CASE Hide(p)
      <3>1. /\ seen' = seen /\ healthy' = healthy /\ at[p] = "looked"
            /\ hidden'[p] = Suppressed /\ todo'[p] = seen[p] \ Suppressed
        BY <1>0, <2>3 DEF Hide, Proceeds, ReadOK
      <3> QED BY <2>1, <2>2, <3>1 DEF Current
    <2>4. ASSUME NEW f \in Canonical, Raise(p, f)
          PROVE  /\ UNCHANGED <<seen, healthy, hidden, at>> /\ at[p] = "raising"
                 /\ todo'[p] \subseteq todo[p]
      BY <1>0, <2>4 DEF Raise, ReadOK
    <2>5. CASE \E f \in Canonical : Raise(p, f)
      BY <2>1, <2>2, <2>4, <2>5 DEF Current
    <2>6. CASE at'[p] = at[p] /\ UNCHANGED <<seen[p], healthy[p], hidden[p], todo[p]>>
      BY <2>1, <2>2, <2>6 DEF Current
    <2>7. CASE /\ at'[p] = "looked" /\ seen'[p] = fault \intersect Canonical
               /\ healthy'[p] = (age < Grace)
      BY <2>2, <2>7
    <2> QED BY <1>3, <2>3, <2>5, <2>6, <2>7, PassMoves
  <1> QED BY <1>1, <1>2, <1>3

(* How a step changes the open alerts.                                            *)
LEMMA OpenMoves ==
  ASSUME AttentionTypeOK, Tellers, AttentionStep
  PROVE  \/ open' = open
         \/ Tick /\ registry \in fault
         \/ \E p \in Projectors, f \in Canonical : Raise(p, f)
         \/ \E p \in Projectors : Resolve(p)
         \/ \E f \in Canonical : Suppress(f)
  BY DEF AttentionStep, PassStep, Change, Tick, Project, RunOnce, Reads, Hide, List, RecordDelivery,
         PassEnds, Show, PassDies, rowVars

(* Faults, freshness and suppression have not changed: no operator suppressed, no    *)
(* fault came or went.                                                         *)
LEMMA Unchanging ==
  ASSUME AttentionTypeOK, AttentionStep, ~Changed
  PROVE  /\ fault' = fault /\ age' = age /\ Suppressed' = Suppressed
         /\ \A f \in Faults : ~Change(f) /\ Due(f)' = Due(f)
         /\ \A f \in Canonical : ~Suppress(f)
  <1>1. fault' = fault /\ age' = age /\ Suppressed' = Suppressed
    BY DEF Changed
  <1>2. ASSUME NEW f \in Faults, Change(f) PROVE FALSE
    BY <1>1, <1>2 DEF Change
  <1>3. ASSUME NEW f \in Canonical, Suppress(f) PROVE FALSE
    <2>1. f \in Faults /\ f \notin Suppressed
      BY <1>3 DEF Faults, Suppress
    <2>2. "suppressed" \in closed'[f]
      BY <1>3, <2>1 DEF Suppress, AttentionTypeOK
    <2>3. f \in Suppressed'
      BY <2>1, <2>2 DEF Suppressed
    <2> QED BY <1>1, <2>1, <2>3
  <1> QED BY <1>1, <1>2, <1>3 DEF Due

(* A current pass closes no alert that is due, and none at all once the rest is     *)
(* closed.                                                                    *)
LEMMA ResolvesTheRest ==
  ASSUME AttentionTypeOK, Current, Quiet, calm # "no", NEW p \in Projectors, Resolve(p),
         NEW f \in Faults
  PROVE  open'[f] = IF Due(f) THEN open[f] ELSE 0
  <1>1. at[p] = "raising" /\ p \notin stale
    BY DEF Resolve, Proceeds, Quiet
  <1>2. /\ seen[p] = fault \intersect Canonical /\ healthy[p] = (age < Grace)
        /\ hidden[p] = Suppressed
    BY <1>1 DEF Current
  <1>3. open'[f] = IF f \in Resolvable(p) /\ open[f] # 0 /\ f \notin seen[p] \ hidden[p]
                   THEN 0 ELSE open[f]
    BY DEF Resolve
  <1>4. CASE f \in Canonical
    <2>1. f \in Resolvable(p)
      BY <1>4, FaultKinds DEF Resolvable
    <2>2. Due(f) <=> f \in seen[p] \ hidden[p]
      BY <1>2, <1>4 DEF Due
    <2> QED BY <1>3, <2>1, <2>2
  <1>5. CASE f = registry
    <2>1. f \notin seen[p] /\ f \notin Canonical
      BY <1>2, <1>5, FaultKinds
    <2>2. CASE registry \in fault
      <3>1. age = Grace
        BY <2>2 DEF Quiet
      <3>2. Due(f)
        BY <1>5, <2>1, <2>2, <3>1 DEF Due
      <3>3. ~(age < Grace)
        BY <3>1, TicksAreFew
      <3>4. f \notin Resolvable(p)
        BY <1>2, <2>1, <3>3 DEF Resolvable
      <3> QED BY <1>3, <3>2, <3>4
    <2>3. CASE registry \notin fault
      <3>1. ~Due(f)
        BY <1>5, <2>3 DEF Due
      <3>2. age < Grace
        BY <2>3 DEF Quiet
      <3>3. f \in Resolvable(p)
        BY <1>2, <3>2 DEF Resolvable
      <3> QED BY <1>3, <2>1, <3>1, <3>3
    <2> QED BY <2>2, <2>3
  <1> QED BY <1>4, <1>5, FaultKinds

(* What a current pass has still to raise is due.                                  *)
LEMMA RaisesTheDue ==
  ASSUME AttentionTypeOK, Current, Quiet, calm # "no", NEW p \in Projectors,
         NEW f \in Canonical, Raise(p, f)
  PROVE  f \in Faults /\ Due(f)
  <1>1. at[p] = "raising" /\ p \notin stale /\ f \in todo[p]
    BY DEF Raise, Quiet
  <1>2. f \in fault /\ f \notin Suppressed
    BY <1>1 DEF Current
  <1> QED BY <1>2, FaultKinds DEF Due

(* Before and after that pass, an open alert that is due stays open.                *)
LEMMA DueStayOpen ==
  ASSUME AttentionTypeOK, Tellers, Current, Quiet, calm # "no", AttentionStep, ~Changed,
         NEW f \in Faults, Due(f), open[f] # 0
  PROVE  open'[f] = open[f]
  <1>1. ASSUME NEW g \in Faults, Upsert(g) PROVE open'[f] = open[f]
    BY <1>1, UpsertOpens
  <1>2. CASE Tick /\ registry \in fault
    BY <1>1, <1>2, FaultKinds DEF Tick
  <1>3. ASSUME NEW p \in Projectors, NEW g \in Canonical, Raise(p, g) PROVE open'[f] = open[f]
    <2>1. g \in Faults
      BY FaultKinds
    <2> QED BY <1>1, <1>3, <2>1 DEF Raise
  <1>4. ASSUME NEW p \in Projectors, Resolve(p) PROVE open'[f] = open[f]
    BY <1>4, ResolvesTheRest
  <1> QED BY <1>2, <1>3, <1>4, OpenMoves, Unchanging

(* Once the alerts are those that are due no pass changes them.                     *)
LEMMA RowsStayPut ==
  ASSUME AttentionTypeOK, Tellers, Current, Quiet, RowsFollow, Reconciled, AttentionStep, ~Changed,
         NEW f \in Faults
  PROVE  open'[f] = open[f]
  <1>1. calm # "no" /\ (open[f] # 0 <=> Due(f))
    BY DEF Reconciled, RowsFollow
  <1>2. CASE Due(f)
    BY <1>1, <1>2, DueStayOpen
  <1>3. CASE ~Due(f)
    <2>1. CASE Tick /\ registry \in fault
      <3>1. f # registry
        BY <1>1, <1>3, <2>1 DEF Quiet
      <3>2. Upsert(registry)
        BY <2>1 DEF Tick
      <3> QED BY <1>1, <1>3, <3>1, <3>2, FaultKinds DEF Upsert, AttentionTypeOK
    <2>2. ASSUME NEW p \in Projectors, NEW g \in Canonical, Raise(p, g) PROVE open'[f] = open[f]
      <3>1. g \in Faults /\ Due(g)
        BY <1>1, <2>2, RaisesTheDue
      <3>2. open[g] # 0
        BY <3>1 DEF RowsFollow
      <3>3. open' = [open EXCEPT ![g] = open[g]]
        BY <2>2, <3>2, <3>1 DEF Raise, Upsert, AttentionTypeOK
      <3> QED BY <3>1, <3>3 DEF AttentionTypeOK
    <2>3. ASSUME NEW p \in Projectors, Resolve(p) PROVE open'[f] = open[f]
      BY <1>1, <1>3, <2>3, ResolvesTheRest
    <2> QED BY <2>1, <2>2, <2>3, OpenMoves, Unchanging
  <1> QED BY <1>2, <1>3

(* The steps of the dispatcher in its pass.                                       *)
LEMMA DispatcherMoves ==
  ASSUME AttentionTypeOK, AttentionStep, at'[dispatcher] # at[dispatcher]
  PROVE  \/ Tick /\ at[dispatcher] = "idle" /\ at'[dispatcher] = "looking"
         \/ at[dispatcher] = "looking" /\ at'[dispatcher] = "looked"
         \/ at[dispatcher] = "looked" /\ at'[dispatcher] = "raising"
         \/ Resolve(dispatcher) /\ at[dispatcher] = "raising" /\ at'[dispatcher] = "listing"
         \/ List(dispatcher) /\ at[dispatcher] = "listing" /\ at'[dispatcher] = "telling"
         \/ PassEnds(dispatcher) /\ at[dispatcher] = "telling" /\ at'[dispatcher] = "idle"
         \/ PassDies(dispatcher) /\ at'[dispatcher] = "idle" /\ deaths' # deaths
  <1>0. at \in [Projectors -> Steps] /\ dispatcher \in Projectors /\ dispatcher # worker /\ deaths \in Nat
    BY ProjectorPair, TicksAreFew DEF AttentionTypeOK
  <1>1. ASSUME NEW q \in Projectors, NEW from, NEW to, Proceeds(q, from, to)
        PROVE  q = dispatcher /\ at[dispatcher] = from /\ at'[dispatcher] = to
    BY <1>0, <1>1 DEF Proceeds
  <1>2. CASE Tick
    BY <1>0, <1>2 DEF Tick
  <1>3. CASE Project \/ RunOnce
    BY <1>0, <1>1, <1>3, ProjectorPair DEF Project, RunOnce
  <1>4. ASSUME NEW p \in Projectors, Hide(p)
        PROVE  at[dispatcher] = "looked" /\ at'[dispatcher] = "raising"
    BY <1>1, <1>4 DEF Hide
  <1>5. ASSUME NEW p \in Projectors, Resolve(p)
        PROVE  p = dispatcher /\ at[dispatcher] = "raising" /\ at'[dispatcher] = "listing"
    BY <1>1, <1>5 DEF Resolve
  <1>6. ASSUME NEW p \in Projectors, List(p)
        PROVE  p = dispatcher /\ at[dispatcher] = "listing" /\ at'[dispatcher] = "telling"
    BY <1>1, <1>6 DEF List
  <1>7. ASSUME NEW p \in Projectors, PassEnds(p)
        PROVE  p = dispatcher /\ at[dispatcher] = "telling" /\ at'[dispatcher] = "idle"
    BY <1>1, <1>7 DEF PassEnds
  <1>8. ASSUME NEW p \in Projectors, PassDies(p)
        PROVE  p = dispatcher /\ at'[dispatcher] = "idle" /\ deaths' # deaths
    BY <1>0, <1>8 DEF PassDies
  <1>9. ASSUME NEW p \in Projectors, \/ RecordDelivery(p)
                                     \/ \E f \in Canonical : Raise(p, f)
                                     \/ \E a \in Alerts : Show(p, a)
        PROVE  FALSE
    BY <1>9 DEF RecordDelivery, Raise, Show
  <1>10. ASSUME \/ \E f \in Faults : Change(f)
                \/ \E f \in Canonical : Suppress(f)
         PROVE  FALSE
    BY <1>10 DEF Change, Suppress, passVars
  <1> QED
    BY <1>2, <1>3, <1>4, <1>5, <1>6, <1>7, <1>8, <1>9, <1>10 DEF AttentionStep, PassStep

LEMMA QuietStep ==
  AttentionTypeOK /\ Tellers /\ Current /\ Quiet /\ AttentionNext => Quiet'
  <1> SUFFICES ASSUME AttentionTypeOK, Tellers, Current, Quiet, AttentionStep, History, calm' # "no"
               PROVE  /\ stale' = {}
                      /\ registry \in fault' => age' = Grace /\ open'[registry] # 0
                      /\ registry \notin fault' => age' < Grace
    BY DEF AttentionNext, Quiet
  <1>1. ~Changed /\ (calm = "no" => Began(dispatcher) /\ stale = {})
    BY DEF History
  <1>2. fault' = fault /\ age' = age
    BY <1>1 DEF Changed
  <1>3. stale' = {}
    <2>1. stale = {}
      BY <1>1 DEF Quiet
    <2> QED BY <1>1, <2>1 DEF History
  <1>4. CASE calm = "no"
    <2>1. Tick
      BY <1>1, <1>4, DispatcherMoves DEF Began
    <2>2. CASE registry \in fault
      <3>1. age' = Grace
        BY <1>2, <2>1, <2>2, TicksAreFew DEF Tick, AttentionTypeOK
      <3>2. open'[registry] # 0
        BY <2>1, <2>2, UpsertOpens, FaultKinds DEF Tick
      <3> QED BY <1>2, <1>3, <2>2, <3>1, <3>2
    <2>3. CASE registry \notin fault
      <3>1. age' < Grace
        BY <2>1, <2>3, TicksAreFew DEF Tick
      <3> QED BY <1>2, <1>3, <2>3, <3>1
    <2> QED BY <2>2, <2>3
  <1>5. CASE calm # "no"
    <2>1. ASSUME registry \in fault PROVE open'[registry] # 0
      <3>1. open[registry] # 0 /\ Due(registry)
        BY <1>5, <2>1, FaultKinds DEF Quiet, Due
      <3> QED BY <1>1, <1>5, <3>1, DueStayOpen, FaultKinds
    <2> QED BY <1>2, <1>3, <1>5, <2>1 DEF Quiet
  <1> QED BY <1>4, <1>5

LEMMA BegunStep ==
  AttentionTypeOK /\ Tellers /\ Current /\ Quiet /\ Begun /\ AttentionNext => Begun'
  <1> SUFFICES ASSUME AttentionTypeOK, Tellers, Current, Quiet, Begun, AttentionStep, History,
                      calm' = "begun"
               PROVE  /\ at'[dispatcher] # "idle"
                      /\ at'[dispatcher] = "raising" =>
                           \A f \in (seen'[dispatcher] \ hidden'[dispatcher]) \ todo'[dispatcher] :
                             open'[f] # 0
    BY DEF AttentionNext, Begun
  <1>0. ReadOK /\ dispatcher \in Projectors /\ dispatcher # worker
    BY AttentionParts, ProjectorPair
  <1>1. ~Changed /\ at'[dispatcher] # "idle"
    BY DEF History, Began
  <1>2. CASE calm = "no"
    <2>1. at[dispatcher] = "idle"
      BY <1>2 DEF History, Began
    <2>2. at'[dispatcher] # "raising"
      <3>1. ASSUME Hide(dispatcher) \/ \E f \in Canonical : Raise(dispatcher, f) PROVE FALSE
        BY <2>1, <3>1 DEF Hide, Raise, Proceeds
      <3> QED BY <1>0, <2>1, <3>1, PassMoves
    <2> QED BY <1>1, <2>2
  <1>3. ASSUME calm # "no", at'[dispatcher] = "raising",
               NEW f \in (seen'[dispatcher] \ hidden'[dispatcher]) \ todo'[dispatcher]
        PROVE  open'[f] # 0
    <2>0. calm = "begun"
      BY <1>3 DEF History
    <2>1. CASE Hide(dispatcher)
      BY <1>0, <1>3, <2>1 DEF Hide, ReadOK
    <2>2. ASSUME NEW g \in Canonical, Raise(dispatcher, g) PROVE open'[f] # 0
      <3>1. /\ UNCHANGED <<seen, hidden>> /\ todo'[dispatcher] = todo[dispatcher] \ {g}
            /\ at[dispatcher] = "raising" /\ Upsert(g) /\ g \in Faults
        BY <1>0, <2>2, FaultKinds DEF Raise, ReadOK
      <3>2. f \in Faults
        BY <1>0, <1>3, <3>1, FaultKinds DEF ReadOK
      <3>3. f = g \/ open[f] # 0
        BY <1>3, <2>0, <3>1 DEF Begun
      <3>4. /\ open'[g] # 0 /\ \A h \in Faults : open[h] # 0 \/ h # g => open'[h] = open[h]
        BY <3>1, UpsertOpens
      <3> QED BY <3>2, <3>3, <3>4
    <2>3. CASE at'[dispatcher] = at[dispatcher] /\ UNCHANGED <<seen[dispatcher], healthy[dispatcher],
                                                              hidden[dispatcher], todo[dispatcher]>>
      <3>1. open[f] # 0 /\ f \in seen[dispatcher] \ hidden[dispatcher] /\ at[dispatcher] = "raising"
        BY <1>3, <2>0, <2>3 DEF Begun
      <3>2. dispatcher \notin stale
        BY <1>3 DEF Quiet
      <3>3. f \in Faults /\ Due(f)
        BY <1>0, <3>1, <3>2, FaultKinds DEF Current, Due
      <3> QED BY <1>1, <1>3, <3>1, <3>3, DueStayOpen
    <2> QED BY <1>0, <1>3, <2>1, <2>2, <2>3, PassMoves
  <1> QED BY <1>1, <1>2, <1>3
LEMMA RowsFollowStep ==
  AttentionTypeOK /\ Tellers /\ Current /\ Quiet /\ Begun /\ RowsFollow /\ AttentionNext => RowsFollow'
  <1> SUFFICES ASSUME AttentionTypeOK, Tellers, Current, Quiet, Begun, RowsFollow, AttentionStep,
                      History, Reconciled', NEW f \in Faults
               PROVE  open'[f] # 0 <=> Due(f)'
    BY DEF AttentionNext, RowsFollow
  <1>1. calm' # "no" /\ ~Changed
    BY DEF Reconciled, History
  <1>2. Due(f)' = Due(f)
    BY <1>1, Unchanging
  <1>3. CASE Reconciled
    <2>1. open'[f] = open[f]
      BY <1>1, <1>3, RowsStayPut
    <2> QED BY <1>2, <1>3, <2>1 DEF RowsFollow
  <1>4. CASE ~Reconciled
    <2>1. calm # "yes" /\ ~(calm = "begun" /\ at[dispatcher] \in {"listing", "telling"})
      BY <1>4 DEF Reconciled
    <2>2. calm = "no" => at[dispatcher] = "idle" /\ at'[dispatcher] # "idle" /\ calm' = "begun"
      BY <1>1 DEF History, Began
    <2>3. calm = "begun" => at[dispatcher] # "idle"
      BY DEF Begun
    <2>4. calm = "begun" /\ calm' = "yes" => at'[dispatcher] = "idle" /\ deaths' = deaths
      BY <1>1 DEF History
    <2>5. calm' = "yes" \/ (calm' = "begun" /\ at'[dispatcher] \in {"listing", "telling"})
      BY DEF Reconciled
    <2>6. calm \in {"no", "begun"}
      BY <2>1 DEF AttentionTypeOK
    <2>7. at'[dispatcher] # at[dispatcher]
      BY <2>1, <2>2, <2>3, <2>4, <2>5, <2>6
    <2>8. calm = "begun" /\ Resolve(dispatcher)
      BY <2>1, <2>2, <2>3, <2>4, <2>5, <2>6, <2>7, DispatcherMoves
    <2>9. open'[f] = IF Due(f) THEN open[f] ELSE 0
      BY <2>8, ResolvesTheRest, ProjectorPair
    <2>10. ASSUME Due(f) PROVE open[f] # 0
      <3>1. at[dispatcher] = "raising" /\ todo[dispatcher] = {} /\ dispatcher \notin stale
        BY <2>8 DEF Resolve, Proceeds, Quiet
      <3>2. CASE f \in Canonical
        <4>1. seen[dispatcher] = fault \intersect Canonical /\ hidden[dispatcher] = Suppressed
          BY <3>1, ProjectorPair DEF Current
        <4>2. f \in seen[dispatcher] \ hidden[dispatcher]
          BY <2>10, <3>2, <4>1 DEF Due
        <4> QED BY <2>8, <3>1, <4>2 DEF Begun
      <3>3. CASE f = registry
        BY <2>8, <2>10, <3>3 DEF Due, Quiet
      <3> QED BY <3>2, <3>3, FaultKinds
    <2> QED BY <1>2, <2>9, <2>10
  <1> QED BY <1>3, <1>4

(* A step that closes no open alert forgets none that was told.                    *)
LEMMA ToldIsKept ==
  ASSUME AttentionTypeOK, AttentionStep, NEW a \in told, a \in Live'
  PROVE  a \in told'
  <1>1. ASSUME NEW known, told \subseteq known, Keep(known) PROVE a \in told'
    BY <1>1 DEF Keep
  <1>2. ASSUME NEW p \in Projectors, PassStep(p) \/ PassDies(p) PROVE a \in told'
    BY <1>1, <1>2 DEF PassStep, PassDies, Hide, Raise, Resolve, List, Show, RecordDelivery, PassEnds,
                     noticeVars
  <1>3. ASSUME \/ \E f \in Faults : Change(f)
               \/ Tick \/ Project \/ RunOnce
               \/ \E f \in Canonical : Suppress(f)
        PROVE  a \in told'
    BY <1>1, <1>3 DEF Change, Tick, Project, RunOnce, Reads, Suppress, noticeVars
  <1> QED BY <1>2, <1>3 DEF AttentionStep

(* A pass that is telling lets go of no alert but one that is told.                 *)
LEMMA HeldIsTold ==
  ASSUME AttentionTypeOK, AttentionStep, NEW p \in Projectors, at[p] = "telling", at'[p] = "telling",
         NEW a \in queue[p] \union {telling[p]}, a \in Live'
  PROVE  a \in told' \union queue'[p] \union {telling'[p]}
  <1>0. /\ at \in [Projectors -> Steps] /\ queue \in [Projectors -> SUBSET Alerts]
        /\ telling \in [Projectors -> Alerts \union {0}]
    BY DEF AttentionTypeOK
  <1>1. ASSUME NEW q \in Projectors, NEW b \in Alerts, Show(q, b)
        PROVE  a \in queue'[p] \union {telling'[p]}
    <2>1. /\ queue' = [queue EXCEPT ![q] = @ \ {b}] /\ telling' = [telling EXCEPT ![q] = b]
          /\ telling[q] = 0
      BY <1>1 DEF Show
    <2>2. 0 \notin Live'
      BY DEF Live
    <2> QED BY <1>0, <2>1, <2>2
  <1>2. ASSUME NEW q \in Projectors, RecordDelivery(q)
        PROVE  a \in told' \union queue'[p] \union {telling'[p]}
    <2>1. /\ queue' = queue /\ telling' = [telling EXCEPT ![q] = 0]
          /\ told' = (told \union {telling[q]}) \intersect Live'
      BY <1>2 DEF RecordDelivery, Keep
    <2> QED BY <1>0, <2>1
  <1>3. ASSUME NEW q \in Projectors, NEW from, NEW to, Proceeds(q, from, to), from # "telling" \/ to # "telling"
        PROVE  q # p
    BY <1>0, <1>3 DEF Proceeds
  <1>4. ASSUME NEW q \in Projectors, List(q) \/ PassEnds(q)
        PROVE  a \in queue'[p] \union {telling'[p]}
    <2>1. q # p
      BY <1>3, <1>4 DEF List, PassEnds
    <2> QED BY <1>0, <1>4, <2>1 DEF List, PassEnds
  <1>5. ASSUME NEW q \in Projectors, PassDies(q)
        PROVE  a \in queue'[p] \union {telling'[p]}
    <2>1. at' = [at EXCEPT ![q] = "idle"]
      BY <1>5 DEF PassDies
    <2>2. q # p
      BY <1>0, <2>1
    <2> QED BY <1>0, <1>5, <2>2 DEF PassDies
  <1>6. ASSUME NEW q \in Projectors, Hide(q) \/ Resolve(q) \/ \E f \in Canonical : Raise(q, f)
        PROVE  UNCHANGED <<queue, telling>>
    BY <1>6 DEF Hide, Resolve, Raise
  <1>7. ASSUME \/ \E f \in Faults : Change(f)
               \/ Tick \/ Project \/ RunOnce
               \/ \E f \in Canonical : Suppress(f)
        PROVE  UNCHANGED <<queue, telling>>
    BY <1>7 DEF Change, Tick, Project, RunOnce, Reads, Suppress, passVars
  <1> QED BY <1>1, <1>2, <1>4, <1>5, <1>6, <1>7 DEF AttentionStep, PassStep

LEMMA TellsFollowStep ==
  AttentionTypeOK /\ Tellers /\ Current /\ Quiet /\ Begun /\ RowsFollow /\ TellsFollow /\ AttentionNext
    => TellsFollow'
  <1> SUFFICES ASSUME AttentionTypeOK, Tellers, Current, Quiet, Begun, RowsFollow, TellsFollow,
                      AttentionStep, History, Reconciled', NEW f \in Faults, open'[f] # 0
               PROVE  /\ calm' = "begun" /\ at'[dispatcher] = "telling" =>
                           open'[f] \in told' \union queue'[dispatcher] \union {telling'[dispatcher]}
                      /\ calm' = "yes" => open'[f] \in told'
    BY DEF AttentionNext, TellsFollow, Reconciled
  <1>0. /\ dispatcher \in Projectors /\ open \in [Faults -> Alerts \union {0}] /\ deaths \in Nat
        /\ queue \in [Projectors -> SUBSET Alerts] /\ telling \in [Projectors -> Alerts \union {0}]
    BY ProjectorPair, TicksAreFew DEF AttentionTypeOK
  <1>1. calm' # "no" /\ ~Changed
    BY DEF Reconciled, History
  <1>2. open'[f] \in Live'
    BY DEF Live
  <1>3. ASSUME open'[f] \in told PROVE open'[f] \in told'
    BY <1>2, <1>3, ToldIsKept
  <1>4. CASE ~(calm = "yes" \/ (calm = "begun" /\ at[dispatcher] = "telling"))
    <2>1. calm = "no" => at[dispatcher] = "idle" /\ at'[dispatcher] # "idle" /\ calm' = "begun"
      BY <1>1 DEF History, Began
    <2>2. calm = "begun" => at[dispatcher] \notin {"idle", "telling"}
      BY <1>4 DEF Begun
    <2>3. calm \in {"no", "begun"}
      BY <1>4 DEF AttentionTypeOK
    <2>4. ASSUME calm' = "yes" PROVE FALSE
      <3>1. calm = "begun" /\ at'[dispatcher] = "idle" /\ deaths' = deaths
        BY <1>1, <2>1, <2>3, <2>4 DEF History
      <3> QED BY <2>2, <3>1, DispatcherMoves
    <2>5. ASSUME at'[dispatcher] = "telling" PROVE open'[f] \in queue'[dispatcher]
      <3>1. List(dispatcher)
        BY <2>1, <2>2, <2>3, <2>5, DispatcherMoves
      <3> QED BY <1>0, <3>1 DEF List, rowVars
    <2> QED BY <2>4, <2>5
  <1>5. CASE calm = "yes"
    <2>1. calm' = "yes"
      BY <1>1, <1>5 DEF History
    <2>2. open'[f] = open[f]
      BY <1>1, <1>5, RowsStayPut DEF Reconciled
    <2> QED BY <1>3, <1>5, <2>1, <2>2 DEF TellsFollow
  <1>6. CASE calm = "begun" /\ at[dispatcher] = "telling"
    <2>1. open'[f] = open[f]
      BY <1>1, <1>6, RowsStayPut DEF Reconciled
    <2>2. open'[f] \in told \union queue[dispatcher] \union {telling[dispatcher]}
      BY <1>6, <2>1 DEF TellsFollow
    <2>3. ASSUME calm' = "yes" PROVE open'[f] \in told'
      <3>1. at'[dispatcher] = "idle" /\ deaths' = deaths
        BY <1>1, <1>6, <2>3 DEF History
      <3>2. PassEnds(dispatcher)
        BY <1>6, <3>1, DispatcherMoves
      <3>3. open'[f] \in told
        BY <2>2, <3>2 DEF PassEnds, Told
      <3> QED BY <1>3, <3>3
    <2>4. ASSUME at'[dispatcher] = "telling"
          PROVE  open'[f] \in told' \union queue'[dispatcher] \union {telling'[dispatcher]}
      BY <1>0, <1>2, <1>3, <1>6, <2>2, <2>4, HeldIsTold
    <2> QED BY <2>3, <2>4
  <1> QED BY <1>4, <1>5, <1>6

LEMMA FollowInit == AttentionInit => FollowInv
  <1> SUFFICES ASSUME AttentionInit PROVE FollowInv
    OBVIOUS
  <1>1. calm = "no" /\ \A p \in Projectors : at[p] = "idle"
    BY DEF AttentionInit
  <1> QED BY <1>1 DEF FollowInv, Current, Quiet, Begun, Reconciled, RowsFollow, TellsFollow

LEMMA FollowStep ==
  AttentionTypeOK /\ Tellers /\ FollowInv /\ [AttentionNext]_attentionVars => FollowInv'
  <1> SUFFICES ASSUME AttentionTypeOK, Tellers, FollowInv, [AttentionNext]_attentionVars
               PROVE  FollowInv'
    OBVIOUS
  <1>1. CASE AttentionNext
    BY <1>1, CurrentStep, QuietStep, BegunStep, RowsFollowStep, TellsFollowStep DEF FollowInv
  <1>2. CASE UNCHANGED attentionVars
    <2>1. /\ UNCHANGED <<fault, age, deaths, open, closed, evidence, told, at, seen, healthy, hidden>>
          /\ UNCHANGED <<todo, queue, telling, stale, calm>>
      BY <1>2 DEF attentionVars, rowVars, noticeVars, passVars, worldVars
    <2>2. Suppressed' = Suppressed /\ \A f \in Faults : Due(f)' = Due(f)
      BY <2>1 DEF Suppressed, Due
    <2>3. Current' /\ Quiet'
      BY <2>1, <2>2 DEF FollowInv, Current, Quiet
    <2>4. Begun' /\ TellsFollow'
      BY <2>1, <2>2 DEF FollowInv, Begun, TellsFollow
    <2>5. RowsFollow'
      BY <2>1, <2>2 DEF FollowInv, RowsFollow, Reconciled
    <2> QED BY <2>3, <2>4, <2>5 DEF FollowInv
  <1> QED BY <1>1, <1>2

(* Whatever passes of the two processes overlap, and whichever died before it, a      *)
(* pass of the dispatcher that project_ops_attention began after the last change,     *)
(* with no older pass about, leaves the open alerts as the faults are and the         *)
(* operator told, and what follows leaves them so.                               *)
THEOREM AlertsAreDue == AttentionSpec => []AlertsFollow
  <1>1. FollowInv => AlertsFollow
    BY DEF FollowInv, RowsFollow, Reconciled, TellsFollow, AlertsFollow
  <1> QED BY <1>1, FollowInit, FollowStep, AttentionTypeCorrect, PTL DEF AttentionSpec
=============================================================================
