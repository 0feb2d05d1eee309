----------------------------- MODULE MCSettling -----------------------------
(* What is handed to the remote service settles, for TLC: the item of             *)
(* MCResourceDelivery under two dispatches, and one text of a note, sent by a     *)
(* writer that may die or overrun its lease twice.  They share no row here, so a  *)
(* behaviour shows one of them.                                                *)
EXTENDS MCResourceDelivery

CONSTANTS a, w1, NoText

VARIABLES
  lane,
  noteFile, unseen, rowid, lastRow, noteStatus, noteAttempt, event, noteLease, journal,
  watched, noteRemote, late, proven, blind, phase, item, tried, cause, mishaps

noteVars == <<noteFile, unseen, rowid, lastRow, noteStatus, noteAttempt, event, noteLease,
              journal, watched, noteRemote, late, proven, blind, phase, item, tried, cause,
              mishaps>>

Note == INSTANCE MemoryDelivery
  WITH Texts <- {a}, Laggards <- {a}, Writers <- {w1}, MaxAttempts <- 2, Overlooks <- TRUE,
       Imports <- TRUE, MaxMishaps <- 2, file <- noteFile, status <- noteStatus, attempt <- noteAttempt,
       lease <- noteLease, remote <- noteRemote

SettlingInit ==
  /\ DeliveryInit /\ Note!MemoryInit
  /\ lane \in {"item", "text"}
  /\ lane = "item" => noteFile = NoText

SettlingNext ==
  \/ lane = "item" /\ DeliveryNext /\ UNCHANGED <<noteVars, lane>>
  \/ lane = "text" /\ Note!MemoryNext /\ UNCHANGED <<deliveryVars, lane>>

SettlingSpec ==
  /\ SettlingInit /\ [][SettlingNext]_<<deliveryVars, noteVars, lane>>
  /\ (lane = "item" /\ DeliveryFairness) \/ (lane = "text" /\ Note!MemoryFairness)

(* Every text admitted gets a verdict, whatever the service answers or the        *)
(* writer goes through.                                                        *)
AdmittedTextsSettle == Note!AdmittedTextsSettle
=============================================================================
