----------------------------- MODULE LidarConfig -----------------------------
(***************************************************************************)
(* How LiDARs get a device of the driver and are configured                *)
(* (livox_lidar_callback.cpp, cache_index.cpp, lds_lidar.cpp).             *)
(*                                                                         *)
(* The SDK calls back when the information of a LiDAR changed and when a   *)
(* command was answered; its threads are external, and callbacks of        *)
(* different LiDARs and answers in any order run at the same time.  Only   *)
(* the changes of one LiDAR come one after the other.                      *)
(***************************************************************************)
EXTENDS Naturals

CONSTANTS
  HandleCount,  \* LiDARs in the network
  ConfigCount,  \* of which the configuration file defines the first ones
  SlotCount,    \* kMaxSourceLidar
  Options,      \* configuration commands, one bit of set_bits each
  MaxChanges,   \* information changes in all
  MaxFaults     \* commands that time out or are refused in all

Handles == 1..HandleCount
Slots == 1..SlotCount
Commands == Options \cup {"attitude", "mode", "imu"}

ASSUME LidarConfigAssumption ==
  /\ HandleCount \in Nat /\ SlotCount \in Nat
  /\ ConfigCount \in 0..SlotCount /\ ConfigCount <= HandleCount
  /\ MaxChanges \in Nat /\ MaxFaults \in Nat
  /\ Options \cap {"attitude", "mode", "imu"} = {}

VARIABLES
  index,     \* map_index_: the device of each LiDAR, 0 if it has none
  taken,     \* index_cache_: the devices that are in use
  wanted,    \* options of each device's livox_config that are not -1
  setBits,   \* set_bits of each device
  sampling,  \* its connect_state is kConnectStateSampling
  at,        \* where LidarInfoChangeCallback of each LiDAR is
  sent,      \* commands each LiDAR has still to answer
  acked,     \* history: commands it acknowledged at least once
  givenUp,   \* history: options nobody will ask for again
  changes,   \* information changes still to come
  faults     \* timeouts and refusals still to come

deviceVars == <<index, taken, wanted>>
configVars == <<setBits, sampling>>
budget == <<changes, faults>>
vars == <<deviceVars, configVars, at, sent, acked, givenUp, budget>>

TypeOK ==
  /\ index \in [Handles -> Slots \cup {0}]
  /\ taken \subseteq Slots
  /\ wanted \in [Slots -> SUBSET Options]
  /\ setBits \in [Slots -> SUBSET Options]
  /\ sampling \in [Slots -> BOOLEAN]
  /\ at \in [Handles -> {"idle", "lookup", "allocate", "insert", "configure",
                         "announce"}]
  /\ sent \in [Handles -> [Commands -> Nat]]
  /\ acked \in [Handles -> SUBSET Commands]
  /\ givenUp \in [Handles -> SUBSET Options]
  /\ changes \in 0..MaxChanges /\ faults \in 0..MaxFaults

(* InitLivoxLidar gives the LiDARs of the file the first devices.  The     *)
(* other devices are static storage: their options are 0, which is not -1. *)
Init ==
  /\ index = [h \in Handles |-> IF h <= ConfigCount THEN h ELSE 0]
  /\ taken = 1..ConfigCount
  /\ wanted \in [Slots -> SUBSET Options]
  /\ \A s \in Slots : s > ConfigCount => wanted[s] = Options
  /\ setBits = [s \in Slots |-> {}] /\ sampling = [s \in Slots |-> FALSE]
  /\ at = [h \in Handles |-> "idle"]
  /\ sent = [h \in Handles |-> [c \in Commands |-> 0]]
  /\ acked = [h \in Handles |-> {}] /\ givenUp = [h \in Handles |-> {}]
  /\ changes = MaxChanges /\ faults = MaxFaults

(* Commands of the set cs go to LiDAR h, or back to it. *)
Send(h, cs) ==
  sent' = [sent EXCEPT ![h] =
             [c \in Commands |-> IF c \in cs THEN @[c] + 1 ELSE @[c]]]

Answered(h, c) == sent' = [sent EXCEPT ![h][c] = @ - 1]

(* The device GetFreeIndex finds. *)
FirstFree(s) == s \notin taken /\ \A t \in Slots \ taken : s <= t

(* index_mutex_ is held while a LiDAR is entered into the map. *)
Inserting == \E h \in Handles : at[h] = "insert"

-----------------------------------------------------------------------------
(* LidarInfoChangeCallback.                                                *)

InfoChange(h) ==
  /\ at[h] = "idle" /\ changes > 0
  /\ at' = [at EXCEPT ![h] = "lookup"] /\ changes' = changes - 1
  /\ UNCHANGED <<deviceVars, configVars, sent, acked, givenUp, faults>>

(* GetIndex searches the map without the lock.  While another thread       *)
(* inserts, the search may miss what is there.                             *)
Lookup(h) ==
  /\ at[h] = "lookup"
  /\ \/ index[h] # 0 /\ at' = [at EXCEPT ![h] = "configure"]
     \/ (index[h] = 0 \/ Inserting) /\ at' = [at EXCEPT ![h] = "allocate"]
  /\ UNCHANGED <<deviceVars, configVars, sent, acked, givenUp, budget>>

(* GetFreeIndex searches again, now with the lock.  A LiDAR that is found  *)
(* there or that gets a device is not configured this time.                *)
Allocate(h) ==
  /\ at[h] = "allocate" /\ ~Inserting
  /\ at' = [at EXCEPT ![h] =
              IF index[h] # 0 THEN "announce"
              ELSE IF taken = Slots THEN "idle" ELSE "insert"]
  /\ UNCHANGED <<deviceVars, configVars, sent, acked, givenUp, budget>>

(* A mutated form: the device is not marked as taken. *)
InsertUnmarked(h) ==
  /\ at[h] = "insert" /\ at' = [at EXCEPT ![h] = "announce"]
  /\ \E s \in Slots : FirstFree(s) /\ index' = [index EXCEPT ![h] = s]
  /\ UNCHANGED <<taken, wanted, configVars, sent, acked, givenUp, budget>>

Insert(h) ==
  /\ at[h] = "insert" /\ at' = [at EXCEPT ![h] = "announce"]
  /\ \E s \in Slots : /\ FirstFree(s)
                      /\ index' = [index EXCEPT ![h] = s]
                      /\ taken' = taken \cup {s}
  /\ UNCHANGED <<wanted, configVars, sent, acked, givenUp, budget>>

(* The attitude goes to the handle of the configuration, which is 0 for a  *)
(* LiDAR the file does not define.                                         *)
Attitude(h) == IF h <= ConfigCount THEN {"attitude"} ELSE {}

(* A mutated form: each option overwrites the bits of those before. *)
ConfigureLast(h) ==
  LET s == index[h]
  IN  /\ at[h] = "configure" /\ at' = [at EXCEPT ![h] = "announce"]
      /\ \E o \in Options :
           setBits' = [setBits EXCEPT ![s] =
                         IF wanted[s] = {} THEN {} ELSE {o} \cap wanted[s]]
      /\ Send(h, wanted[s] \cup Attitude(h))
      /\ givenUp' = [givenUp EXCEPT ![h] = {}]
      /\ UNCHANGED <<deviceVars, sampling, acked, budget>>

(* A mutated form: the bits of options the file leaves out are set as well. *)
ConfigureMarksAll(h) ==
  LET s == index[h]
  IN  /\ at[h] = "configure" /\ at' = [at EXCEPT ![h] = "announce"]
      /\ setBits' = [setBits EXCEPT ![s] = Options]
      /\ Send(h, wanted[s] \cup Attitude(h))
      /\ givenUp' = [givenUp EXCEPT ![h] = {}]
      /\ UNCHANGED <<deviceVars, sampling, acked, budget>>

(* All options are asked for while config_mutex_ is held. *)
Configure(h) ==
  LET s == index[h]
  IN  /\ at[h] = "configure" /\ at' = [at EXCEPT ![h] = "announce"]
      /\ setBits' = [setBits EXCEPT ![s] = @ \cup wanted[s]]
      /\ Send(h, wanted[s] \cup Attitude(h))
      /\ givenUp' = [givenUp EXCEPT ![h] = {}]
      /\ UNCHANGED <<deviceVars, sampling, acked, budget>>

Announce(h) ==
  /\ at[h] = "announce" /\ at' = [at EXCEPT ![h] = "idle"]
  /\ Send(h, {"mode", "imu"})
  /\ UNCHANGED <<deviceVars, configVars, acked, givenUp, budget>>

-----------------------------------------------------------------------------
(* Answers.  GetLidarDevice searches the map as GetIndex does.             *)

(* A mutated form: the bits are looked at before the bit is cleared. *)
SetBitsDoneLate(h, o) ==
  LET s == index[h]
  IN  /\ setBits' = [setBits EXCEPT ![s] = @ \ {o}]
      /\ sampling' = [sampling EXCEPT ![s] = @ \/ setBits[s] = {}]

(* The last bit that is cleared starts the LiDAR. *)
SetBitsDone(h, o) ==
  LET s == index[h]
  IN  /\ setBits' = [setBits EXCEPT ![s] = @ \ {o}]
      /\ sampling' = [sampling EXCEPT ![s] = @ \/ setBits'[s] = {}]

Success(h, c) ==
  /\ sent[h][c] > 0 /\ Answered(h, c)
  /\ acked' = [acked EXCEPT ![h] = @ \cup {c}]
  /\ IF c \in Options
     THEN SetBitsDone(h, c)
     ELSE UNCHANGED configVars
  /\ UNCHANGED <<deviceVars, at, givenUp, budget>>

(* A command that timed out is sent again, save that of the IMU when the   *)
(* SDK has no response to show for it.                                     *)
Timeout(h, c) ==
  /\ sent[h][c] > 0 /\ faults > 0 /\ faults' = faults - 1
  /\ UNCHANGED sent \/ (c = "imu" /\ Answered(h, c))
  /\ UNCHANGED <<deviceVars, configVars, at, acked, givenUp, changes>>

(* A mutated form: the work mode is not tried again either. *)
RefusedForGood(h, c) ==
  /\ sent[h][c] > 0 /\ faults > 0 /\ faults' = faults - 1
  /\ Answered(h, c)
  /\ givenUp' = [givenUp EXCEPT ![h] = @ \cup ({c} \cap Options)]
  /\ UNCHANGED <<deviceVars, configVars, at, acked, changes>>

(* Only the work mode is tried again after a refusal. *)
Refused(h, c) ==
  /\ sent[h][c] > 0 /\ faults > 0 /\ faults' = faults - 1
  /\ IF c = "mode" THEN UNCHANGED sent ELSE Answered(h, c)
  /\ givenUp' = [givenUp EXCEPT ![h] = @ \cup ({c} \cap Options)]
  /\ UNCHANGED <<deviceVars, configVars, at, acked, changes>>

(* An answer whose LiDAR is not found is dropped, whatever it says.  The   *)
(* callback of the work mode needs no device.                              *)
Dropped(h, c) ==
  /\ sent[h][c] > 0 /\ Inserting /\ c # "mode"
  /\ Answered(h, c)
  /\ givenUp' = [givenUp EXCEPT ![h] = @ \cup ({c} \cap Options)]
  /\ UNCHANGED <<deviceVars, configVars, at, acked, budget>>

-----------------------------------------------------------------------------
CallbackStep ==
  \E h \in Handles : \/ Lookup(h) \/ Allocate(h) \/ Insert(h)
                     \/ Configure(h) \/ Announce(h)

LidarAnswers == \E h \in Handles, c \in Commands : Success(h, c)

LidarFails ==
  \E h \in Handles, c \in Commands :
    Timeout(h, c) \/ Refused(h, c) \/ Dropped(h, c)

Next ==
  \/ \E h \in Handles : InfoChange(h)
  \/ CallbackStep \/ LidarAnswers \/ LidarFails

(* Callbacks return, and a LiDAR that is asked again answers at last. *)
Spec == Init /\ [][Next]_vars /\ WF_vars(CallbackStep) /\ WF_vars(LidarAnswers)

-----------------------------------------------------------------------------
(* Properties.                                                             *)

(* No two LiDARs share a device, although a search for a free one and the  *)
(* search for the LiDAR are two critical sections.                         *)
DevicesApart ==
  \A g, h \in Handles : g # h /\ index[g] # 0 => index[g] # index[h]

Started(h) == index[h] # 0 /\ sampling[index[h]]

(* The driver takes the data of a LiDAR only after the LiDAR acknowledged  *)
(* each option of its configuration.                                       *)
SamplingConfigured ==
  \A h \in Handles : Started(h) => wanted[index[h]] \subseteq acked[h]

(* No bit waits for an answer that nobody will give: the option is being   *)
(* asked for, or it was refused or its answer dropped since the last       *)
(* information change.                                                     *)
BitsAwaited ==
  \A h \in Handles : index[h] # 0 =>
    \A o \in setBits[index[h]] : sent[h][o] > 0 \/ o \in givenUp[h]

(* Commands that time out are repeated until the LiDAR samples, unless an  *)
(* option is given up.                                                     *)
SamplingStarts ==
  \A h \in Handles :
    at[h] = "configure" /\ wanted[index[h]] # {} ~>
      Started(h) \/ givenUp[h] # {}

(* Every LiDAR that has a device and reports is put to work. *)
PutToWork ==
  \A h \in Handles : at[h] = "announce" ~> "mode" \in acked[h]
=============================================================================
