-------------------------- MODULE LidarConfigProofs --------------------------
(***************************************************************************)
(* What TLAPS proves of LidarConfig, for any number of LiDARs, devices and *)
(* options, any number of information changes and of failures.             *)
(***************************************************************************)
EXTENDS LidarConfig, TLAPS

(* What a step of the model is, action by action. *)
StepOf(h) == InfoChange(h) \/ Lookup(h) \/ Allocate(h) \/ Announce(h)

LEMMA NextSteps ==
  ASSUME [Next]_vars
  PROVE  \/ UNCHANGED vars
         \/ \E h \in Handles : StepOf(h) \/ Insert(h) \/ Configure(h)
         \/ \E h \in Handles, c \in Commands :
              Success(h, c) \/ Timeout(h, c) \/ Refused(h, c) \/ Dropped(h, c)
BY DEF Next, CallbackStep, LidarAnswers, LidarFails, StepOf

-----------------------------------------------------------------------------
(* A LiDAR that is being configured has a device, and so has one that is   *)
(* asked for an option.                                                    *)
HasDevice ==
  \A h \in Handles :
    at[h] = "configure" \/ (\E o \in Options : sent[h][o] > 0) => index[h] # 0

LEMMA TypeInit == Init => TypeOK /\ HasDevice
BY LidarConfigAssumption
DEF Init, TypeOK, HasDevice, Handles, Slots, Commands

(* What sending and answering do to the commands of a LiDAR. *)
LEMMA SendType ==
  ASSUME NEW h \in Handles, NEW cs \in SUBSET Commands,
         sent \in [Handles -> [Commands -> Nat]], Send(h, cs)
  PROVE  /\ sent' \in [Handles -> [Commands -> Nat]]
         /\ \A g \in Handles, c \in Commands :
              sent'[g][c] = IF g = h /\ c \in cs THEN sent[g][c] + 1
                            ELSE sent[g][c]
BY DEF Send

LEMMA AnsweredType ==
  ASSUME NEW h \in Handles, NEW d \in Commands,
         sent \in [Handles -> [Commands -> Nat]], sent[h][d] > 0,
         Answered(h, d)
  PROVE  /\ sent' \in [Handles -> [Commands -> Nat]]
         /\ \A g \in Handles, c \in Commands :
              sent'[g][c] = IF g = h /\ c = d THEN sent[g][c] - 1
                            ELSE sent[g][c]
BY DEF Answered

LEMMA OptionCommands == Options \subseteq Commands
BY DEF Commands

(* No option is asked for at the end of an information change. *)
LEMMA AnnounceSends ==
  ASSUME NEW h \in Handles, Send(h, {"mode", "imu"}),
         sent \in [Handles -> [Commands -> Nat]]
  PROVE  /\ sent' \in [Handles -> [Commands -> Nat]]
         /\ \A g \in Handles, o \in Options : sent'[g][o] = sent[g][o]
<1> DEFINE cs == {"mode", "imu"}
<1>1. cs \in SUBSET Commands /\ Send(h, cs)
  BY DEF Commands
<1>2. \A o \in Options : o \in Commands /\ o \notin cs
  BY LidarConfigAssumption, OptionCommands
<1> HIDE DEF cs
<1>3. /\ sent' \in [Handles -> [Commands -> Nat]]
      /\ \A g \in Handles, d \in Commands :
           sent'[g][d] = IF g = h /\ d \in cs THEN sent[g][d] + 1
                         ELSE sent[g][d]
  BY <1>1, SendType
<1> QED  BY <1>2, <1>3

(* Every step keeps the variables well typed. *)
LEMMA TypeStep == TypeOK /\ HasDevice /\ [Next]_vars => TypeOK' /\ HasDevice'
<1> SUFFICES ASSUME TypeOK, HasDevice, [Next]_vars
             PROVE  TypeOK' /\ HasDevice'
  OBVIOUS
<1> USE LidarConfigAssumption DEF deviceVars, configVars, budget
<1>1. CASE UNCHANGED vars
  BY <1>1 DEF vars, TypeOK, HasDevice
<1>2. ASSUME NEW h \in Handles, StepOf(h) PROVE TypeOK' /\ HasDevice'
  <2>1. CASE Announce(h)
    <3>1. /\ sent' \in [Handles -> [Commands -> Nat]]
          /\ \A g \in Handles, o \in Options : sent'[g][o] = sent[g][o]
      BY <2>1, AnnounceSends DEF Announce, TypeOK
    <3>2. /\ at' = [at EXCEPT ![h] = "idle"]
          /\ UNCHANGED <<deviceVars, configVars, acked, givenUp, budget>>
      BY <2>1 DEF Announce
    <3>3. TypeOK'
      BY <3>1, <3>2 DEF TypeOK
    <3> QED  BY <3>1, <3>2, <3>3 DEF TypeOK, HasDevice
  <2>2. CASE InfoChange(h)
    BY <2>2 DEF InfoChange, TypeOK, HasDevice
  <2>3. CASE Lookup(h)
    BY <2>3 DEF Lookup, TypeOK, HasDevice
  <2>4. CASE Allocate(h)
    BY <2>4 DEF Allocate, TypeOK, HasDevice
  <2> QED  BY <1>2, <2>1, <2>2, <2>3, <2>4 DEF StepOf
<1>3. ASSUME NEW h \in Handles, Insert(h) PROVE TypeOK' /\ HasDevice'
  BY <1>3 DEF Insert, TypeOK, HasDevice, Slots
<1>4. ASSUME NEW h \in Handles, Configure(h) PROVE TypeOK' /\ HasDevice'
  <2>1. index[h] \in Slots
    BY <1>4 DEF Configure, TypeOK, HasDevice
  <2>2. wanted[index[h]] \cup Attitude(h) \in SUBSET Commands
    BY <2>1 DEF TypeOK, Attitude, Commands
  <2>3. sent' \in [Handles -> [Commands -> Nat]]
    BY <1>4, <2>2, SendType DEF Configure, TypeOK
  <2>4. TypeOK'
    BY <1>4, <2>1, <2>3 DEF Configure, TypeOK
  <2>5. \A g \in Handles, c \in Commands :
          g # h => sent'[g][c] = sent[g][c]
    BY <1>4, <2>2, SendType DEF Configure, TypeOK
  <2>6. HasDevice'
    BY <1>4, <2>1, <2>5, 0 \notin Slots DEF Configure, HasDevice, TypeOK, Commands, Slots
  <2> QED  BY <2>4, <2>6
<1>5. ASSUME NEW h \in Handles, NEW c \in Commands,
             Success(h, c) \/ Timeout(h, c) \/ Refused(h, c) \/ Dropped(h, c)
      PROVE  TypeOK' /\ HasDevice'
  <2>1. \/ sent' = sent
        \/ Answered(h, c)
    BY <1>5 DEF Success, Timeout, Refused, Dropped
  <2>2. /\ sent' \in [Handles -> [Commands -> Nat]]
        /\ \A g \in Handles, d \in Commands : sent'[g][d] > 0 => sent[g][d] > 0
    BY <1>5, <2>1, AnsweredType DEF Success, Timeout, Refused, Dropped, TypeOK
  <2>3. index' = index /\ at' = at
    BY <1>5 DEF Success, Timeout, Refused, Dropped
  <2>4. HasDevice'
    BY <2>2, <2>3 DEF HasDevice, Commands
  <2>5. CASE Success(h, c)
    <3>1. acked' \in [Handles -> SUBSET Commands]
      BY <2>5 DEF Success, TypeOK
    <3>2. /\ setBits' \in [Slots -> SUBSET Options]
          /\ sampling' \in [Slots -> BOOLEAN]
      <4>1. CASE c \in Options
        <5>1. index[h] \in Slots
          BY <2>5, <4>1 DEF Success, HasDevice, TypeOK
        <5>2. setBits' \in [Slots -> SUBSET Options]
          BY <2>5, <4>1, <5>1 DEF Success, SetBitsDone, TypeOK
        <5>3. sampling' \in [Slots -> BOOLEAN]
          BY <2>5, <4>1, <5>1, Zenon DEF Success, SetBitsDone, TypeOK
        <5> QED  BY <5>2, <5>3
      <4>2. CASE c \notin Options
        BY <2>5, <4>2 DEF Success, TypeOK
      <4> QED  BY <4>1, <4>2
    <3>3. UNCHANGED <<index, taken, wanted, at, givenUp, changes, faults>>
      BY <2>5 DEF Success
    <3> QED  BY <2>2, <2>4, <3>1, <3>2, <3>3 DEF TypeOK
  <2>6. CASE Timeout(h, c) \/ Refused(h, c) \/ Dropped(h, c)
    <3>1. faults' \in 0..MaxFaults
      BY <2>6 DEF Timeout, Refused, Dropped, TypeOK
    <3>2. givenUp' \in [Handles -> SUBSET Options]
      <4>1. \/ givenUp' = givenUp
            \/ givenUp' = [givenUp EXCEPT ![h] = @ \cup ({c} \cap Options)]
        BY <2>6 DEF Timeout, Refused, Dropped
      <4> QED  BY <4>1 DEF TypeOK
    <3>3. UNCHANGED <<index, taken, wanted, setBits, sampling, at, acked,
                      changes>>
      BY <2>6 DEF Timeout, Refused, Dropped
    <3> QED  BY <2>2, <2>4, <3>1, <3>2, <3>3 DEF TypeOK
  <2> QED  BY <1>5, <2>4, <2>5, <2>6
<1> QED  BY <1>1, <1>2, <1>3, <1>4, <1>5, NextSteps

(* Every variable keeps its type. *)
THEOREM TypeCorrect == Spec => []TypeOK
BY TypeInit, TypeStep, PTL DEF Spec

-----------------------------------------------------------------------------
(* A device that some LiDAR has is taken, and only one thread at a time    *)
(* gives a device away.                                                    *)
DevicesTaken ==
  /\ \A h \in Handles : index[h] # 0 => index[h] \in taken
  /\ \A g, h \in Handles : at[g] = "insert" /\ at[h] = "insert" => g = h
  /\ \A h \in Handles : at[h] = "insert" => index[h] = 0
  /\ DevicesApart

(* Answers leave devices and callbacks alone. *)
LEMMA AnswerFrame ==
  ASSUME NEW h \in Handles, NEW c \in Commands,
         Success(h, c) \/ Timeout(h, c) \/ Refused(h, c) \/ Dropped(h, c)
  PROVE  UNCHANGED <<index, taken, wanted, at>>
BY DEF Success, Timeout, Refused, Dropped, deviceVars

(* Every step keeps devices apart. *)
LEMMA DevicesStep ==
  ASSUME TypeOK, DevicesTaken, [Next]_vars
  PROVE  DevicesTaken'
<1>1. CASE UNCHANGED vars
  BY <1>1 DEF vars, deviceVars, DevicesTaken, DevicesApart
<1>2. ASSUME NEW h \in Handles, StepOf(h) PROVE DevicesTaken'
  <2>1. UNCHANGED <<index, taken>>
    BY <1>2 DEF StepOf, InfoChange, Lookup, Allocate, Announce, deviceVars
  <2>2. \A g \in Handles : at'[g] = "insert" =>
          at[g] = "insert" \/ (g = h /\ ~Inserting /\ index[g] = 0)
    <3>1. CASE Allocate(h)
      BY <3>1 DEF Allocate, TypeOK
    <3>2. CASE InfoChange(h)
      BY <3>2 DEF InfoChange, TypeOK
    <3>3. CASE Lookup(h)
      BY <3>3 DEF Lookup, TypeOK
    <3>4. CASE Announce(h)
      BY <3>4 DEF Announce, TypeOK
    <3> QED  BY <1>2, <3>1, <3>2, <3>3, <3>4 DEF StepOf
  <2> QED  BY <2>1, <2>2 DEF DevicesTaken, DevicesApart, Inserting
<1>3. ASSUME NEW h \in Handles, Insert(h) PROVE DevicesTaken'
  <2>1. PICK s \in Slots : /\ FirstFree(s)
                           /\ index' = [index EXCEPT ![h] = s]
                           /\ taken' = taken \cup {s}
    BY <1>3 DEF Insert
  <2>2. DevicesApart'
    BY <2>1 DEF DevicesTaken, DevicesApart, FirstFree, TypeOK, Slots
  <2>3. \A g \in Handles : index'[g] # 0 => index'[g] \in taken'
    BY <2>1 DEF DevicesTaken, TypeOK
  <2>4. \A g \in Handles : at'[g] = "insert" => at[g] = "insert" /\ g # h
    BY <1>3 DEF Insert, TypeOK
  <2>5. \A g \in Handles : g # h => index'[g] = index[g]
    BY <2>1 DEF TypeOK
  <2> QED  BY <2>2, <2>3, <2>4, <2>5 DEF DevicesTaken
<1>4. ASSUME NEW h \in Handles, Configure(h) PROVE DevicesTaken'
  <2>1. UNCHANGED <<index, taken>>
    BY <1>4 DEF Configure, deviceVars
  <2>2. \A g \in Handles : at'[g] = "insert" => at[g] = "insert"
    BY <1>4 DEF Configure, TypeOK
  <2> QED  BY <2>1, <2>2 DEF DevicesTaken, DevicesApart
<1>5. ASSUME NEW h \in Handles, NEW c \in Commands,
             Success(h, c) \/ Timeout(h, c) \/ Refused(h, c) \/ Dropped(h, c)
      PROVE  DevicesTaken'
  BY <1>5, AnswerFrame DEF DevicesTaken, DevicesApart
<1> QED  BY <1>1, <1>2, <1>3, <1>4, <1>5, NextSteps

LEMMA DevicesInit == Init => DevicesTaken
BY LidarConfigAssumption
DEF Init, DevicesTaken, DevicesApart, Handles, Slots

(* No two LiDARs ever share a device. *)
THEOREM OwnDevices == Spec => []DevicesApart
<1>1. DevicesTaken => DevicesApart
  BY DEF DevicesTaken
<1> QED  BY TypeInit, TypeStep, DevicesInit, DevicesStep, <1>1, PTL DEF Spec

-----------------------------------------------------------------------------
(* Devices nobody has were never configured, and only options that are     *)
(* wanted have bits.                                                       *)
BitsWanted ==
  /\ \A s \in Slots \ taken : setBits[s] = {} /\ ~sampling[s]
  /\ \A s \in Slots : setBits[s] \subseteq wanted[s]

(* An option that is asked for and whose bit is clear was acknowledged, and *)
(* a LiDAR that was never asked has no bits.                               *)
Asked(h) == \E o \in Options : sent[h][o] > 0

ClearedByAnswer ==
  \A h \in Handles : Asked(h) =>
    wanted[index[h]] \ setBits[index[h]] \subseteq acked[h]

ConfigInv ==
  /\ BitsWanted /\ ClearedByAnswer /\ SamplingConfigured /\ BitsAwaited

LEMMA ConfigInit == Init => ConfigInv
BY LidarConfigAssumption, OptionCommands
DEF Init, ConfigInv, BitsWanted, ClearedByAnswer, SamplingConfigured,
    BitsAwaited, Asked, Started, Handles, Slots

(* Each acknowledgement clears the bit of its own option and no other. *)
LEMMA SuccessStep ==
  ASSUME TypeOK, HasDevice, DevicesTaken, ConfigInv,
         NEW h \in Handles, NEW c \in Options, Success(h, c)
  PROVE  ConfigInv'
<1> DEFINE s == index[h]
<1>1. c \in Commands /\ sent[h][c] > 0 /\ Asked(h)
  BY OptionCommands DEF Success, Asked
<1>2. s \in Slots /\ s # 0 /\ s \in taken
  BY <1>1 DEF Asked, HasDevice, TypeOK, Slots, DevicesTaken
<1>3. UNCHANGED <<index, taken, wanted, at, givenUp>>
  BY DEF Success, deviceVars
<1>4. /\ setBits' = [setBits EXCEPT ![s] = @ \ {c}]
      /\ sampling' = [sampling EXCEPT ![s] = @ \/ setBits'[s] = {}]
  BY DEF Success, SetBitsDone
<1>5. /\ setBits'[s] = setBits[s] \ {c}
      /\ \A t \in Slots : t # s => setBits'[t] = setBits[t]
  BY <1>2, <1>4 DEF TypeOK
<1>6. /\ sampling'[s] = (sampling[s] \/ setBits'[s] = {})
      /\ \A t \in Slots : t # s => sampling'[t] = sampling[t]
  BY <1>2, <1>4 DEF TypeOK
<1>7. /\ acked'[h] = acked[h] \cup {c}
      /\ \A g \in Handles : g # h => acked'[g] = acked[g]
  BY DEF Success, TypeOK
<1>8. \A g \in Handles, d \in Commands :
        sent'[g][d] = IF g = h /\ d = c THEN sent[g][d] - 1 ELSE sent[g][d]
  BY <1>1, AnsweredType DEF Success, TypeOK
<1>9. \A g \in Handles : g # h /\ index[g] # 0 => index[g] # s
                                               /\ index[g] \in Slots
  BY <1>2 DEF DevicesTaken, DevicesApart, TypeOK
<1>10. wanted[s] \ setBits'[s] \subseteq acked'[h]
  BY <1>1, <1>5, <1>7 DEF ConfigInv, ClearedByAnswer
<1>11. BitsWanted'
  BY <1>2, <1>3, <1>5, <1>6 DEF ConfigInv, BitsWanted
<1>12. ASSUME NEW g \in Handles, Asked(g)'
       PROVE  wanted[index[g]] \ setBits'[index[g]] \subseteq acked'[g]
  <2>1. CASE g = h
    BY <1>10, <2>1
  <2>2. CASE g # h
    <3>1. Asked(g)
      BY <1>8, <1>12, <2>2, OptionCommands DEF Asked
    <3>2. index[g] # 0
      BY <3>1 DEF Asked, HasDevice
    <3> QED  BY <1>5, <1>7, <1>9, <2>2, <3>1, <3>2
             DEF ConfigInv, ClearedByAnswer
  <2> QED  BY <2>1, <2>2
<1>13. ASSUME NEW g \in Handles, index[g] # 0, sampling'[index[g]]
       PROVE  wanted[index[g]] \subseteq acked'[g]
  <2>1. CASE g = h /\ sampling[s]
    BY <1>2, <1>7, <2>1 DEF ConfigInv, SamplingConfigured, Started
  <2>2. CASE g = h /\ ~sampling[s]
    BY <1>6, <1>10, <1>13, <2>2
  <2>3. CASE g # h
    BY <1>6, <1>7, <1>9, <1>13, <2>3
    DEF ConfigInv, SamplingConfigured, Started
  <2> QED  BY <2>1, <2>2, <2>3
<1>14. ASSUME NEW g \in Handles, index[g] # 0,
              NEW o \in setBits'[index[g]]
       PROVE  sent'[g][o] > 0 \/ o \in givenUp[g]
  <2>1. index[g] \in Slots
    BY <1>14 DEF TypeOK
  <2>2. o \in setBits[index[g]] /\ (g = h => o # c) /\ o \in Options
    BY <1>5, <1>14, <2>1 DEF TypeOK
  <2>3. sent[g][o] > 0 \/ o \in givenUp[g]
    BY <1>14, <2>2 DEF ConfigInv, BitsAwaited
  <2> QED  BY <1>8, <2>2, <2>3, OptionCommands
<1> QED  BY <1>3, <1>11, <1>12, <1>13, <1>14
         DEF ConfigInv, ClearedByAnswer, SamplingConfigured, BitsAwaited,
             Started

(* The steps that leave bits, acknowledgements and requests of options alone. *)
LEMMA QuietStep ==
  ASSUME TypeOK, ConfigInv,
         UNCHANGED <<index, taken, wanted, setBits, sampling, acked>>,
         \A g \in Handles, o \in Options :
           /\ sent'[g][o] > 0 => sent[g][o] > 0
           /\ sent[g][o] > 0 => sent'[g][o] > 0 \/ o \in givenUp'[g],
         \A g \in Handles : givenUp[g] \subseteq givenUp'[g]
  PROVE  ConfigInv'
<1>1. BitsWanted'
  BY DEF ConfigInv, BitsWanted
<1>2. ClearedByAnswer'
  BY DEF ConfigInv, ClearedByAnswer, Asked
<1>3. SamplingConfigured'
  BY DEF ConfigInv, SamplingConfigured, Started
<1>4. ASSUME NEW g \in Handles, index[g] # 0, NEW o \in setBits[index[g]]
      PROVE  sent'[g][o] > 0 \/ o \in givenUp'[g]
  <2>1. o \in Options
    BY <1>4 DEF TypeOK
  <2> QED  BY <1>4, <2>1 DEF ConfigInv, BitsAwaited
<1> QED  BY <1>1, <1>2, <1>3, <1>4 DEF ConfigInv, BitsAwaited

(* Acknowledgements of other commands take nothing away. *)
LEMMA OtherSuccess ==
  ASSUME ConfigInv,
         UNCHANGED <<index, taken, wanted, setBits, sampling, givenUp>>,
         \A g \in Handles, o \in Options : sent'[g][o] = sent[g][o],
         \A g \in Handles : acked[g] \subseteq acked'[g], TypeOK
  PROVE  ConfigInv'
<1>1. BitsWanted'
  BY DEF ConfigInv, BitsWanted
<1>2. ClearedByAnswer'
  BY DEF ConfigInv, ClearedByAnswer, Asked
<1>3. SamplingConfigured'
  BY DEF ConfigInv, SamplingConfigured, Started
<1>4. BitsAwaited'
  BY DEF ConfigInv, BitsAwaited, TypeOK
<1> QED  BY <1>1, <1>2, <1>3, <1>4 DEF ConfigInv

(* A LiDAR gets a device that was never configured, and it was never asked *)
(* for an option.                                                          *)
LEMMA InsertStep ==
  ASSUME TypeOK, HasDevice, DevicesTaken, ConfigInv,
         NEW h \in Handles, Insert(h)
  PROVE  ConfigInv'
<1>1. PICK s \in Slots : /\ FirstFree(s)
                         /\ index' = [index EXCEPT ![h] = s]
                         /\ taken' = taken \cup {s}
  BY DEF Insert
<1>2. UNCHANGED <<wanted, setBits, sampling, sent, acked, givenUp>>
  BY DEF Insert, configVars
<1>3. index[h] = 0 /\ ~Asked(h)
  BY DEF Insert, DevicesTaken, HasDevice, Asked
<1>4. /\ index'[h] = s
      /\ \A g \in Handles : g # h => index'[g] = index[g]
  BY <1>1 DEF TypeOK
<1>5. setBits[s] = {} /\ ~sampling[s]
  BY <1>1 DEF FirstFree, ConfigInv, BitsWanted
<1>6. BitsWanted'
  BY <1>1, <1>2 DEF ConfigInv, BitsWanted
<1>7. ClearedByAnswer'
  BY <1>2, <1>3, <1>4 DEF ConfigInv, ClearedByAnswer, Asked
<1>8. SamplingConfigured'
  BY <1>2, <1>4, <1>5 DEF ConfigInv, SamplingConfigured, Started
<1>9. BitsAwaited'
  BY <1>2, <1>4, <1>5 DEF ConfigInv, BitsAwaited
<1> QED  BY <1>6, <1>7, <1>8, <1>9 DEF ConfigInv

(* Every option whose bit is set is asked for. *)
LEMMA ConfigureStep ==
  ASSUME TypeOK, HasDevice, DevicesTaken, ConfigInv,
         NEW h \in Handles, Configure(h)
  PROVE  ConfigInv'
<1> DEFINE s == index[h]
<1>1. s \in Slots /\ s # 0 /\ s \in taken
  BY DEF Configure, HasDevice, TypeOK, Slots, DevicesTaken
<1>2. UNCHANGED <<index, taken, wanted, sampling, acked>>
  BY DEF Configure, deviceVars
<1>3. /\ setBits'[s] = setBits[s] \cup wanted[s]
      /\ \A t \in Slots : t # s => setBits'[t] = setBits[t]
  BY <1>1 DEF Configure, TypeOK
<1>4. setBits'[s] = wanted[s] /\ wanted[s] \subseteq Options
  BY <1>1, <1>3 DEF ConfigInv, BitsWanted, TypeOK
<1>5. wanted[s] \cup Attitude(h) \in SUBSET Commands
  BY <1>4 DEF Attitude, Commands
<1>6. \A g \in Handles, d \in Commands :
        sent'[g][d] = IF g = h /\ d \in wanted[s] \cup Attitude(h)
                      THEN sent[g][d] + 1 ELSE sent[g][d]
  BY <1>5, SendType DEF Configure, TypeOK
<1>7. \A g \in Handles : g # h => givenUp'[g] = givenUp[g]
  BY DEF Configure, TypeOK
<1>8. \A g \in Handles : g # h /\ index[g] # 0 =>
        index[g] # s /\ index[g] \in Slots
  BY <1>1 DEF DevicesTaken, DevicesApart, TypeOK
<1>9. BitsWanted'
  BY <1>1, <1>2, <1>3, <1>4 DEF ConfigInv, BitsWanted
<1>10. ASSUME NEW g \in Handles, Asked(g)'
       PROVE  wanted[index[g]] \ setBits'[index[g]] \subseteq acked[g]
  <2>1. CASE g = h
    BY <1>4, <2>1
  <2>2. CASE g # h
    <3>1. Asked(g)
      BY <1>6, <1>10, <2>2, OptionCommands DEF Asked
    <3>2. index[g] # 0
      BY <3>1 DEF Asked, HasDevice
    <3> QED  BY <1>3, <1>8, <2>2, <3>1, <3>2
             DEF ConfigInv, ClearedByAnswer
  <2> QED  BY <2>1, <2>2
<1>11. SamplingConfigured'
  BY <1>2 DEF ConfigInv, SamplingConfigured, Started
<1>12. ASSUME NEW g \in Handles, index[g] # 0,
              NEW o \in setBits'[index[g]]
       PROVE  sent'[g][o] > 0 \/ o \in givenUp'[g]
  <2>1. CASE g = h
    <3>1. o \in wanted[s] /\ o \in Commands /\ sent[h][o] \in Nat
      BY <1>4, <1>12, <2>1, OptionCommands DEF TypeOK
    <3> QED  BY <1>6, <2>1, <3>1
  <2>2. CASE g # h
    <3>1. o \in setBits[index[g]] /\ o \in Commands
      BY <1>3, <1>8, <1>12, <2>2, OptionCommands DEF TypeOK
    <3> QED  BY <1>6, <1>7, <1>12, <2>2, <3>1 DEF ConfigInv, BitsAwaited
  <2> QED  BY <2>1, <2>2
<1> QED  BY <1>2, <1>9, <1>10, <1>11, <1>12
         DEF ConfigInv, ClearedByAnswer, BitsAwaited

(* Every step keeps bits, requests and acknowledgements in agreement. *)
LEMMA ConfigStep ==
  ASSUME TypeOK, HasDevice, DevicesTaken, ConfigInv, [Next]_vars
  PROVE  ConfigInv'
<1>1. CASE UNCHANGED vars
  BY <1>1, QuietStep DEF vars, deviceVars, configVars
<1>2. ASSUME NEW h \in Handles, StepOf(h) PROVE ConfigInv'
  <2>1. UNCHANGED <<index, taken, wanted, setBits, sampling, acked, givenUp>>
    BY <1>2 DEF StepOf, InfoChange, Lookup, Allocate, Announce, deviceVars,
                configVars
  <2>2. sent' = sent \/ Send(h, {"mode", "imu"})
    BY <1>2 DEF StepOf, InfoChange, Lookup, Allocate, Announce
  <2>3. \A g \in Handles, o \in Options : sent'[g][o] = sent[g][o]
    BY <2>2, AnnounceSends DEF TypeOK
  <2> QED  BY <2>1, <2>3, QuietStep
<1>3. ASSUME NEW h \in Handles, Insert(h) PROVE ConfigInv'
  BY <1>3, InsertStep
<1>4. ASSUME NEW h \in Handles, Configure(h) PROVE ConfigInv'
  BY <1>4, ConfigureStep
<1>5. ASSUME NEW h \in Handles, NEW c \in Commands,
             Success(h, c) \/ Timeout(h, c) \/ Refused(h, c) \/ Dropped(h, c)
      PROVE  ConfigInv'
  <2>1. CASE Success(h, c) /\ c \in Options
    BY <2>1, SuccessStep
  <2>2. CASE Success(h, c) /\ c \notin Options
    <3>1. UNCHANGED <<index, taken, wanted, setBits, sampling, givenUp>>
      BY <2>2 DEF Success, deviceVars, configVars
    <3>2. \A g \in Handles : acked[g] \subseteq acked'[g]
      BY <2>2 DEF Success, TypeOK
    <3>3. \A g \in Handles, o \in Options : sent'[g][o] = sent[g][o]
      BY <2>2, AnsweredType, OptionCommands DEF Success, TypeOK
    <3> QED  BY <3>1, <3>2, <3>3, OtherSuccess
  <2>3. CASE Timeout(h, c) \/ Refused(h, c) \/ Dropped(h, c)
    <3>1. UNCHANGED <<index, taken, wanted, setBits, sampling, acked>>
      BY <2>3 DEF Timeout, Refused, Dropped, deviceVars, configVars
    <3>2. \/ sent' = sent
          \/ Answered(h, c)
      BY <2>3 DEF Timeout, Refused, Dropped
    <3>3. \A g \in Handles, o \in Commands :
            sent'[g][o] = sent[g][o]
              \/ (g = h /\ o = c /\ sent'[g][o] = sent[g][o] - 1)
      BY <2>3, <3>2, AnsweredType DEF Timeout, Refused, Dropped, TypeOK
    <3>4. \A g \in Handles : givenUp[g] \subseteq givenUp'[g]
      BY <2>3 DEF Timeout, Refused, Dropped, TypeOK
    <3>5. c \in Options => \/ sent' = sent
                           \/ c \in givenUp'[h]
      BY <2>3, LidarConfigAssumption DEF Timeout, Refused, Dropped, TypeOK
    <3>6. \A g \in Handles, o \in Options :
            /\ sent'[g][o] > 0 => sent[g][o] > 0
            /\ sent[g][o] > 0 => sent'[g][o] > 0 \/ o \in givenUp'[g]
      BY <3>3, <3>5, OptionCommands DEF TypeOK
    <3> QED  BY <3>1, <3>4, <3>6, QuietStep
  <2> QED  BY <1>5, <2>1, <2>2, <2>3
<1> QED  BY <1>1, <1>2, <1>3, <1>4, <1>5, NextSteps

(* The driver takes data only of LiDARs that acknowledged all options. *)
THEOREM ConfiguredBeforeSampling == Spec => []SamplingConfigured
<1>1. ConfigInv => SamplingConfigured
  BY DEF ConfigInv
<1> QED  BY TypeInit, TypeStep, DevicesInit, DevicesStep, ConfigInit,
            ConfigStep, <1>1, PTL DEF Spec

(* Every set bit is being asked for, or its option was given up. *)
THEOREM NoForgottenBit == Spec => []BitsAwaited
<1>1. ConfigInv => BitsAwaited
  BY DEF ConfigInv
<1> QED  BY TypeInit, TypeStep, DevicesInit, DevicesStep, ConfigInit,
            ConfigStep, <1>1, PTL DEF Spec
=============================================================================
