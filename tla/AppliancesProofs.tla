-------------------------- MODULE AppliancesProofs --------------------------
(***************************************************************************)
(* Proofs about Appliances, for any homes, delays, readings, positions and *)
(* number of calls: its type invariant, that a light that is on shines,    *)
(* that clients are told what every device is, and that the answer to a    *)
(* scene is true.  First comes what each write does to the dictionaries,   *)
(* then one invariant after the other, thread by thread.                   *)
(***************************************************************************)
EXTENDS Appliances, TLAPS

USE DEF boundVars, homeVars, commandVars, tickVars

Homely == [light : Lights, environment : Sensors, airConditioner : Airs,
           humidifier : Plain, bathHeater : Plain, curtain : Curtains]

(* Nothing but what is written of d changes. *)
Only(d) ==
  /\ d # "light" => dev'.light = dev.light
  /\ d # "environment" => dev'.environment = dev.environment
  /\ d # "airConditioner" => dev'.airConditioner = dev.airConditioner
  /\ d # "humidifier" => dev'.humidifier = dev.humidifier
  /\ d # "bathHeater" => dev'.bathHeater = dev.bathHeater
  /\ d # "curtain" => dev'.curtain = dev.curtain

LEMMA PutIs ==
  ASSUME TypeOK, NEW d \in Kinds, NEW s, Put(d, s)
  PROVE  dev'[d] = s /\ Only(d)
  <1>1. dev' = [dev EXCEPT ![d] = s] /\ DOMAIN dev = Kinds
    BY DEF Put, TypeOK, Kinds, Panels
  <1> QED
    BY <1>1 DEF Only, Kinds, Panels

LEMMA PutTypes ==
  ASSUME TypeOK, NEW d \in Kinds, NEW s, Put(d, s),
         /\ d = "light" => s \in Lights
         /\ d = "environment" => s \in Sensors
         /\ d = "airConditioner" => s \in Airs
         /\ d \in Panels => s \in Plain
         /\ d = "curtain" => s \in Curtains
  PROVE  dev' \in Homely
  <1>1. dev' = [dev EXCEPT ![d] = s]
    BY DEF Put
  <1>2. dev \in Homely
    BY DEF TypeOK, Homely
  <1>3. CASE d = "light"
    BY <1>1, <1>2, <1>3 DEF Homely
  <1>4. CASE d = "environment"
    BY <1>1, <1>2, <1>4 DEF Homely
  <1>5. CASE d = "airConditioner"
    BY <1>1, <1>2, <1>5 DEF Homely
  <1>6. CASE d = "humidifier"
    BY <1>1, <1>2, <1>6 DEF Homely, Panels
  <1>7. CASE d = "bathHeater"
    BY <1>1, <1>2, <1>7 DEF Homely, Panels
  <1>8. CASE d = "curtain"
    BY <1>1, <1>2, <1>8 DEF Homely
  <1> QED
    BY <1>3, <1>4, <1>5, <1>6, <1>7, <1>8 DEF Kinds, Panels

(* What one write to the light, of a command or of the tick, does to it. *)
LEMMA LightWrite ==
  ASSUME TypeOK, NEW s \in Lights, Put("light", s)
  PROVE  dev' \in Homely /\ Only("light") /\ dev'.light = s
  <1>1. "light" \in Kinds
    BY DEF Kinds
  <1>2. dev'["light"] = s /\ Only("light")
    BY <1>1, PutIs, Zenon
  <1>3. dev' \in Homely
    BY <1>1, PutTypes DEF Panels
  <1> QED
    BY <1>2, <1>3

LEMMA SensorWrite ==
  ASSUME TypeOK, NEW s \in Sensors, Put("environment", s)
  PROVE  dev' \in Homely /\ Only("environment") /\ dev'.environment = s
  <1>1. "environment" \in Kinds
    BY DEF Kinds
  <1>2. dev'["environment"] = s /\ Only("environment")
    BY <1>1, PutIs, Zenon
  <1>3. dev' \in Homely
    BY <1>1, PutTypes DEF Panels
  <1> QED
    BY <1>2, <1>3

LEMMA AirWrite ==
  ASSUME TypeOK, NEW s \in Airs, Put("airConditioner", s)
  PROVE  dev' \in Homely /\ Only("airConditioner") /\ dev'.airConditioner = s
  <1>1. "airConditioner" \in Kinds
    BY DEF Kinds
  <1>2. dev'["airConditioner"] = s /\ Only("airConditioner")
    BY <1>1, PutIs, Zenon
  <1>3. dev' \in Homely
    BY <1>1, PutTypes DEF Panels
  <1> QED
    BY <1>2, <1>3

LEMMA PanelWrite ==
  ASSUME TypeOK, NEW d \in Panels, NEW s \in Plain, Put(d, s)
  PROVE  dev' \in Homely /\ Only(d) /\ dev'[d] = s
  <1>1. d \in Kinds
    BY DEF Kinds
  <1>2. dev'[d] = s /\ Only(d)
    BY <1>1, PutIs, Zenon
  <1>3. dev' \in Homely
    BY <1>1, PutTypes DEF Panels
  <1> QED
    BY <1>2, <1>3

LEMMA CurtainWrite ==
  ASSUME TypeOK, NEW s \in Curtains, Put("curtain", s)
  PROVE  dev' \in Homely /\ Only("curtain") /\ dev'.curtain = s
  <1>1. "curtain" \in Kinds
    BY DEF Kinds
  <1>2. dev'["curtain"] = s /\ Only("curtain")
    BY <1>1, PutIs, Zenon
  <1>3. dev' \in Homely
    BY <1>1, PutTypes DEF Panels
  <1> QED
    BY <1>2, <1>3

(* What each write does, action by action. *)
LEMMA LightPowerDoes ==
  ASSUME TypeOK, LightPower
  PROVE  /\ dev' \in Homely /\ Only("light")
         /\ dev'.light.power <=> cmd.value = 1
         /\ ~dev'.light.automatic
         /\ dev'.light.brightness = dev.light.brightness
         /\ dev'.light.last = dev.light.last
  <1>1. PICK s : s = [dev.light EXCEPT !.power = cmd.value = 1, !.automatic = FALSE]
    OBVIOUS
  <1>2. Put("light", s)
    BY <1>1 DEF LightPower
  <1>3. dev.light \in Lights
    BY DEF TypeOK
  <1>4. /\ s \in Lights /\ ~s.automatic /\ s.brightness = dev.light.brightness
        /\ s.last = dev.light.last
    BY <1>1, <1>3 DEF Lights
  <1>5. s.power <=> cmd.value = 1
    BY <1>1, <1>3 DEF Lights
  <1> QED
    BY <1>2, <1>4, <1>5, LightWrite

LEMMA LightBrightDoes ==
  ASSUME TypeOK, LightBright
  PROVE  /\ dev' \in Homely /\ Only("light")
         /\ dev'.light.power = dev.light.power /\ dev'.light.automatic = dev.light.automatic
         /\ dev'.light.brightness > 0
  <1>1. PICK s : s = [dev.light EXCEPT !.brightness = dev.light.last]
    OBVIOUS
  <1>2. Put("light", s)
    BY <1>1 DEF LightBright
  <1>3. dev.light \in Lights
    BY DEF TypeOK
  <1>4. /\ s \in Lights /\ s.brightness > 0
        /\ s.power = dev.light.power /\ s.automatic = dev.light.automatic
    BY <1>1, <1>3 DEF Lights
  <1> QED
    BY <1>2, <1>4, LightWrite

LEMMA Dimmed ==
  ASSUME NEW l \in Lights, NEW v \in Nat, NEW n \in Nat \ {0},
         NEW s, s = [l EXCEPT !.brightness = v, !.power = v > 0, !.automatic = FALSE, !.last = n]
  PROVE  s \in Lights /\ (s.power => s.brightness > 0)
  <1>1. (v > 0) \in BOOLEAN
    OBVIOUS
  <1> QED
    BY <1>1 DEF Lights

LEMMA LightBrightnessDoes ==
  ASSUME TypeOK, LightBrightness
  PROVE  /\ dev' \in Homely /\ Only("light")
         /\ dev'.light.power => dev'.light.brightness > 0
  <1>1. dev.light \in Lights /\ cmd.value \in Nat
    BY DEF TypeOK, LightBrightness, Accepted, Driving
  <1>2. PICK l \in Nat \ {0} : l = IF cmd.value > 0 THEN cmd.value ELSE dev.light.last
    BY <1>1 DEF Lights
  <1>3. PICK s : s = [dev.light EXCEPT !.brightness = cmd.value, !.power = cmd.value > 0,
                                       !.automatic = FALSE, !.last = l]
    OBVIOUS
  <1>4. Put("light", s)
    <2>1. Put("light", [dev.light EXCEPT !.brightness = cmd.value, !.power = cmd.value > 0,
                                         !.automatic = FALSE,
                                         !.last = IF cmd.value > 0 THEN cmd.value
                                                                   ELSE dev.light.last])
      BY Zenon DEF LightBrightness
    <2> QED
      BY <1>2, <1>3, <2>1, Zenon
  <1>5. s \in Lights /\ (s.power => s.brightness > 0)
    BY <1>1, <1>3, Dimmed
  <1> QED
    BY <1>4, <1>5, LightWrite

LEMMA LightSettingsDo ==
  ASSUME TypeOK, LightManual \/ LightConfig
  PROVE  /\ dev' \in Homely /\ Only("light")
         /\ dev'.light.power = dev.light.power /\ dev'.light.automatic = dev.light.automatic
         /\ dev'.light.brightness = dev.light.brightness
  <1>1. PICK s : /\ \/ s = [dev.light EXCEPT !.override = seen["command"] + Override]
                    \/ s = [dev.light EXCEPT !.enabled = cmd.value = 1, !.override = None,
                                             !.since = None]
                 /\ Put("light", s)
    BY DEF LightManual, LightConfig
  <1>2. dev.light \in Lights /\ seen["command"] + Override \in Int /\ None \in Int
    BY ValuesAre DEF TypeOK, Threads, None
  <1>3. /\ s \in Lights /\ s.brightness = dev.light.brightness
        /\ s.power = dev.light.power /\ s.automatic = dev.light.automatic
    BY <1>1, <1>2 DEF Lights
  <1> QED
    BY <1>1, <1>3, LightWrite

LEMMA LightOnDoes ==
  ASSUME TypeOK, LightOn
  PROVE  dev' \in Homely /\ Only("light") /\ dev'.light.automatic
  <1>1. PICK s : s = [dev.light EXCEPT !.since = None, !.power = TRUE, !.automatic = TRUE]
    OBVIOUS
  <1>2. Put("light", s)
    BY <1>1 DEF LightOn
  <1>3. dev.light \in Lights /\ None \in Int
    BY DEF TypeOK, None
  <1>4. s \in Lights /\ s.automatic
    BY <1>1, <1>3 DEF Lights
  <1> QED
    BY <1>2, <1>4, LightWrite

LEMMA LightShineDoes ==
  ASSUME TypeOK, LightShine
  PROVE  /\ dev' \in Homely /\ Only("light")
         /\ dev'.light.power = dev.light.power /\ dev'.light.automatic = dev.light.automatic
         /\ dev'.light.brightness > 0
  <1>1. PICK s : s = [dev.light EXCEPT !.brightness = seen["tick"]]
    OBVIOUS
  <1>2. Put("light", s)
    BY <1>1 DEF LightShine
  <1>3. dev.light \in Lights /\ seen["tick"] \in Nat /\ seen["tick"] > 0
    BY DEF TypeOK, LightShine, Ticking, At, Threads
  <1>4. /\ s \in Lights /\ s.brightness > 0
        /\ s.power = dev.light.power /\ s.automatic = dev.light.automatic
    BY <1>1, <1>3 DEF Lights
  <1> QED
    BY <1>2, <1>4, LightWrite

LEMMA LightOffDoes ==
  ASSUME TypeOK, LightOff
  PROVE  dev' \in Homely /\ Only("light") /\ ~dev'.light.power
  <1>1. PICK s : s = [dev.light EXCEPT !.power = FALSE]
    OBVIOUS
  <1>2. Put("light", s)
    BY <1>1 DEF LightOff
  <1>3. dev.light \in Lights
    BY DEF TypeOK
  <1>4. s \in Lights /\ ~s.power
    BY <1>1, <1>3 DEF Lights
  <1> QED
    BY <1>2, <1>4, LightWrite

LEMMA LightStayDoes ==
  ASSUME TypeOK, LightStay
  PROVE  /\ dev' \in Homely /\ Only("light")
         /\ dev'.light.power = dev.light.power /\ dev'.light.automatic = dev.light.automatic
         /\ dev'.light.brightness = dev.light.brightness
         /\ Public("light")' = Public("light")
  <1>1. dev.light \in Lights /\ seen["tick"] \in Int /\ None \in Int /\ dev \in Homely
    BY DEF TypeOK, None, Threads, Homely
  <1>2. CASE UNCHANGED dev
    BY <1>1, <1>2 DEF Only, Public
  <1>3. CASE \E n \in {None, seen["tick"]} : Put("light", [dev.light EXCEPT !.since = n])
    <2>1. PICK n \in Int : Put("light", [dev.light EXCEPT !.since = n])
      BY <1>1, <1>3
    <2>2. PICK s : s = [dev.light EXCEPT !.since = n]
      OBVIOUS
    <2>3. /\ s \in Lights /\ s.brightness = dev.light.brightness
          /\ s.power = dev.light.power /\ s.automatic = dev.light.automatic
      BY <1>1, <2>2 DEF Lights
    <2>4. Put("light", s)
      BY <2>1, <2>2
    <2>5. dev' \in Homely /\ Only("light") /\ dev'.light = s
      BY <2>3, <2>4, LightWrite
    <2>6. [s EXCEPT !.since = None, !.automatic = FALSE]
          = [dev.light EXCEPT !.since = None, !.automatic = FALSE]
      BY <1>1, <2>2 DEF Lights
    <2>7. Public("light")' = Public("light")
      BY <2>5, <2>6 DEF Public
    <2> QED
      BY <2>3, <2>5, <2>7
  <1> QED
    BY <1>2, <1>3 DEF LightStay

LEMMA SensorDoes ==
  ASSUME TypeOK, SenseWrite \/ HoldReading
  PROVE  dev' \in Homely /\ Only("environment")
  <1>1. /\ dev.environment \in Sensors /\ seen["tick"] \in Int /\ now + Hold \in Int
    BY ValuesAre DEF TypeOK, Threads
  <1>2. CASE SenseWrite
    <2>1. PICK dark \in BOOLEAN :
            Put("environment", [dev.environment EXCEPT !.temperature = seen["tick"], !.dark = dark])
      BY <1>2 DEF SenseWrite
    <2>2. PICK s : s = [dev.environment EXCEPT !.temperature = seen["tick"], !.dark = dark]
      OBVIOUS
    <2>3. s \in Sensors
      BY <1>1, <2>2 DEF Sensors
    <2> QED
      BY <2>1, <2>2, <2>3, SensorWrite
  <1>3. CASE HoldReading
    <2>1. PICK s : s = [dev.environment EXCEPT !.held = now + Hold]
      OBVIOUS
    <2>2. s \in Sensors /\ Put("environment", s)
      BY <1>1, <1>3, <2>1 DEF Sensors, HoldReading
    <2> QED
      BY <2>2, SensorWrite
  <1> QED
    BY <1>2, <1>3

LEMMA SenseRecordDoes ==
  ASSUME TypeOK, SenseRecord
  PROVE  /\ dev' \in Homely /\ Only("environment")
         /\ \/ Dies /\ UNCHANGED dev
            \/ pc' = [pc EXCEPT !["tick"] = "touch"] /\ UNCHANGED <<tickVars, seen>>
            \/ Skip /\ At("tick", "review") /\ UNCHANGED dev
  <1>1. dev.environment \in Sensors /\ dev \in Homely
    BY DEF TypeOK, Homely
  <1>2. PICK valid \in BOOLEAN : valid = Plausible(dev.environment.temperature)
    BY DEF Plausible
  <1>3. PICK s : s = [dev.environment EXCEPT !.valid = valid]
    OBVIOUS
  <1>4. s \in Sensors
    BY <1>1, <1>3 DEF Sensors
  <1>5. CASE Dies /\ UNCHANGED dev
    BY <1>1, <1>5 DEF Dies, Only
  <1>6. CASE /\ Put("environment", s)
             /\ Goto("tick", "touch") /\ UNCHANGED <<tickVars, seen>>
    BY <1>4, <1>6, SensorWrite DEF Goto
  <1>7. CASE /\ Put("environment", s) /\ Skip
             /\ ~(At("tick", "record") \/ valid # dev.environment.valid)
    <2>1. At("tick", "review")
      BY <1>7 DEF SenseRecord, Ticking
    <2>2. s = dev.environment
      BY <1>1, <1>3, <1>7 DEF Sensors
    <2>3. dev' = dev
      BY <1>1, <1>7, <2>2 DEF Put, Homely
    <2> QED
      BY <1>1, <1>7, <2>1, <2>3 DEF Only
  <1>8. \/ Dies /\ UNCHANGED dev
        \/ /\ Put("environment", s)
           /\ Goto("tick", "touch") /\ UNCHANGED <<tickVars, seen>>
        \/ /\ Put("environment", s) /\ Skip
           /\ ~(At("tick", "record") \/ valid # dev.environment.valid)
    BY <1>2, <1>3 DEF SenseRecord
  <1> QED
    BY <1>5, <1>6, <1>7, <1>8

LEMMA InjectDoes ==
  ASSUME TypeOK, Inject
  PROVE  dev' \in Homely /\ Only("environment")
  <1>1. dev.environment \in Sensors /\ Injected \subseteq Int
    BY ValuesAre DEF TypeOK
  <1>2. PICK reading \in Injected, dark \in BOOLEAN, presence \in BOOLEAN :
          dev' \in {[dev EXCEPT !.environment.temperature = reading],
                   [dev EXCEPT !.environment.dark = dark],
                   [dev EXCEPT !.environment.presence = presence]}
    BY DEF Inject
  <1>3. PICK s : /\ s \in {[dev.environment EXCEPT !.temperature = reading],
                           [dev.environment EXCEPT !.dark = dark],
                           [dev.environment EXCEPT !.presence = presence]}
                 /\ dev' = [dev EXCEPT !.environment = s]
    BY <1>2
  <1>4. s \in Sensors
    BY <1>1, <1>2, <1>3 DEF Sensors
  <1>5. Put("environment", s)
    BY <1>3 DEF Put
  <1> QED
    BY <1>4, <1>5, SensorWrite

LEMMA AirDoes ==
  ASSUME TypeOK, AirPower \/ AirDry \/ AirAssign
  PROVE  /\ dev' \in Homely /\ Only("airConditioner")
         /\ AirPower => (dev'.airConditioner.power <=> cmd.value = 1)
         /\ AirPower => dev'.airConditioner.mode = dev.airConditioner.mode
         /\ AirPower => dev'.airConditioner.target = dev.airConditioner.target
  <1>1. dev.airConditioner \in Airs /\ cmd.value \in Int /\ Unsteady \in Int
    BY DEF TypeOK, Requests, Unsteady
  <1>2. CASE AirPower
    <2>1. PICK s : s = [dev.airConditioner EXCEPT !.power = cmd.value = 1]
      OBVIOUS
    <2>2. Put("airConditioner", s)
      BY <1>2, <2>1 DEF AirPower
    <2>3. /\ s \in Airs /\ s.mode = dev.airConditioner.mode
          /\ s.target = dev.airConditioner.target
      BY <1>1, <2>1 DEF Airs
    <2>4. s.power <=> cmd.value = 1
      BY <1>1, <2>1 DEF Airs
    <2> QED
      BY <2>2, <2>3, <2>4, AirWrite
  <1>3. CASE AirDry
    <2>1. PICK s : s = [dev.airConditioner EXCEPT !.mode = Unsteady, !.power = cmd.value = 1]
      OBVIOUS
    <2>2. Put("airConditioner", s) /\ s \in Airs
      BY <1>1, <1>3, <2>1 DEF AirDry, Airs
    <2>3. ~AirPower
      BY <1>3 DEF AirDry, AirPower, Accepted, Driving
    <2> QED
      BY <2>2, <2>3, AirWrite
  <1>4. CASE AirAssign
    <2>1. PICK s : /\ s \in {[dev.airConditioner EXCEPT !.mode = cmd.value],
                             [dev.airConditioner EXCEPT !.target = cmd.value]}
                   /\ Put("airConditioner", s)
      BY <1>4 DEF AirAssign
    <2>2. s \in Airs
      BY <1>1, <2>1 DEF Airs
    <2>3. ~AirPower
      BY <1>4 DEF AirAssign, AirPower, Accepted, Driving
    <2> QED
      BY <2>1, <2>2, <2>3, AirWrite
  <1> QED
    BY <1>2, <1>3, <1>4

LEMMA AirAssignDoes ==
  ASSUME TypeOK, AirAssign
  PROVE  /\ dev'.airConditioner.power = dev.airConditioner.power
         /\ cmd.action = "setMode" =>
              /\ dev'.airConditioner.mode = cmd.value
              /\ dev'.airConditioner.target = dev.airConditioner.target
         /\ cmd.action = "setTemperature" =>
              /\ dev'.airConditioner.target = cmd.value
              /\ dev'.airConditioner.mode = dev.airConditioner.mode
  <1>1. dev.airConditioner \in Airs /\ cmd.value \in Int
    BY DEF TypeOK, Requests
  <1>2. CASE cmd.action = "setMode"
    <2>1. PICK s : s = [dev.airConditioner EXCEPT !.mode = cmd.value]
      OBVIOUS
    <2>2. Put("airConditioner", s)
      BY <1>2, <2>1 DEF AirAssign, Driving
    <2>3. /\ s \in Airs /\ s.mode = cmd.value
          /\ s.target = dev.airConditioner.target /\ s.power = dev.airConditioner.power
      BY <1>1, <2>1 DEF Airs
    <2> QED
      BY <1>2, <2>2, <2>3, AirWrite
  <1>3. CASE cmd.action = "setTemperature"
    <2>1. PICK s : s = [dev.airConditioner EXCEPT !.target = cmd.value]
      OBVIOUS
    <2>2. Put("airConditioner", s)
      BY <1>3, <2>1 DEF AirAssign, Driving
    <2>3. /\ s \in Airs /\ s.target = cmd.value
          /\ s.mode = dev.airConditioner.mode /\ s.power = dev.airConditioner.power
      BY <1>1, <2>1 DEF Airs
    <2> QED
      BY <1>3, <2>2, <2>3, AirWrite
  <1> QED
    BY <1>2, <1>3 DEF AirAssign, Driving

LEMMA PanelDoes ==
  ASSUME TypeOK, HumidifierSet \/ HeaterSet
  PROVE  /\ dev' \in Homely /\ cmd.device \in Panels /\ Only(cmd.device)
         /\ cmd.action = "setPower" => (dev'[cmd.device].power <=> cmd.value = 1)
  <1>1. cmd.device \in Panels
    BY DEF HumidifierSet, HeaterSet, Accepted, Driving, Panels
  <1>2. dev[cmd.device] \in Plain /\ cmd.value \in Int
    BY <1>1 DEF TypeOK, Requests, Panels
  <1>3. CASE cmd.action = "setPower"
    <2>1. PICK s : s = [dev[cmd.device] EXCEPT !.power = cmd.value = 1]
      OBVIOUS
    <2>2. Put(cmd.device, s)
      BY <1>3, <2>1 DEF HumidifierSet, HeaterSet, Accepted, Driving
    <2>3. s \in Plain
      BY <1>2, <2>1 DEF Plain
    <2>4. s.power <=> cmd.value = 1
      BY <1>2, <2>1 DEF Plain
    <2> QED
      BY <1>1, <2>2, <2>3, <2>4, PanelWrite
  <1>4. CASE cmd.action = "set"
    <2>1. PICK s : s = [dev[cmd.device] EXCEPT !.setting = cmd.value]
      OBVIOUS
    <2>2. Put(cmd.device, s)
      BY <1>4, <2>1 DEF HumidifierSet, HeaterSet, Accepted, Driving
    <2>3. s \in Plain
      BY <1>2, <2>1 DEF Plain
    <2> QED
      BY <1>1, <1>4, <2>2, <2>3, PanelWrite
  <1> QED
    BY <1>3, <1>4 DEF HumidifierSet, HeaterSet, Accepted, Driving

LEMMA CurtainSteerDoes ==
  ASSUME TypeOK, CurtainSteer
  PROVE  /\ dev' \in Homely /\ Only("curtain")
         /\ cmd.action # "stop" => dev'.curtain.target = cmd.value
  <1>1. PICK to : to = IF cmd.action = "stop" THEN seen["command"] ELSE cmd.value
    OBVIOUS
  <1>2. dev.curtain \in Curtains /\ to \in Int
    BY <1>1 DEF TypeOK, Requests, Threads
  <1>3. PICK s : s = [dev.curtain EXCEPT !.target = to, !.moving = to # seen["command"]]
    OBVIOUS
  <1>4. Put("curtain", s)
    BY <1>1, <1>3 DEF CurtainSteer
  <1>5. s \in Curtains /\ s.target = to
    BY <1>2, <1>3 DEF Curtains
  <1> QED
    BY <1>1, <1>4, <1>5, CurtainWrite

LEMMA CurtainMoveDoes ==
  ASSUME TypeOK, CurtainMove
  PROVE  /\ dev' \in Homely /\ Only("curtain")
         /\ dev'.curtain.target = dev.curtain.target
         /\ \/ pc' = [pc EXCEPT !["tick"] = "touch"] /\ UNCHANGED <<tickVars, seen>>
            \/ Skip /\ UNCHANGED dev
  <1>1. PICK from, to : from = dev.curtain.position /\ to = seen["tick"]
    OBVIOUS
  <1>2. dev.curtain \in Curtains /\ from \in Int /\ to \in Int /\ dev \in Homely
    BY <1>1 DEF TypeOK, Curtains, Threads, Homely
  <1>3. PICK n : n = IF to > from THEN from + Least(10, to - from)
                                  ELSE from - Least(10, from - to)
    OBVIOUS
  <1>4. n \in Int /\ (from = to => n = from)
    BY <1>2, <1>3 DEF Least
  <1>5. PICK s : s = [dev.curtain EXCEPT !.position = n, !.moving = n # to]
    OBVIOUS
  <1>6. Put("curtain", s)
    BY <1>1, <1>3, <1>5 DEF CurtainMove
  <1>7. s \in Curtains /\ s.target = dev.curtain.target
    BY <1>2, <1>4, <1>5 DEF Curtains
  <1>8. IF from = to /\ ~dev.curtain.moving THEN Skip
        ELSE Goto("tick", "touch") /\ UNCHANGED <<tickVars, seen>>
    BY <1>1 DEF CurtainMove
  <1>9. dev' \in Homely /\ Only("curtain") /\ dev'.curtain = s
    BY <1>6, <1>7, CurtainWrite
  <1>10. CASE from = to /\ ~dev.curtain.moving
    <2>1. s = dev.curtain
      BY <1>1, <1>2, <1>4, <1>5, <1>10 DEF Curtains
    <2>2. dev' = dev
      BY <1>2, <1>6, <2>1 DEF Put, Homely
    <2> QED
      BY <1>7, <1>8, <1>9, <1>10, <2>2
  <1>11. CASE ~(from = to /\ ~dev.curtain.moving)
    BY <1>7, <1>8, <1>9, <1>11 DEF Goto
  <1> QED
    BY <1>10, <1>11

(* The steps of the scenes. *)
LEMMA StepsAre ==
  /\ DOMAIN Away = 1 .. 5 /\ DOMAIN Home = 1 .. 4
  /\ Away[1] = [device |-> "light", action |-> "setPower", value |-> 0, stale |-> FALSE]
  /\ Away[2] = [device |-> "airConditioner", action |-> "setPower", value |-> 0, stale |-> FALSE]
  /\ Away[3] = [device |-> "bathHeater", action |-> "setPower", value |-> 0, stale |-> FALSE]
  /\ Away[4] = [device |-> "humidifier", action |-> "setPower", value |-> 0, stale |-> FALSE]
  /\ Away[5] = [device |-> "curtain", action |-> "setPosition", value |-> 0, stale |-> FALSE]
  /\ Home[1] = [device |-> "light", action |-> "setBrightness", value |-> 2, stale |-> FALSE]
  /\ Home[2] = [device |-> "airConditioner", action |-> "setMode", value |-> 1, stale |-> FALSE]
  /\ Home[3] = [device |-> "airConditioner", action |-> "setTemperature", value |-> 24,
                stale |-> FALSE]
  /\ Home[4] = [device |-> "airConditioner", action |-> "setPower", value |-> 1, stale |-> FALSE]
  BY DEF Away, Home, Request, Steady

Sound(r) == r \in Requests /\ (r.action = "setBrightness" => r.value \in Nat \cup {Bad})

LEMMA StepTypes == \A i \in DOMAIN Steps : Sound(Steps[i])
  <1>1. \A i \in 1 .. 5 : Sound(Away[i])
    <2>1. Sound([device |-> "light", action |-> "setPower", value |-> 0, stale |-> FALSE])
      BY DEF Sound, Requests, Actions, Kinds, Panels
    <2>2. Sound([device |-> "airConditioner", action |-> "setPower", value |-> 0, stale |-> FALSE])
      BY DEF Sound, Requests, Actions, Kinds, Panels
    <2>3. Sound([device |-> "bathHeater", action |-> "setPower", value |-> 0, stale |-> FALSE])
      BY DEF Sound, Requests, Actions, Kinds, Panels
    <2>4. Sound([device |-> "humidifier", action |-> "setPower", value |-> 0, stale |-> FALSE])
      BY DEF Sound, Requests, Actions, Kinds, Panels
    <2>5. Sound([device |-> "curtain", action |-> "setPosition", value |-> 0, stale |-> FALSE])
      BY DEF Sound, Requests, Actions, Kinds, Panels
    <2>6. \A i \in 1 .. 5 : i \in {1, 2, 3, 4, 5}
      OBVIOUS
    <2> QED
      BY <2>1, <2>2, <2>3, <2>4, <2>5, <2>6, StepsAre
  <1>2. \A i \in 1 .. 4 : Sound(Home[i])
    <2>1. Sound([device |-> "light", action |-> "setBrightness", value |-> 2, stale |-> FALSE])
      BY DEF Sound, Requests, Actions, Kinds, Panels
    <2>2. Sound([device |-> "airConditioner", action |-> "setMode", value |-> 1, stale |-> FALSE])
      BY DEF Sound, Requests, Actions, Kinds, Panels
    <2>3. Sound([device |-> "airConditioner", action |-> "setTemperature", value |-> 24, stale |-> FALSE])
      BY DEF Sound, Requests, Actions, Kinds, Panels
    <2>4. Sound([device |-> "airConditioner", action |-> "setPower", value |-> 1, stale |-> FALSE])
      BY DEF Sound, Requests, Actions, Kinds, Panels
    <2>5. \A i \in 1 .. 4 : i \in {1, 2, 3, 4}
      OBVIOUS
    <2> QED
      BY <2>1, <2>2, <2>3, <2>4, <2>5, StepsAre
  <1> QED
    BY <1>1, <1>2, StepsAre DEF Steps

LEMMA OfferTypes == \A r \in Offers : Sound(r)
  <1> SUFFICES ASSUME NEW r \in Offers PROVE Sound(r)
    OBVIOUS
  <1>1. Asked \subseteq Int /\ Positions \subseteq Int
    BY ValuesAre
  <1>2. CASE r \in [device : {"light"},
                   action : {"setPower", "setBrightness", "setAutomationConfig"},
                   value : {0, 1, Bad}, stale : BOOLEAN]
    BY <1>2 DEF Sound, Requests, Actions, Kinds, Bad
  <1>3. CASE r \in [device : {"airConditioner"}, action : {"setPower", "setMode", "setDehumidify"},
                   value : {0, 1, Bad}, stale : BOOLEAN]
    <2>1. r.action # "setBrightness" /\ r.value \in Int /\ r.action \in Actions
      BY <1>3 DEF Bad, Actions
    <2> QED
      BY <1>3, <2>1 DEF Sound, Requests, Kinds
  <1>4. CASE r \in [device : {"airConditioner"}, action : {"setTemperature"}, value : Asked,
                   stale : BOOLEAN]
    BY <1>1, <1>4 DEF Sound, Requests, Actions, Kinds
  <1>5. CASE r \in [device : Panels, action : {"setPower", "set"}, value : {0, 1, Bad},
                   stale : BOOLEAN]
    BY <1>5 DEF Sound, Requests, Actions, Kinds, Bad
  <1>6. CASE r \in [device : {"curtain"}, action : {"setPosition"},
                   value : Positions \cup {Bad}, stale : BOOLEAN]
    <2>1. r.action = "setPosition" /\ r.value \in Positions \cup {Bad}
      BY <1>6
    <2>2. r.value \in Int
      <3>1. Bad \in Int
        BY DEF Bad
      <3> QED
        BY <1>1, <2>1, <3>1
    <2>3. r.device \in Kinds /\ r.action \in Actions
      BY <1>6 DEF Kinds, Actions
    <2> QED
      BY <1>6, <2>1, <2>2, <2>3 DEF Sound, Requests
  <1>7. CASE r \in [device : {"curtain"}, action : {"stop"}, value : {0}, stale : BOOLEAN]
    BY <1>7 DEF Sound, Requests, Actions, Kinds
  <1>8. CASE r \in [device : {"light"},
                   action : {"setPower", "setBrightness", "setAutomationConfig"},
                   value : {0, 1, Bad}, stale : {FALSE}]
    BY <1>2, <1>8
  <1>9. CASE r \in [device : {"airConditioner"}, action : {"setPower", "setMode", "setDehumidify"},
                   value : {0, 1, Bad}, stale : {FALSE}]
    BY <1>3, <1>9
  <1>10. CASE r \in [device : {"airConditioner"}, action : {"setTemperature"}, value : Asked,
                   stale : {FALSE}]
    BY <1>4, <1>10
  <1>11. CASE r \in [device : Panels, action : {"setPower", "set"}, value : {0, 1, Bad},
                   stale : {FALSE}]
    BY <1>5, <1>11
  <1>12. CASE r \in [device : {"curtain"}, action : {"setPosition"},
                   value : Positions \cup {Bad}, stale : {FALSE}]
    BY <1>6, <1>12
  <1>13. CASE r \in [device : {"curtain"}, action : {"stop"}, value : {0}, stale : {FALSE}]
    BY <1>7, <1>13
  <1> QED
    BY <1>8, <1>9, <1>10, <1>11, <1>12, <1>13 DEF Offers

LEMMA InitTypes == Init => TypeOK
  <1> SUFFICES ASSUME Init PROVE TypeOK
    OBVIOUS
  <1>1. dev \in Homely
    BY DEF Init, Homely, Lights, Sensors, Airs, Plain, Curtains, FreshLight, FreshSensor,
           FreshAir, FreshHumidifier, FreshHeater, FreshCurtain, None, Steady
  <1>2. cmd \in Requests /\ cmd.action # "setBrightness"
    BY DEF Init, Nothing, Request, Requests, Actions, Kinds
  <1>3. devices \subseteq Kinds
    BY HomesAre DEF Init
  <1> QED
    BY <1>1, <1>2, <1>3 DEF Init, TypeOK, Homely, At, Threads, Places, None, Kinds, Panels, Carriers

(* The steps of the telemetry worker. *)
LEMMA VisitTypes ==
  ASSUME TypeOK, NEW ds, ds \subseteq {"environment", "light", "curtain"}, Visit(ds)
  PROVE  /\ todo' \subseteq {"environment", "light", "curtain"}
         /\ pc' \in [Threads -> Places] /\ ~At("tick", "shine")'
         /\ pc'["command"] = pc["command"]
  BY DEF TypeOK, Visit, First, Goto, At, Threads, Places

LEMMA LeaveTypes ==
  ASSUME TypeOK, Leave
  PROVE  /\ todo' \subseteq {"environment", "light", "curtain"}
         /\ pc' \in [Threads -> Places] /\ ~At("tick", "shine")'
         /\ pc'["command"] = pc["command"] /\ alive' = alive
         /\ seen' \in [Threads -> Int]
  <1>1. todo \ {First(todo)} \subseteq {"environment", "light", "curtain"}
    BY DEF TypeOK
  <1>2. seen' \in [Threads -> Int]
    <2>1. seen' = [seen EXCEPT !["tick"] = None] /\ None \in Int
      BY DEF Leave, None
    <2> QED
      BY <2>1 DEF TypeOK
  <1> QED
    BY <1>1, <1>2, VisitTypes DEF Leave

(* What a step of the telemetry worker leaves to show. *)
TickTypes ==
  /\ dev' \in Homely /\ alive' \in BOOLEAN
  /\ pc' \in [Threads -> Places] /\ seen' \in [Threads -> Int]
  /\ (At("tick", "shine")' => seen'["tick"] > 0)
  /\ pc'["command"] = pc["command"]
  /\ todo' \subseteq {"environment", "light", "curtain"}
  /\ carrier' \in [Kinds -> Carriers]

LEMMA TickKeepsTypes ==
  ASSUME TypeOK, TickTypes, empty' \in Int, UNCHANGED <<boundVars, homeVars, commandVars, spot>>
  PROVE  TypeOK'
  <1>1. (At("command", "idle") \/ scene = "none" => plan = {})'
    BY DEF TypeOK, TickTypes, At
  <1>2. (plan \subseteq DOMAIN Steps)'
    BY DEF TypeOK, Steps
  <1> QED
    BY <1>1, <1>2 DEF TypeOK, TickTypes, Homely

LEMMA TickStartTypes ==
  ASSUME TypeOK, TickStart PROVE TypeOK'
  <1>1. /\ dev' \in Homely /\ alive' \in BOOLEAN /\ seen' \in [Threads -> Int]
        /\ carrier' \in [Kinds -> Carriers] /\ empty' \in Int
    BY DEF TickStart, Ticking, TypeOK, Homely
  <1>2. TickTypes
    BY <1>1, VisitTypes DEF TickStart, TickTypes
  <1> QED
    BY <1>1, <1>2, TickKeepsTypes DEF TickStart, Ticking

LEMMA PassedTypes ==
  ASSUME TypeOK, NEW t, NEW to \in Carriers
  PROVE  Passed(t, to) \in [Kinds -> Carriers]
  BY DEF TypeOK, Passed

LEMMA TickTellTypes ==
  ASSUME TypeOK, TickTell PROVE TypeOK'
  <1>1. /\ dev' \in Homely /\ alive' \in BOOLEAN /\ seen' \in [Threads -> Int]
        /\ todo' \subseteq {"environment", "light", "curtain"} /\ empty' \in Int
    BY DEF TickTell, Ticking, TypeOK, Homely
  <1>2. carrier' \in [Kinds -> Carriers]
    BY PassedTypes DEF TickTell, Carriers
  <1>3. pc' \in [Threads -> Places] /\ pc'["command"] = pc["command"] /\ ~At("tick", "shine")'
    BY DEF TypeOK, TickTell, Goto, At, Threads, Places
  <1> QED
    BY <1>1, <1>2, <1>3, TickKeepsTypes DEF TickTell, Ticking, TickTypes

LEMMA DiesTypes ==
  ASSUME TypeOK, Dies
  PROVE  /\ alive' = FALSE /\ todo' = {} /\ seen' = seen
         /\ pc' \in [Threads -> Places] /\ ~At("tick", "shine")'
         /\ pc'["command"] = pc["command"] /\ carrier' \in [Kinds -> Carriers]
  <1>1. carrier' \in [Kinds -> Carriers]
    BY PassedTypes DEF Dies, Carriers
  <1> QED
    BY <1>1 DEF TypeOK, Dies, Goto, At, Threads, Places

(* A step that goes on within the visit to a device. *)
LEMMA GoesOn ==
  ASSUME TypeOK, NEW p \in Places \ {"shine"}, Goto("tick", p), UNCHANGED tickVars,
         dev' \in Homely, seen' \in [Threads -> Int]
  PROVE  TickTypes
  BY DEF TypeOK, Goto, TickTypes, At, Threads

LEMMA Leaves ==
  ASSUME TypeOK, Skip, dev' \in Homely
  PROVE  TickTypes
  <1>1. alive' \in BOOLEAN /\ carrier' \in [Kinds -> Carriers]
    BY DEF TypeOK, Skip, Leave
  <1> QED
    BY <1>1, LeaveTypes DEF TickTypes, Skip

LEMMA SenseTypes ==
  ASSUME TypeOK, SenseDrift \/ SenseWrite \/ SenseRecord PROVE TypeOK'
  <1>1. dev \in Homely /\ seen \in [Threads -> Int] /\ dev.environment.temperature \in Int
    BY DEF TypeOK, Homely, Sensors
  <1>2. CASE SenseDrift
    <2>1. ASSUME Goto("tick", "review") /\ UNCHANGED seen
          PROVE  TickTypes
      BY <1>1, <1>2, <2>1, GoesOn DEF SenseDrift, Places
    <2>2. ASSUME /\ \E g \in Goals : \E new \in Drift(dev.environment.temperature, g) :
                      seen' = [seen EXCEPT !["tick"] = new]
                 /\ Goto("tick", "write")
          PROVE  TickTypes
      <3>1. PICK g \in Goals : \E new \in Drift(dev.environment.temperature, g) :
              seen' = [seen EXCEPT !["tick"] = new]
        BY <2>2
      <3>2. PICK new \in Drift(dev.environment.temperature, g) :
              seen' = [seen EXCEPT !["tick"] = new]
        BY <3>1
      <3>3. new \in Int
        BY <1>1, <3>2 DEF Drift, Rounded
      <3>4. seen' \in [Threads -> Int]
        BY <1>1, <3>2, <3>3
      <3> QED
        BY <1>1, <1>2, <2>2, <3>4, GoesOn DEF SenseDrift, Places
    <2>3. TickTypes
      BY <1>2, <2>1, <2>2 DEF SenseDrift
    <2> QED
      BY <1>2, <2>3, TickKeepsTypes DEF SenseDrift, Ticking, TypeOK
  <1>3. CASE SenseWrite
    <2>1. TickTypes
      BY <1>1, <1>3, SensorDoes, GoesOn DEF SenseWrite, Places
    <2> QED
      BY <1>3, <2>1, TickKeepsTypes DEF SenseWrite, Ticking, TypeOK
  <1>4. CASE SenseRecord
    <2>1. dev' \in Homely
      BY <1>4, SenseRecordDoes
    <2>2. ASSUME Dies
          PROVE  TickTypes
      BY <1>1, <2>1, <2>2, DiesTypes DEF TickTypes
    <2>3. ASSUME Skip
          PROVE  TickTypes
      BY <2>1, <2>3, Leaves
    <2>4. ASSUME Goto("tick", "touch") /\ UNCHANGED <<tickVars, seen>>
          PROVE  TickTypes
      BY <1>1, <2>1, <2>4, GoesOn DEF Places
    <2>5. TickTypes
      BY <1>4, <2>2, <2>3, <2>4 DEF SenseRecord
    <2> QED
      BY <1>4, <2>5, TickKeepsTypes DEF SenseRecord, Ticking, TypeOK
  <1> QED
    BY <1>2, <1>3, <1>4

LEMMA LightLookTypes ==
  ASSUME TypeOK, LightLook \/ LightFound \/ LightOverridden PROVE TypeOK'
  <1>1. dev' \in Homely /\ seen \in [Threads -> Int] /\ now \in Int
    BY DEF TypeOK, Homely, LightLook, LightFound, LightOverridden
  <1>2. ASSUME Skip
        PROVE  TickTypes
    BY <1>1, <1>2, Leaves
  <1>3. ASSUME Goto("tick", "find") /\ UNCHANGED <<tickVars, seen>>
        PROVE  TickTypes
    BY <1>1, <1>3, GoesOn DEF Places
  <1>4. ASSUME Goto("tick", "clock") /\ seen' = [seen EXCEPT !["tick"] = now] /\ UNCHANGED tickVars
        PROVE  TickTypes
    BY <1>1, <1>4, GoesOn DEF Places
  <1>5. ASSUME Goto("tick", "decide") /\ UNCHANGED <<tickVars, seen>>
        PROVE  TickTypes
    BY <1>1, <1>5, GoesOn DEF Places
  <1>6. TickTypes
    BY <1>2, <1>3, <1>4, <1>5 DEF LightLook, LightFound, LightOverridden
  <1> QED
    BY <1>6, TickKeepsTypes DEF LightLook, LightFound, LightOverridden, Ticking, TypeOK

LEMMA DecidingTypes == ASSUME TypeOK, Deciding PROVE empty' \in Int
  <1>1. None \in Int /\ seen["tick"] \in Int /\ empty \in Int
    BY DEF TypeOK, Threads, None
  <1> QED
    BY <1>1 DEF Deciding

LEMMA LightTickTypes ==
  ASSUME TypeOK, LightOn \/ LightShine \/ LightOff \/ LightStay PROVE TypeOK'
  <1>1. seen \in [Threads -> Int]
    BY DEF TypeOK
  <1>2. CASE LightOn
    <2>1. dev.light.last \in Int /\ dev.light.last > 0
      BY DEF TypeOK, Lights
    <2>2. seen' \in [Threads -> Int] /\ seen'["tick"] > 0
      BY <1>1, <1>2, <2>1 DEF LightOn, Threads
    <2>3. /\ pc' \in [Threads -> Places] /\ pc'["command"] = pc["command"]
          /\ UNCHANGED tickVars
      BY <1>2 DEF LightOn, Goto, TypeOK, Places, Threads
    <2>4. TickTypes
      BY <1>2, <2>2, <2>3, LightOnDoes DEF TickTypes, TypeOK
    <2> QED
      BY <1>2, <2>4, DecidingTypes, TickKeepsTypes DEF LightOn, Deciding
  <1>3. CASE LightShine
    <2>1. TickTypes
      BY <1>1, <1>3, LightShineDoes, GoesOn DEF LightShine, Places
    <2> QED
      BY <1>3, <2>1, TickKeepsTypes DEF LightShine, Ticking, TypeOK
  <1>4. CASE LightOff
    <2>1. TickTypes
      BY <1>1, <1>4, LightOffDoes, GoesOn DEF LightOff, Places
    <2> QED
      BY <1>4, <2>1, DecidingTypes, TickKeepsTypes DEF LightOff, Deciding
  <1>5. CASE LightStay
    <2>1. TickTypes
      BY <1>5, LightStayDoes, Leaves DEF LightStay
    <2> QED
      BY <1>5, <2>1, DecidingTypes, TickKeepsTypes DEF LightStay, Deciding
  <1> QED
    BY <1>2, <1>3, <1>4, <1>5

LEMMA CurtainTickTypes ==
  ASSUME TypeOK, CurtainLook \/ CurtainMove PROVE TypeOK'
  <1>1. seen \in [Threads -> Int] /\ dev \in Homely /\ dev.curtain.target \in Int
    BY DEF TypeOK, Homely, Curtains
  <1>2. CASE CurtainLook
    <2>1. ASSUME Skip
          PROVE  TickTypes
      BY <1>1, <1>2, <2>1, Leaves DEF CurtainLook
    <2>2. ASSUME /\ Goto("tick", "move") /\ seen' = [seen EXCEPT !["tick"] = dev.curtain.target]
                 /\ UNCHANGED tickVars
          PROVE  TickTypes
      <3>1. seen' \in [Threads -> Int] /\ dev' \in Homely
        BY <1>1, <1>2, <2>2 DEF CurtainLook
      <3> QED
        BY <2>2, <3>1, GoesOn DEF Places
    <2>3. TickTypes
      BY <1>2, <2>1, <2>2 DEF CurtainLook
    <2> QED
      BY <1>2, <2>3, TickKeepsTypes DEF CurtainLook, Ticking, TypeOK
  <1>3. CASE CurtainMove
    <2>1. dev' \in Homely
      BY <1>3, CurtainMoveDoes
    <2>2. ASSUME Skip
          PROVE  TickTypes
      BY <2>1, <2>2, Leaves
    <2>3. ASSUME pc' = [pc EXCEPT !["tick"] = "touch"] /\ UNCHANGED <<tickVars, seen>>
          PROVE  TickTypes
      BY <1>1, <2>1, <2>3, GoesOn DEF Places, Goto
    <2>4. TickTypes
      BY <1>3, <2>2, <2>3, CurtainMoveDoes
    <2> QED
      BY <1>3, <2>4, TickKeepsTypes DEF CurtainMove, Ticking, TypeOK
  <1> QED
    BY <1>2, <1>3

(* The steps of the command worker that write to a device. *)
LEMMA DriveKeepsTypes ==
  ASSUME TypeOK, NEW p \in Places \ {"idle"}, Goto("command", p),
         dev' \in Homely, seen' \in [Threads -> Int], seen'["tick"] = seen["tick"],
         UNCHANGED <<boundVars, homeVars, commandVars, tickVars, spot, empty>>
  PROVE  TypeOK'
  <1>1. /\ pc' \in [Threads -> Places] /\ pc'["tick"] = pc["tick"] /\ pc'["command"] = p
    BY DEF TypeOK, Goto, Threads
  <1>2. (At("command", "idle") \/ scene = "none" => plan = {})'
    BY <1>1 DEF TypeOK, At
  <1>3. (plan \subseteq DOMAIN Steps)'
    BY DEF TypeOK, Steps
  <1>4. (At("tick", "shine") => seen["tick"] > 0)'
    BY <1>1 DEF TypeOK, At
  <1> QED
    BY <1>1, <1>2, <1>3, <1>4 DEF TypeOK, Homely

LEMMA SeenTypes ==
  ASSUME TypeOK, NEW v \in Int, seen' = [seen EXCEPT !["command"] = v]
  PROVE  seen' \in [Threads -> Int] /\ seen'["tick"] = seen["tick"]
  BY DEF TypeOK, Threads

LEMMA DriveTypes ==
  ASSUME TypeOK, LightPower \/ LightBright \/ LightBrightness \/ LightManual \/ LightConfig
                 \/ AirPower \/ AirDry \/ AirAssign \/ HumidifierSet \/ HeaterSet
                 \/ CurtainRead \/ CurtainSteer
  PROVE  TypeOK'
  <1>1. now \in Int /\ dev.curtain.position \in Int /\ dev \in Homely
        /\ seen \in [Threads -> Int]
    BY DEF TypeOK, Curtains, Homely
  <1>2. CASE LightPower
    <2>1. seen' = [seen EXCEPT !["command"] = now]
      BY <1>2 DEF LightPower
    <2>2. PICK p \in {"bright", "manual"} : Goto("command", p)
      BY <1>2, Zenon DEF LightPower
    <2>3. p \in Places \ {"idle"}
      BY DEF Places
    <2> QED
      BY <1>1, <1>2, <2>1, <2>2, <2>3, SeenTypes, LightPowerDoes, DriveKeepsTypes
         DEF LightPower, Accepted, Driving
  <1>3. CASE LightBright
    BY <1>1, <1>3, LightBrightDoes, DriveKeepsTypes DEF LightBright, Places
  <1>4. CASE LightBrightness
    BY <1>1, <1>4, SeenTypes, LightBrightnessDoes, DriveKeepsTypes
       DEF LightBrightness, Accepted, Driving, Places
  <1>5. CASE LightManual
    BY <1>1, <1>5, LightSettingsDo, DriveKeepsTypes DEF LightManual, Places
  <1>6. CASE LightConfig
    BY <1>1, <1>6, LightSettingsDo, DriveKeepsTypes DEF LightConfig, Accepted, Driving, Places
  <1>7. CASE AirPower
    BY <1>1, <1>7, AirDoes, DriveKeepsTypes DEF AirPower, Accepted, Driving, Places
  <1>8. CASE AirDry
    BY <1>1, <1>8, AirDoes, DriveKeepsTypes DEF AirDry, Accepted, Driving, Places
  <1>9. CASE AirAssign
    BY <1>1, <1>9, AirDoes, DriveKeepsTypes DEF AirAssign, Driving, Places
  <1>10. CASE HumidifierSet
    BY <1>1, <1>10, PanelDoes, DriveKeepsTypes DEF HumidifierSet, Accepted, Driving, Places
  <1>11. CASE HeaterSet
    BY <1>1, <1>11, PanelDoes, DriveKeepsTypes DEF HeaterSet, Accepted, Driving, Places
  <1>12. CASE CurtainRead
    BY <1>1, <1>12, SeenTypes, DriveKeepsTypes DEF CurtainRead, Accepted, Driving, Places
  <1>13. CASE CurtainSteer
    BY <1>1, <1>13, CurtainSteerDoes, DriveKeepsTypes DEF CurtainSteer, Places
  <1> QED
    BY <1>2, <1>3, <1>4, <1>5, <1>6, <1>7, <1>8, <1>9, <1>10, <1>11, <1>12, <1>13

(* The steps of the command worker that decide. *)
LEMMA FailTypes ==
  ASSUME TypeOK, Fail, carrier' \in [Kinds -> Carriers],
         UNCHANGED <<boundVars, homeVars, dev, todo, alive, seen, spot, empty>>
  PROVE  TypeOK'
  <1>1. /\ pc' \in [Threads -> Places] /\ pc'["tick"] = pc["tick"] /\ pc'["command"] = "fetch"
    BY DEF TypeOK, Fail, Goto, Threads, Places
  <1>2. outcome' \in [Kinds -> {"none", "ok", "failed"}]
    BY DEF TypeOK, Fail, Requests
  <1>3. plan' \subseteq plan /\ UNCHANGED <<cmd, scene, reply>>
    BY DEF Fail
  <1>4. (At("command", "idle") \/ scene = "none" => plan = {})'
    BY <1>1, <1>3 DEF TypeOK, At
  <1>5. (plan \subseteq DOMAIN Steps)'
    BY <1>3 DEF TypeOK, Steps
  <1>6. (At("tick", "shine") => seen["tick"] > 0)'
    BY <1>1 DEF TypeOK, At
  <1> QED
    BY <1>1, <1>2, <1>3, <1>4, <1>5, <1>6 DEF TypeOK

LEMMA DecideTypes ==
  ASSUME TypeOK, Check \/ Refuse \/ AirEncode PROVE TypeOK'
  <1>1. dev \in Homely /\ seen \in [Threads -> Int]
    BY DEF TypeOK, Homely
  <1>2. UNCHANGED <<boundVars, homeVars, dev, todo, alive, seen, spot, empty>>
    BY DEF Check, Refuse, AirEncode
  <1>3. CASE Fail
    <2>1. carrier' = carrier \/ carrier' = [carrier EXCEPT !["airConditioner"] = "lost"]
      BY DEF Check, Refuse, AirEncode
    <2>2. carrier' \in [Kinds -> Carriers]
      BY <2>1 DEF TypeOK, Carriers
    <2> QED
      BY <1>2, <1>3, <2>2, FailTypes
  <1>4. CASE Goto("command", "drive") /\ UNCHANGED <<commandVars, carrier>>
    BY <1>1, <1>2, <1>4, DriveKeepsTypes DEF Places
  <1>5. CASE Goto("command", "touch") /\ UNCHANGED <<commandVars, carrier>>
    BY <1>1, <1>2, <1>5, DriveKeepsTypes DEF Places
  <1> QED
    BY <1>3, <1>4, <1>5 DEF Check, Refuse, AirEncode

LEMMA SubmitTypes ==
  ASSUME TypeOK, Submit \/ SubmitScene PROVE TypeOK'
  <1>1. PICK p \in {"check", "fetch"} : Goto("command", p)
    BY DEF Submit, SubmitScene
  <1>2. /\ pc' \in [Threads -> Places] /\ pc'["tick"] = pc["tick"] /\ pc'["command"] = p
    BY <1>1 DEF TypeOK, Goto, Threads, Places
  <1>3. (At("tick", "shine") => seen["tick"] > 0)'
    BY <1>2 DEF TypeOK, At, Submit, SubmitScene
  <1>4. /\ outcome' \in [Kinds -> {"none", "ok", "failed"}] /\ reply' = "none"
        /\ UNCHANGED <<now, homeVars, dev, tickVars, seen, spot, empty>>
    BY DEF Submit, SubmitScene
  <1>5. CASE Submit
    <2>1. Sound(cmd')
      BY <1>5, OfferTypes DEF Submit
    <2>2. plan' = {} /\ scene' = "none"
      BY <1>5 DEF Submit, TypeOK, At
    <2> QED
      BY <1>2, <1>3, <1>4, <2>1, <2>2 DEF TypeOK, Sound
  <1>6. CASE SubmitScene
    <2>1. /\ scene' \in {"away", "home"} /\ cmd' = cmd
          /\ scene' = "away" => plan' \subseteq DOMAIN Away
          /\ scene' = "home" => plan' \subseteq DOMAIN Home
      BY <1>6 DEF SubmitScene
    <2>2. (plan \subseteq DOMAIN Steps)'
      BY <2>1 DEF Steps
    <2>3. (At("command", "idle") \/ scene = "none" => plan = {})'
      BY <1>2, <2>1 DEF At
    <2> QED
      BY <1>2, <1>3, <1>4, <2>1, <2>2, <2>3 DEF TypeOK
  <1> QED
    BY <1>5, <1>6

LEMMA FetchTypes ==
  ASSUME TypeOK, Fetch PROVE TypeOK'
  <1>1. PICK i \in plan : cmd' = Steps[i] /\ plan' = plan \ {i}
    BY DEF Fetch
  <1>2. i \in DOMAIN Steps
    BY DEF TypeOK
  <1>3. Sound(cmd')
    BY <1>1, <1>2, StepTypes
  <1>4. /\ pc' \in [Threads -> Places] /\ pc'["tick"] = pc["tick"] /\ pc'["command"] = "check"
    BY DEF TypeOK, Fetch, Goto, Threads, Places
  <1>5. /\ UNCHANGED <<boundVars, homeVars, dev, scene, outcome, reply, tickVars, seen, spot, empty>>
    BY DEF Fetch
  <1>6. (At("command", "idle") \/ scene = "none" => plan = {})'
    BY <1>1, <1>4, <1>5 DEF TypeOK, At
  <1>7. (plan \subseteq DOMAIN Steps)'
    BY <1>1, <1>5 DEF TypeOK, Steps
  <1>8. (At("tick", "shine") => seen["tick"] > 0)'
    BY <1>4, <1>5 DEF TypeOK, At
  <1> QED
    BY <1>3, <1>4, <1>5, <1>6, <1>7, <1>8 DEF TypeOK, Sound

LEMMA AnswerTypes ==
  ASSUME TypeOK, Answer \/ AnswerScene \/ AnswerFails PROVE TypeOK'
  <1>1. Answered
    BY DEF Answer, AnswerScene, AnswerFails
  <1>2. /\ pc' \in [Threads -> Places] /\ pc'["tick"] = pc["tick"]
    BY <1>1 DEF TypeOK, Answered, Goto, Threads, Places
  <1>3. outcome' \in [Kinds -> {"none", "ok", "failed"}]
    BY DEF TypeOK, Answer, AnswerScene, AnswerFails
  <1>4. reply' \in {"none", "told", "error"}
    BY DEF TypeOK, Answer, AnswerScene, AnswerFails
  <1>5. cmd' \in Requests /\ cmd'.action = "setPower"
    BY <1>1 DEF Answered, Nothing, Request, Requests, Kinds, Actions
  <1>6. plan' = {} /\ UNCHANGED <<boundVars, homeVars, dev, scene, todo, alive, spot, empty>>
    BY <1>1 DEF Answered
  <1>7. seen' \in [Threads -> Int] /\ seen'["tick"] = seen["tick"]
    <2>1. seen' = [seen EXCEPT !["command"] = None] /\ None \in Int
      BY <1>1 DEF Answered, None
    <2> QED
      BY <2>1, SeenTypes
  <1>8. (At("tick", "shine") => seen["tick"] > 0)'
    BY <1>2, <1>7 DEF TypeOK, At
  <1>9. carrier' \in [Kinds -> Carriers]
    <2>1. Passed("command", "leaving") \in [Kinds -> Carriers]
          /\ Passed("command", "lost") \in [Kinds -> Carriers]
      BY PassedTypes DEF Carriers
    <2> QED
      BY <2>1 DEF Answer, AnswerScene, AnswerFails, Carriers
  <1> QED
    BY <1>2, <1>3, <1>4, <1>5, <1>6, <1>7, <1>8, <1>9 DEF TypeOK

LEMMA SendTypes ==
  ASSUME TypeOK, NEW d \in Kinds, Send(d) PROVE TypeOK'
  <1>1. carrier' \in [Kinds -> Carriers]
    BY DEF TypeOK, Send, Carriers
  <1> QED
    BY <1>1 DEF TypeOK, Send, At, Steps

(* _touch, the event loop, deletions and time. *)
LEMMA TouchTypes ==
  ASSUME TypeOK, TouchCommand \/ TouchOther("tick") \/ TouchOther("loop") PROVE TypeOK'
  <1>0. carrier' \in [Kinds -> Carriers]
    BY DEF TypeOK, TouchCommand, TouchOther, Touch, Carriers, Threads
  <1>1. dev \in Homely /\ seen \in [Threads -> Int] /\ cmd \in Requests
    BY DEF TypeOK, Homely
  <1>2. CASE TouchCommand
    <2>1. /\ pc' \in [Threads -> Places] /\ pc'["tick"] = pc["tick"]
          /\ pc'["command"] = "fetch"
      BY <1>2 DEF TypeOK, TouchCommand, Goto, Threads, Places
    <2>2. outcome' \in [Kinds -> {"none", "ok", "failed"}]
      BY <1>2 DEF TypeOK, TouchCommand, Requests
    <2>3. UNCHANGED <<boundVars, homeVars, dev, plan, scene, reply, empty, cmd, todo, alive, seen, spot>>
      BY <1>2 DEF TouchCommand, Touch
    <2>4. (At("command", "idle") \/ scene = "none" => plan = {})'
      BY <2>1, <2>3 DEF TypeOK, At
    <2>5. (plan \subseteq DOMAIN Steps)'
      BY <2>3 DEF TypeOK, Steps
    <2>6. (At("tick", "shine") => seen["tick"] > 0)'
      BY <2>1, <2>3 DEF TypeOK, At
    <2> QED
      BY <1>0, <2>1, <2>2, <2>3, <2>4, <2>5, <2>6 DEF TypeOK
  <1>3. ASSUME NEW t \in {"tick", "loop"}, TouchOther(t)
        PROVE  TypeOK'
    <2>1. UNCHANGED <<boundVars, homeVars, dev, plan, scene, reply, empty, outcome, spot>>
      BY <1>3 DEF TouchOther, Touch
    <2>2. cmd' = cmd \/ cmd' = Late
      BY <1>3, Zenon DEF TouchOther
    <2>3. cmd' \in Requests /\ cmd'.action = cmd.action /\ cmd'.value = cmd.value
      BY <1>1, <2>2 DEF Late, Requests
    <2>4. /\ pc' \in [Threads -> Places] /\ pc'["command"] = pc["command"]
          /\ seen' \in [Threads -> Int] /\ alive' = alive
          /\ todo' \subseteq {"environment", "light", "curtain"}
          /\ (At("tick", "shine")' => seen'["tick"] > 0)
      <3>1. CASE t = "tick"
        BY <1>3, <3>1, LeaveTypes DEF TouchOther, Leave
      <3>2. CASE t = "loop"
        <4>1. pc' = [pc EXCEPT !["loop"] = "idle"] /\ UNCHANGED <<todo, alive, seen>>
          BY <1>3, <3>2 DEF TouchOther, Goto
        <4>2. /\ pc' \in [Threads -> Places] /\ pc'["command"] = pc["command"]
              /\ pc'["tick"] = pc["tick"]
          BY <4>1 DEF TypeOK, Threads, Places
        <4> QED
          BY <4>1, <4>2 DEF TypeOK, At
      <3> QED
        BY <1>3, <3>1, <3>2
    <2>5. (At("command", "idle") \/ scene = "none" => plan = {})'
      BY <2>1, <2>4 DEF TypeOK, At
    <2>6. (plan \subseteq DOMAIN Steps)'
      BY <2>1 DEF TypeOK, Steps
    <2> QED
      BY <1>0, <2>1, <2>3, <2>4, <2>5, <2>6 DEF TypeOK
  <1> QED
    BY <1>2, <1>3

LEMMA OthersTypes ==
  ASSUME TypeOK, Fault \/ Inject \/ HoldReading \/ Remove \/ Pass PROVE TypeOK'
  <1>1. dev' \in Homely /\ seen' = seen
    BY InjectDoes, SensorDoes
       DEF TypeOK, Homely, Fault, Inject, Injecting, HoldReading, Remove, Dies, Pass
  <1>2. UNCHANGED <<cmd, plan, scene, outcome, reply>>
    BY DEF Fault, Inject, Injecting, HoldReading, Remove, Pass
  <1>3. /\ now' \in Nat /\ devices' \subseteq Kinds /\ spot' \in Kinds
    BY DEF TypeOK, Fault, Inject, Injecting, HoldReading, Remove, Pass, Kinds
  <1>4. online' \in [Kinds -> BOOLEAN]
    <2>1. CASE Fault
      <3>1. PICK d \in devices : online' \in {online, [online EXCEPT ![d] = ~@]}
        BY <2>1 DEF Fault
      <3> QED
        BY <3>1 DEF TypeOK
    <2> QED
      BY <2>1 DEF TypeOK, Inject, HoldReading, Remove, Pass
  <1>5. empty' \in Int
    BY DEF TypeOK, Fault, Inject, Injecting, HoldReading, Remove, Pass, None
  <1>6. /\ pc' \in [Threads -> Places] /\ pc'["command"] = pc["command"]
        /\ alive' \in BOOLEAN /\ todo' \subseteq {"environment", "light", "curtain"}
        /\ (At("tick", "shine")' => At("tick", "shine"))
        /\ carrier' \in [Kinds -> Carriers]
    <2>1. CASE Fault \/ Inject \/ HoldReading
      BY <2>1 DEF TypeOK, Fault, Inject, Injecting, HoldReading, Goto, At, Threads, Places
    <2>2. CASE Remove
      BY <2>2, DiesTypes DEF TypeOK, Remove, At
    <2>3. CASE Pass
      BY <2>3 DEF TypeOK, Pass, At
    <2> QED
      BY <2>1, <2>2, <2>3
  <1>7. (At("command", "idle") \/ scene = "none" => plan = {})'
    BY <1>2, <1>6 DEF TypeOK, At
  <1>8. (plan \subseteq DOMAIN Steps)'
    BY <1>2 DEF TypeOK, Steps
  <1>9. (At("tick", "shine") => seen["tick"] > 0)'
    BY <1>1, <1>6 DEF TypeOK
  <1> QED
    BY <1>1, <1>2, <1>3, <1>4, <1>5, <1>6, <1>7, <1>8, <1>9 DEF TypeOK, Homely

LEMMA NextTypes == TypeOK /\ [Next]_vars => TypeOK'
  <1> SUFFICES ASSUME TypeOK, [Next]_vars PROVE TypeOK'
    OBVIOUS
  <1>1. CASE UNCHANGED vars
    BY <1>1 DEF vars, TypeOK, At, Steps
  <1>2. CASE Submit \/ SubmitScene
    BY <1>2, SubmitTypes
  <1>3. CASE CommandStep
    BY <1>3, FetchTypes, DecideTypes, DriveTypes, AnswerTypes, TouchTypes DEF CommandStep, Drive
  <1>6. CASE \E d \in Kinds : Send(d)
    BY <1>6, SendTypes
  <1>4. CASE TickStep
    BY <1>4, TickStartTypes, TickTellTypes, SenseTypes, LightLookTypes, LightTickTypes, CurtainTickTypes,
       TouchTypes DEF TickStep, Tick
  <1>5. CASE Fault \/ Inject \/ Remove \/ LoopStep \/ Pass
    BY <1>5, OthersTypes, TouchTypes DEF LoopStep
  <1> QED
    BY <1>1, <1>2, <1>3, <1>4, <1>5, <1>6 DEF Next

(* Every dictionary keeps its types, whatever is asked or injected, a plan *)
(* is of steps of the scene, and the last brightness of a light, to which  *)
(* it goes back, is not zero.                                              *)
THEOREM TypeCorrect == Spec => []TypeOK
  <1> QED
    BY InitTypes, NextTypes, PTL DEF Spec

-----------------------------------------------------------------------------
(* What changes where a thread is. *)
LEMMA Moves ==
  ASSUME TypeOK, NEW t \in Threads, NEW p, Goto(t, p)
  PROVE  pc'[t] = p /\ \A u \in Threads \ {t} : pc'[u] = pc[u]
  BY DEF TypeOK, Goto

FitsCommand ==
  /\ pc["command"] \in {"bright", "manual"} => cmd.device = "light"
  /\ At("command", "encode") => cmd.device = "airConditioner"
  /\ At("command", "steer")  => cmd.device = "curtain"

FitsTick ==
  /\ pc["tick"] \in {"environment", "write", "record", "review"} => First(todo) = "environment"
  /\ pc["tick"] \in {"light", "find", "clock", "decide", "shine"} => First(todo) = "light"
  /\ pc["tick"] \in {"curtain", "move"} => First(todo) = "curtain"
  /\ At("tick", "touch") => First(todo) # "tell"

FitsLoop == At("loop", "hold") => spot = "environment"

LEMMA Fits == PlacesFit <=> FitsCommand /\ FitsTick /\ FitsLoop
  BY DEF PlacesFit, FitsCommand, FitsTick, FitsLoop, About, At

(* The steps that leave the place of a thread alone leave it fitting. *)
LEMMA StillFits ==
  ASSUME PlacesFit
  PROVE  /\ (pc'["command"] = pc["command"] /\ cmd'.device = cmd.device => FitsCommand')
         /\ (pc'["tick"] = pc["tick"] /\ todo' = todo => FitsTick')
         /\ (pc'["loop"] = pc["loop"] /\ spot' = spot => FitsLoop')
  BY Fits DEF FitsCommand, FitsTick, FitsLoop, At, First

LEMMA VisitFits ==
  ASSUME TypeOK, NEW ds, Visit(ds)
  PROVE  FitsTick' /\ \A u \in {"command", "loop"} : pc'[u] = pc[u]
  <1>1. pc'["tick"] = First(ds) /\ todo' = ds /\ \A u \in {"command", "loop"} : pc'[u] = pc[u]
    BY Moves DEF Visit, Threads
  <1>2. First(ds) \in {"environment", "light", "curtain", "tell"}
    BY DEF First
  <1>3. FitsTick'
    BY <1>1, <1>2 DEF FitsTick, At
  <1> QED
    BY <1>1, <1>3

LEMMA LeaveFits ==
  ASSUME TypeOK, Leave
  PROVE  FitsTick' /\ \A u \in {"command", "loop"} : pc'[u] = pc[u]
  <1>1. PICK ds : Visit(ds)
    BY DEF Leave
  <1> QED
    BY <1>1, VisitFits

LEMMA DiesFits ==
  ASSUME TypeOK, Dies
  PROVE  FitsTick' /\ \A u \in {"command", "loop"} : pc'[u] = pc[u]
  <1>1. pc'["tick"] = "idle" /\ \A u \in {"command", "loop"} : pc'[u] = pc[u]
    BY Moves DEF Dies, Threads
  <1> QED
    BY <1>1 DEF FitsTick, At

LEMMA TickFits ==
  ASSUME TypeOK, PlacesFit, Tick
  PROVE  FitsTick' /\ \A u \in {"command", "loop"} : pc'[u] = pc[u]
  <1> USE Moves DEF Threads
  <1>1. CASE TickStart
    BY <1>1, VisitFits DEF TickStart
  <1>11. CASE TickTell
    BY <1>11 DEF TickTell, FitsTick, At
  <1>2. CASE Skip
    BY <1>2, LeaveFits DEF Skip
  <1>3. CASE Dies
    BY <1>3, DiesFits
  <1>4. ASSUME NEW p, Goto("tick", p), todo' = todo,
               \/ /\ pc["tick"] \in {"environment", "write", "record", "review"}
                  /\ p \in {"write", "record", "review", "touch"}
               \/ /\ pc["tick"] \in {"light", "find", "clock", "decide", "shine"}
                  /\ p \in {"find", "clock", "decide", "shine", "touch"}
               \/ /\ pc["tick"] \in {"curtain", "move"} /\ p \in {"move", "touch"}
        PROVE  FitsTick' /\ \A u \in {"command", "loop"} : pc'[u] = pc[u]
    <2>1. pc'["tick"] = p /\ \A u \in {"command", "loop"} : pc'[u] = pc[u]
      BY <1>4
    <2>2. First(todo)' = First(todo)
      BY <1>4 DEF First
    <2>3. FitsTick
      BY Fits
    <2>4. FitsTick'
      BY <1>4, <2>1, <2>2, <2>3 DEF FitsTick, At
    <2> QED
      BY <2>1, <2>4
  <1>5. CASE SenseDrift \/ SenseWrite
    BY <1>4, <1>5 DEF SenseDrift, SenseWrite, Ticking, At
  <1>6. CASE SenseRecord
    BY <1>2, <1>3, <1>4, <1>6 DEF SenseRecord, Ticking, At
  <1>7. CASE LightLook \/ LightFound \/ LightOverridden
    BY <1>2, <1>4, <1>7 DEF LightLook, LightFound, LightOverridden, Ticking, At
  <1>8. CASE LightOn \/ LightShine \/ LightOff \/ LightStay
    BY <1>2, <1>4, <1>8 DEF LightOn, LightShine, LightOff, LightStay, Deciding, Ticking, At
  <1>9. CASE CurtainLook
    BY <1>2, <1>4, <1>9 DEF CurtainLook, Ticking, At
  <1>10. CASE CurtainMove
    BY <1>2, <1>4, <1>10, CurtainMoveDoes DEF CurtainMove, Goto, Ticking, At
  <1> QED
    BY <1>1, <1>5, <1>6, <1>7, <1>8, <1>9, <1>10, <1>11 DEF Tick

LEMMA CommandFits ==
  ASSUME TypeOK, PlacesFit,
         Submit \/ SubmitScene \/ Fetch \/ Check \/ Drive \/ Answered
  PROVE  FitsCommand' /\ \A u \in {"tick", "loop"} : pc'[u] = pc[u]
  <1> USE Moves DEF Threads
  <1>1. ASSUME NEW p, Goto("command", p), p \in {"check", "drive", "fetch", "idle", "touch"}
        PROVE  FitsCommand' /\ \A u \in {"tick", "loop"} : pc'[u] = pc[u]
    <2>1. pc'["command"] = p /\ \A u \in {"tick", "loop"} : pc'[u] = pc[u]
      BY <1>1
    <2> QED
      BY <1>1, <2>1 DEF FitsCommand, At
  <1>2. ASSUME NEW p, Goto("command", p), cmd' = cmd,
               \/ cmd.device = "light" /\ p \in {"bright", "manual"}
               \/ cmd.device = "airConditioner" /\ p = "encode"
               \/ cmd.device = "curtain" /\ p = "steer"
        PROVE  FitsCommand' /\ \A u \in {"tick", "loop"} : pc'[u] = pc[u]
    <2>1. pc'["command"] = p /\ \A u \in {"tick", "loop"} : pc'[u] = pc[u]
      BY <1>2
    <2> QED
      BY <1>2, <2>1 DEF FitsCommand, At
  <1>3. CASE Submit \/ SubmitScene \/ Fetch \/ Answered
    BY <1>1, <1>3 DEF Submit, SubmitScene, Fetch, Answered
  <1>4. CASE Check \/ Refuse \/ AirEncode
    BY <1>1, <1>4 DEF Check, Refuse, AirEncode, Fail
  <1>5. CASE LightPower
    <2>1. PICK p \in {"bright", "manual"} : Goto("command", p)
      BY <1>5, Zenon DEF LightPower
    <2> QED
      BY <1>2, <1>5, <2>1 DEF LightPower, Accepted, Driving
  <1>6. CASE LightBright
    BY <1>2, <1>6, Fits DEF LightBright, FitsCommand, At
  <1>7. CASE LightBrightness
    BY <1>2, <1>7 DEF LightBrightness, Accepted, Driving
  <1>8. CASE AirAssign
    BY <1>2, <1>8 DEF AirAssign, Driving
  <1>9. CASE CurtainRead
    BY <1>2, <1>9 DEF CurtainRead, Accepted, Driving
  <1>10. CASE LightManual \/ LightConfig \/ AirPower \/ AirDry \/ HumidifierSet \/ HeaterSet
             \/ CurtainSteer
    BY <1>1, <1>10
       DEF LightManual, LightConfig, AirPower, AirDry, HumidifierSet, HeaterSet, CurtainSteer
  <1> QED
    BY <1>3, <1>4, <1>5, <1>6, <1>7, <1>8, <1>9, <1>10 DEF Drive

LEMMA NextFits == TypeOK /\ PlacesFit /\ [Next]_vars => PlacesFit'
  <1> SUFFICES ASSUME TypeOK, PlacesFit, [Next]_vars PROVE PlacesFit'
    OBVIOUS
  <1> USE Fits DEF Threads
  <1>0. (FitsCommand /\ FitsTick /\ FitsLoop)' => PlacesFit'
    BY PTL
  <1>1. CASE Submit \/ SubmitScene \/ Fetch \/ Check \/ Drive \/ Answered
    <2>1. todo' = todo /\ spot' = spot
      BY <1>1 DEF Submit, SubmitScene, Fetch, Check, Drive, Answered, Refuse, LightPower, LightBright,
           LightBrightness, LightManual, LightConfig, AirPower, AirDry, AirAssign, AirEncode,
           HumidifierSet, HeaterSet, CurtainRead, CurtainSteer, Accepted, Driving
    <2> QED
      BY <1>0, <1>1, <2>1, CommandFits, StillFits
  <1>2. CASE Tick
    <2>1. cmd' = cmd /\ spot' = spot
      BY <1>2 DEF Tick, TickStart, TickTell, SenseDrift, SenseWrite, SenseRecord, LightLook, LightFound,
           LightOverridden, LightOn, LightShine, LightOff, LightStay, CurtainLook, CurtainMove,
           Deciding, Ticking
    <2> QED
      BY <1>0, <1>2, <2>1, TickFits, StillFits
  <1>3. CASE TouchCommand
    <2>1. pc'["command"] = "fetch" /\ \A u \in {"tick", "loop"} : pc'[u] = pc[u]
      BY <1>3, Moves DEF TouchCommand
    <2>2. FitsCommand'
      BY <2>1 DEF FitsCommand, At
    <2>3. todo' = todo /\ spot' = spot
      BY <1>3 DEF TouchCommand
    <2> QED
      BY <1>0, <2>1, <2>2, <2>3, StillFits
  <1>4. ASSUME NEW t \in {"tick", "loop"}, TouchOther(t)
        PROVE  PlacesFit'
    <2>1. spot' = spot /\ (cmd' = cmd \/ cmd' = Late)
      BY <1>4, Zenon DEF TouchOther
    <2>2. cmd'.device = cmd.device
      BY <2>1 DEF Late, TypeOK, Requests
    <2>3. CASE t = "tick"
      BY <1>0, <1>4, <2>1, <2>2, <2>3, LeaveFits, StillFits DEF TouchOther
    <2>4. CASE t = "loop"
      <3>1. Goto("loop", "idle") /\ todo' = todo
        BY <1>4, <2>4 DEF TouchOther
      <3>2. pc'["loop"] = "idle" /\ \A u \in {"command", "tick"} : pc'[u] = pc[u]
        BY <3>1, Moves
      <3> QED
        BY <1>0, <2>2, <3>1, <3>2, StillFits DEF FitsLoop, At
    <2> QED
      BY <1>4, <2>3, <2>4
  <1>5. CASE Fault \/ Inject \/ HoldReading
    <2>1. cmd' = cmd /\ todo' = todo
      BY <1>5 DEF Fault, Inject, HoldReading, Injecting
    <2>2. PICK p \in {"touch", "hold"} : Goto("loop", p) /\ (p = "hold" => spot' = "environment")
      BY <1>5 DEF Fault, Inject, HoldReading
    <2>3. pc'["loop"] = p /\ \A u \in {"command", "tick"} : pc'[u] = pc[u]
      BY <2>2, Moves
    <2> QED
      BY <1>0, <2>1, <2>2, <2>3, StillFits DEF FitsLoop, At
  <1>6. CASE Remove
    <2>1. cmd' = cmd /\ spot' = spot
      BY <1>6 DEF Remove
    <2>2. CASE Dies
      BY <1>0, <2>1, <2>2, DiesFits, StillFits
    <2>3. CASE UNCHANGED <<pc, tickVars, seen>>
      BY <1>0, <2>1, <2>3, StillFits
    <2> QED
      BY <1>6, <2>2, <2>3 DEF Remove
  <1>7. CASE Pass \/ (\E d \in Kinds : Send(d)) \/ UNCHANGED vars
    BY <1>0, <1>7, StillFits DEF Pass, Send, vars
  <1>8. Answer \/ AnswerScene \/ AnswerFails => Answered
    BY DEF Answer, AnswerScene, AnswerFails
  <1> QED
    BY <1>1, <1>2, <1>3, <1>4, <1>5, <1>6, <1>7, <1>8 DEF Next, CommandStep, TickStep, LoopStep

LEMMA InitFits == Init => PlacesFit
  BY DEF Init, PlacesFit, At, Threads, About

-----------------------------------------------------------------------------
(* What a step leaves of the light that was not written. *)
LEMMA StillShines ==
  ASSUME LitLightShines,
         At("command", "bright") => pc'["command"] = "bright",
         At("tick", "shine") => pc'["tick"] = "shine",
         dev'.light.power = dev.light.power, dev'.light.brightness = dev.light.brightness
  PROVE  LitLightShines'
  BY DEF LitLightShines, At

LEMMA InitShines == Init => LitLightShines
  BY DEF Init, LitLightShines, FreshLight

(* The command's steps that do not write to the light. *)
LEMMA CommandShines ==
  ASSUME TypeOK, LitLightShines,
         Submit \/ SubmitScene \/ Fetch \/ Check \/ Drive \/ Answered \/ TouchCommand
  PROVE  LitLightShines'
  <1> USE Moves DEF Threads
  <1>1. ASSUME NEW p, Goto("command", p), ~At("command", "bright"), dev'.light = dev.light
        PROVE  LitLightShines'
    <2>1. pc'["tick"] = pc["tick"]
      BY <1>1
    <2> QED
      BY <1>1, <2>1, StillShines DEF At
  <1>2. CASE Submit \/ SubmitScene \/ Fetch \/ Check \/ Answered \/ TouchCommand
    BY <1>1, <1>2
       DEF Submit, SubmitScene, Fetch, Check, Fail, Answered, TouchCommand, Touch, At
  <1>3. CASE Refuse \/ AirEncode \/ CurtainRead
    BY <1>1, <1>3 DEF Refuse, AirEncode, CurtainRead, Fail, Accepted, Driving, At
  <1>4. CASE LightPower
    <2>1. dev.light.brightness \in Nat
      BY DEF TypeOK, Lights
    <2>2. CASE cmd.value = 1 /\ dev.light.brightness = 0
      <3>1. Goto("command", "bright")
        BY <1>4, <2>2 DEF LightPower
      <3> QED
        BY <3>1 DEF LitLightShines, At
    <2>3. CASE ~(cmd.value = 1 /\ dev.light.brightness = 0)
      BY <1>4, <2>1, <2>3, LightPowerDoes DEF LitLightShines
    <2> QED
      BY <2>2, <2>3
  <1>5. CASE LightBright
    BY <1>5, LightBrightDoes DEF LitLightShines
  <1>6. CASE LightBrightness
    BY <1>6, LightBrightnessDoes DEF LitLightShines
  <1>7. CASE LightManual \/ LightConfig
    <2>1. pc'["tick"] = pc["tick"] /\ ~At("command", "bright")
      BY <1>7 DEF LightManual, LightConfig, Accepted, Driving, At
    <2> QED
      BY <1>7, <2>1, LightSettingsDo, StillShines DEF At
  <1>8. CASE AirPower \/ AirDry \/ AirAssign
    <2>1. dev'.light = dev.light
      BY <1>8, AirDoes DEF Only
    <2> QED
      BY <1>1, <1>8, <2>1 DEF AirPower, AirDry, AirAssign, Accepted, Driving, At
  <1>9. CASE HumidifierSet \/ HeaterSet
    <2>1. dev'.light = dev.light
      BY <1>9, PanelDoes DEF Only, Panels
    <2> QED
      BY <1>1, <1>9, <2>1 DEF HumidifierSet, HeaterSet, Accepted, Driving, At
  <1>10. CASE CurtainSteer
    <2>1. dev'.light = dev.light
      BY <1>10, CurtainSteerDoes DEF Only
    <2> QED
      BY <1>1, <1>10, <2>1 DEF CurtainSteer, At
  <1> QED
    BY <1>2, <1>3, <1>4, <1>5, <1>6, <1>7, <1>8, <1>9, <1>10 DEF Drive

(* The other threads move the tick away from "shine" in LightShine alone. *)
LEMMA OthersShine ==
  ASSUME TypeOK, LitLightShines,
         \/ TickStep \/ LoopStep \/ Fault \/ Inject \/ Remove \/ Pass
         \/ (\E d \in Kinds : Send(d)) \/ UNCHANGED vars
  PROVE  LitLightShines'
  <1> USE Moves DEF Threads
  <1>1. ASSUME ~At("tick", "shine"), pc'["command"] = pc["command"], dev'.light = dev.light
        PROVE  LitLightShines'
    BY <1>1, StillShines DEF At
  <1>2. CASE Tick /\ ~(LightOn \/ LightShine \/ LightOff \/ LightStay)
    <2>1. pc'["command"] = pc["command"]
      <3>1. ASSUME NEW p, Goto("tick", p) PROVE pc'["command"] = pc["command"]
        BY <3>1
      <3>2. Skip \/ Dies => pc'["command"] = pc["command"]
        BY LeaveFits, DiesFits DEF Skip
      <3>3. TickStart \/ TickTell => pc'["command"] = pc["command"]
        BY <3>1, VisitFits DEF TickStart, TickTell
      <3>4. SenseDrift \/ SenseWrite \/ SenseRecord => pc'["command"] = pc["command"]
        BY <3>1, <3>2 DEF SenseDrift, SenseWrite, SenseRecord
      <3>5. LightLook \/ LightFound \/ LightOverridden => pc'["command"] = pc["command"]
        BY <3>1, <3>2 DEF LightLook, LightFound, LightOverridden
      <3>6. CurtainLook \/ CurtainMove => pc'["command"] = pc["command"]
        BY <3>1, <3>2, CurtainMoveDoes DEF CurtainLook, Goto
      <3> QED
        BY <1>2, <3>3, <3>4, <3>5, <3>6 DEF Tick
    <2>2. ~At("tick", "shine")
      BY <1>2 DEF Tick, TickStart, TickTell, SenseDrift, SenseWrite, SenseRecord, LightLook, LightFound,
             LightOverridden, CurtainLook, CurtainMove, Ticking, At
    <2>3. dev'.light = dev.light
      BY <1>2, SensorDoes, SenseRecordDoes, CurtainMoveDoes
         DEF Tick, TickStart, TickTell, SenseDrift, LightLook, LightFound, LightOverridden, CurtainLook, Only
    <2> QED
      BY <1>1, <2>1, <2>2, <2>3
  <1>3. CASE LightOn
    BY <1>3 DEF LightOn, LitLightShines, At
  <1>4. CASE LightShine
    BY <1>4, LightShineDoes DEF LitLightShines
  <1>5. CASE LightOff
    BY <1>5, LightOffDoes DEF LitLightShines
  <1>6. CASE LightStay
    <2>1. pc'["command"] = pc["command"] /\ ~At("tick", "shine")
      BY <1>6, LeaveFits DEF LightStay, Skip, Deciding, At
    <2> QED
      BY <1>6, <2>1, LightStayDoes, StillShines DEF At
  <1>7. CASE TouchOther("tick")
    <2>1. pc'["command"] = pc["command"] /\ ~At("tick", "shine") /\ dev' = dev
      BY <1>7, LeaveFits DEF TouchOther, Touch, At
    <2> QED
      BY <1>1, <2>1
  <1>8. CASE LoopStep \/ Fault \/ Inject
    <2>1. PICK p : Goto("loop", p)
      BY <1>8 DEF LoopStep, HoldReading, TouchOther, Fault, Inject
    <2>2. pc'["command"] = pc["command"] /\ pc'["tick"] = pc["tick"]
      BY <2>1
    <2>3. dev'.light = dev.light
      BY <1>8, SensorDoes, InjectDoes DEF LoopStep, TouchOther, Touch, Fault, Only
    <2> QED
      BY <2>2, <2>3, StillShines DEF At
  <1>9. CASE Remove
    <2>1. pc'["command"] = pc["command"] /\ dev' = dev
      BY <1>9, DiesFits DEF Remove
    <2>2. At("tick", "shine") => pc'["tick"] = pc["tick"]
      BY <1>9 DEF Remove, Walking, At
    <2> QED
      BY <2>1, <2>2, StillShines DEF At
  <1>10. CASE Pass \/ (\E d \in Kinds : Send(d)) \/ UNCHANGED vars
    BY <1>10, StillShines DEF Pass, Send, vars, At
  <1> QED
    BY <1>2, <1>3, <1>4, <1>5, <1>6, <1>7, <1>8, <1>9, <1>10 DEF TickStep, LoopStep

(* Whatever commands and automation write in between, a light that is on   *)
(* shines once both have finished with it.                                 *)
THEOREM NoDarkLightIsOn == Spec => []LitLightShines
  <1>1. TypeOK /\ LitLightShines /\ [Next]_vars => LitLightShines'
    BY CommandShines, OthersShine DEF Next, CommandStep, Answer, AnswerScene, AnswerFails
  <1> QED
    BY <1>1, InitShines, TypeCorrect, PTL DEF Spec

-----------------------------------------------------------------------------
(* Somebody is still changing d. *)
Busy(d) ==
  \/ cmd.device = d /\ Changing("command")
  \/ First(todo) = d /\ Changing("tick")
  \/ spot = d /\ Changing("loop")

LEMMA Told ==
  AllAreTold <=> \A d \in Kinds : Public(d) = event[d] \/ Busy(d) \/ carrier[d] = "lost"
  <1>1. ASSUME NEW d \in Kinds
        PROVE  Busy(d) <=> ~\A t \in Threads : About(t) = d => ~Changing(t)
    <2>1. /\ About("command") = cmd.device /\ About("tick") = First(todo) /\ About("loop") = spot
      BY DEF About
    <2> QED
      BY <2>1 DEF Busy, Threads
  <1>2. \A d \in Kinds :
          (carrier[d] # "lost" /\ (\A t \in Threads : About(t) = d => ~Changing(t)) =>
             Public(d) = event[d])
          <=> Public(d) = event[d] \/ Busy(d) \/ carrier[d] = "lost"
    BY <1>1
  <1> QED
    BY <1>2 DEF AllAreTold

LEMMA Retold ==
  ASSUME \A d \in Kinds : Public(d)' = event'[d] \/ Busy(d)' \/ carrier'[d] = "lost"
  PROVE  AllAreTold'
  <1>1. (\A d \in Kinds : Public(d) = event[d] \/ Busy(d) \/ carrier[d] = "lost")' => AllAreTold'
    BY Told, PTL
  <1> QED
    BY <1>1

LEMMA StillTold ==
  ASSUME AllAreTold, event' = event, \A d \in Kinds : carrier[d] = "lost" => carrier'[d] = "lost",
         \A d \in Kinds : Busy(d)' \/ carrier'[d] = "lost" \/ (Public(d)' = Public(d) /\ ~Busy(d))
  PROVE  AllAreTold'
  BY Told, Retold

(* A write to one device does not show in another. *)
LEMMA OthersLookAlike ==
  ASSUME NEW e, Only(e)
  PROVE  \A d \in Kinds \ {e} : Public(d)' = Public(d)
  <1> SUFFICES ASSUME NEW d \in Kinds, d # e PROVE Public(d)' = Public(d)
    OBVIOUS
  <1>1. CASE d = "light"
    BY <1>1 DEF Only, Public
  <1>2. CASE d = "environment"
    BY <1>2 DEF Only, Public
  <1>3. CASE d \in {"airConditioner", "humidifier", "bathHeater", "curtain"}
    BY <1>3 DEF Only, Public
  <1> QED
    BY <1>1, <1>2, <1>3 DEF Kinds, Panels

LEMMA Unchanged == dev' = dev => \A d : Public(d)' = Public(d)
  BY DEF Public

(* The command worker. *)
CommandFrame ==
  /\ event' = event /\ carrier' = carrier /\ todo' = todo /\ spot' = spot
  /\ pc'["tick"] = pc["tick"] /\ pc'["loop"] = pc["loop"]

LEMMA OthersBusy ==
  ASSUME CommandFrame, NEW d, Busy(d), ~(cmd.device = d /\ Changing("command"))
  PROVE  Busy(d)'
  BY DEF CommandFrame, Busy, Changing, First

LEMMA CommandRests ==
  ASSUME AllAreTold, CommandFrame, ~Changing("command"), dev' = dev
  PROVE  AllAreTold'
  <1>1. \A d \in Kinds : Public(d)' = Public(d)
    BY Unchanged
  <1>2. \A d \in Kinds : Busy(d) => Busy(d)'
    BY OthersBusy
  <1> QED
    BY <1>1, <1>2, StillTold DEF CommandFrame

LEMMA CommandWrites ==
  ASSUME AllAreTold, CommandFrame, cmd' = cmd, Changing("command")', Only(cmd.device)
  PROVE  AllAreTold'
  <1>1. PICK e : e = cmd.device
    OBVIOUS
  <1>2. \A d \in Kinds \ {e} : Public(d)' = Public(d)
    BY <1>1, OthersLookAlike
  <1>3. \A d \in Kinds \ {e} : Busy(d) => Busy(d)'
    BY <1>1, OthersBusy
  <1>4. Busy(e)'
    BY <1>1 DEF Busy
  <1> QED
    BY <1>2, <1>3, <1>4, StillTold DEF CommandFrame

LEMMA CommandTells ==
  ASSUME TypeOK, PlacesFit, AllAreTold, Submit \/ SubmitScene \/ Fetch \/ Check \/ Drive,
         ~AirEncode
  PROVE  AllAreTold'
  <1>1. CommandFrame
    <2>1. event' = event /\ carrier' = carrier /\ todo' = todo /\ spot' = spot
      BY DEF Submit, SubmitScene, Fetch, Check, Drive, Refuse, LightPower, LightBright,
           LightBrightness, LightManual, LightConfig, AirPower, AirDry, AirAssign,
           HumidifierSet, HeaterSet, CurtainRead, CurtainSteer, Accepted, Driving
    <2> QED
      BY <2>1, CommandFits DEF CommandFrame
  <1>2. ASSUME dev' = dev, ~Changing("command")
        PROVE  AllAreTold'
    BY <1>1, <1>2, CommandRests
  <1>3. ASSUME NEW p \in {"bright", "manual", "encode", "touch"}, Goto("command", p), cmd' = cmd,
               Only(cmd.device)
        PROVE  AllAreTold'
    <2>1. pc'["command"] = p
      BY <1>3, Moves DEF Threads
    <2> QED
      BY <1>1, <1>3, <2>1, CommandWrites DEF Changing
  <1>4. CASE Submit \/ SubmitScene \/ Fetch \/ Check
    BY <1>2, <1>4 DEF Submit, SubmitScene, Fetch, Check, Changing, At
  <1>5. CASE Refuse
    BY <1>2, <1>5 DEF Refuse, Changing, At
  <1>6. CASE CurtainRead
    BY <1>2, <1>6 DEF CurtainRead, Accepted, Driving, Changing, At
  <1>7. CASE LightPower
    <2>1. PICK p \in {"bright", "manual"} : Goto("command", p)
      BY <1>7, Zenon DEF LightPower
    <2> QED
      BY <1>3, <1>7, <2>1, LightPowerDoes DEF LightPower, Accepted, Driving
  <1>8. CASE LightBright
    <2>1. cmd.device = "light"
      BY <1>8, Fits DEF LightBright, FitsCommand, At
    <2> QED
      BY <1>3, <1>8, <2>1, LightBrightDoes DEF LightBright
  <1>9. CASE LightBrightness
    BY <1>3, <1>9, LightBrightnessDoes DEF LightBrightness, Accepted, Driving
  <1>10. CASE LightManual
    <2>1. cmd.device = "light"
      BY <1>10, Fits DEF LightManual, FitsCommand, At
    <2> QED
      BY <1>3, <1>10, <2>1, LightSettingsDo DEF LightManual
  <1>11. CASE LightConfig
    BY <1>3, <1>11, LightSettingsDo DEF LightConfig, Accepted, Driving
  <1>12. CASE AirPower \/ AirDry
    BY <1>3, <1>12, AirDoes DEF AirPower, AirDry, Accepted, Driving
  <1>13. CASE AirAssign
    BY <1>3, <1>13, AirDoes DEF AirAssign, Driving
  <1>14. CASE HumidifierSet \/ HeaterSet
    BY <1>3, <1>14, PanelDoes DEF HumidifierSet, HeaterSet, Accepted
  <1>15. CASE CurtainSteer
    <2>1. cmd.device = "curtain"
      BY <1>15, Fits DEF CurtainSteer, FitsCommand, At
    <2> QED
      BY <1>3, <1>15, <2>1, CurtainSteerDoes DEF CurtainSteer
  <1> QED
    BY <1>4, <1>5, <1>6, <1>7, <1>8, <1>9, <1>10, <1>11, <1>12, <1>13, <1>14, <1>15 DEF Drive

(* What the air conditioner was told and refuses is lost.  *)
LEMMA EncodeTells ==
  ASSUME TypeOK, PlacesFit, AllAreTold, AirEncode PROVE AllAreTold'
  <1>1. /\ event' = event /\ todo' = todo /\ spot' = spot /\ dev' = dev /\ cmd' = cmd
        /\ pc'["tick"] = pc["tick"] /\ pc'["loop"] = pc["loop"]
    BY CommandFits DEF AirEncode, Fail, Drive
  <1>2. cmd.device = "airConditioner"
    BY Fits DEF AirEncode, FitsCommand
  <1>3. \A d \in Kinds : Public(d)' = Public(d)
    BY <1>1, Unchanged
  <1>4. CASE Goto("command", "touch") /\ carrier' = carrier
    <2>1. pc'["command"] = "touch"
      BY <1>4, Moves DEF Threads
    <2>2. \A d \in Kinds : Busy(d) => Busy(d)'
      BY <1>1, <2>1 DEF Busy, Changing, First
    <2> QED
      BY <1>1, <1>3, <1>4, <2>2, StillTold
  <1>5. CASE carrier' = [carrier EXCEPT !["airConditioner"] = "lost"]
    <2>1. \A d \in Kinds : d # "airConditioner" /\ Busy(d) => Busy(d)'
      BY <1>1, <1>2 DEF Busy, Changing, First
    <2>2. \A d \in Kinds : carrier'[d] = IF d = "airConditioner" THEN "lost" ELSE carrier[d]
      BY <1>5 DEF TypeOK
    <2> QED
      BY <1>1, <1>3, <2>1, <2>2, StillTold
  <1> QED
    BY <1>4, <1>5 DEF AirEncode

(* The events of what was executed go out or are dropped. *)
LEMMA AnswerTells ==
  ASSUME TypeOK, PlacesFit, AllAreTold, Answer \/ AnswerScene \/ AnswerFails PROVE AllAreTold'
  <1>1. Answered
    BY DEF Answer, AnswerScene, AnswerFails
  <1>2. /\ todo' = todo /\ spot' = spot /\ dev' = dev /\ At("command", "fetch")
        /\ pc'["tick"] = pc["tick"] /\ pc'["loop"] = pc["loop"]
    BY <1>1, CommandFits DEF Answered
  <1>3. \A d \in Kinds : Public(d)' = Public(d)
    BY <1>2, Unchanged
  <1>4. \A d \in Kinds : Busy(d) => Busy(d)'
    BY <1>2 DEF Busy, Changing, First, At
  <1>5. \A d \in Kinds : event'[d] \in {event[d], Public(d)}
    BY DEF Answer, AnswerScene, AnswerFails
  <1>6. \A d \in Kinds : carrier[d] = "lost" => carrier'[d] = "lost"
    BY DEF Answer, AnswerScene, AnswerFails, Passed
  <1> QED
    BY <1>3, <1>4, <1>5, <1>6, Told, Retold

(* The telemetry worker. *)
TickFrame ==
  /\ event' = event /\ cmd' = cmd /\ spot' = spot
  /\ pc'["command"] = pc["command"] /\ pc'["loop"] = pc["loop"]

LEMMA OthersBusyInTick ==
  ASSUME TickFrame, NEW d, Busy(d), ~(First(todo) = d /\ Changing("tick"))
  PROVE  Busy(d)'
  BY DEF TickFrame, Busy, Changing

LEMMA TickRests ==
  ASSUME AllAreTold, TickFrame, ~Changing("tick"),
         \A d \in Kinds : Public(d)' = Public(d),
         \A d \in Kinds : carrier[d] = "lost" => carrier'[d] = "lost"
  PROVE  AllAreTold'
  BY OthersBusyInTick, StillTold DEF TickFrame

LEMMA TickWrites ==
  ASSUME AllAreTold, TickFrame, UNCHANGED tickVars, Changing("tick")', Only(First(todo))
  PROVE  AllAreTold'
  <1>1. PICK e : e = First(todo)
    OBVIOUS
  <1>2. \A d \in Kinds \ {e} : Public(d)' = Public(d)
    BY <1>1, OthersLookAlike
  <1>3. \A d \in Kinds \ {e} : Busy(d) => Busy(d)'
    BY <1>1, OthersBusyInTick
  <1>4. Busy(e)'
    BY <1>1 DEF Busy, First
  <1> QED
    BY <1>2, <1>3, <1>4, StillTold DEF TickFrame

(* What the tick was changing, and what it was to tell, is lost. *)
LEMMA DiesTells ==
  ASSUME TypeOK, AllAreTold, TickFrame, Dies, dev' = dev PROVE AllAreTold'
  <1>1. \A d \in Kinds : Public(d)' = Public(d)
    BY Unchanged
  <1>2. \A d \in Kinds : carrier[d] = "lost" => carrier'[d] = "lost"
    BY DEF Dies, Passed
  <1>3. \A d \in Kinds : First(todo) = d /\ Changing("tick") => carrier'[d] = "lost"
    BY DEF Dies, About
  <1>4. \A d \in Kinds : Busy(d) => Busy(d)' \/ carrier'[d] = "lost"
    BY <1>3, OthersBusyInTick
  <1> QED
    BY <1>1, <1>2, <1>4, StillTold DEF TickFrame

LEMMA TickTells ==
  ASSUME TypeOK, PlacesFit, AllAreTold, Tick
  PROVE  AllAreTold'
  <1>1. TickFrame
    <2>1. event' = event /\ cmd' = cmd /\ spot' = spot
      BY DEF Tick, TickStart, TickTell, SenseDrift, SenseWrite, SenseRecord, LightLook, LightFound,
           LightOverridden, LightOn, LightShine, LightOff, LightStay, CurtainLook, CurtainMove,
           Deciding, Ticking
    <2> QED
      BY <2>1, TickFits DEF TickFrame
  <1>2. ASSUME dev' = dev, ~Changing("tick"),
               \A d \in Kinds : carrier[d] = "lost" => carrier'[d] = "lost"
        PROVE  AllAreTold'
    BY <1>1, <1>2, TickRests, Unchanged
  <1>3. ASSUME NEW p \in {"shine", "record", "touch"}, Goto("tick", p), UNCHANGED tickVars,
               Only(First(todo))
        PROVE  AllAreTold'
    <2>1. pc'["tick"] = p
      BY <1>3, Moves DEF Threads
    <2> QED
      BY <1>1, <1>3, <2>1, TickWrites DEF Changing
  <1>5. Skip => carrier' = carrier
    BY DEF Skip
  <1>6. CASE TickStart
    BY <1>2, <1>6 DEF TickStart, Ticking, Changing, At
  <1>4. CASE TickTell
    BY <1>2, <1>4 DEF TickTell, Passed, Ticking, Changing, At
  <1>7. CASE SenseDrift \/ LightLook \/ LightFound \/ LightOverridden \/ CurtainLook
    BY <1>2, <1>5, <1>7
       DEF SenseDrift, LightLook, LightFound, LightOverridden, CurtainLook, Ticking, Changing, At
  <1>8. CASE SenseWrite
    <2>1. First(todo) = "environment"
      BY <1>8, Fits DEF SenseWrite, FitsTick, Ticking, At
    <2> QED
      BY <1>3, <1>8, <2>1, SensorDoes DEF SenseWrite
  <1>9. CASE SenseRecord
    <2>1. First(todo) = "environment"
      BY <1>9, Fits DEF SenseRecord, FitsTick, Ticking, At
    <2>2. Only("environment")
      BY <1>9, SenseRecordDoes
    <2>3. CASE Goto("tick", "touch") /\ UNCHANGED <<tickVars, seen>>
      BY <1>3, <2>1, <2>2, <2>3
    <2>4. CASE Skip /\ At("tick", "review") /\ UNCHANGED dev
      BY <1>2, <1>5, <2>4 DEF Changing, At
    <2>5. CASE Dies /\ UNCHANGED dev
      BY <1>1, <2>5, DiesTells
    <2> QED
      BY <1>9, <2>3, <2>4, <2>5, SenseRecordDoes DEF Goto, SenseRecord
  <1>10. CASE LightOn \/ LightShine \/ LightOff
    <2>1. First(todo) = "light"
      BY <1>10, Fits DEF LightOn, LightShine, LightOff, Deciding, FitsTick, Ticking, At
    <2>2. Only("light")
      BY <1>10, LightOnDoes, LightShineDoes, LightOffDoes
    <2> QED
      BY <1>3, <1>10, <2>1, <2>2 DEF LightOn, LightShine, LightOff
  <1>11. CASE LightStay
    <2>1. ~Changing("tick") /\ carrier' = carrier
      BY <1>5, <1>11 DEF LightStay, Deciding, Changing, At
    <2>2. \A d \in Kinds : Public(d)' = Public(d)
      BY <1>11, LightStayDoes, OthersLookAlike
    <2> QED
      BY <1>1, <2>1, <2>2, TickRests
  <1>12. CASE CurtainMove
    <2>1. First(todo) = "curtain"
      BY <1>12, Fits DEF CurtainMove, FitsTick, Ticking, At
    <2>2. Only("curtain")
      BY <1>12, CurtainMoveDoes
    <2>3. CASE pc' = [pc EXCEPT !["tick"] = "touch"] /\ UNCHANGED <<tickVars, seen>>
      BY <1>3, <2>1, <2>2, <2>3 DEF Goto
    <2>4. CASE Skip /\ UNCHANGED dev
      BY <1>2, <1>5, <1>12, <2>4 DEF CurtainMove, Ticking, Changing, At
    <2> QED
      BY <1>12, <2>3, <2>4, CurtainMoveDoes
  <1> QED
    BY <1>4, <1>6, <1>7, <1>8, <1>9, <1>10, <1>11, <1>12 DEF Tick

(* _touch. *)
LEMMA TouchTells ==
  ASSUME TypeOK, AllAreTold, NEW t \in Threads, Touch(t),
         cmd'.device = cmd.device \/ t = "command",
         t = "tick" \/ todo' = todo, spot' = spot,
         \A u \in Threads \ {t} : pc'[u] = pc[u]
  PROVE  AllAreTold'
  <1>1. PICK e : e = About(t)
    OBVIOUS
  <1>2. event' = [d \in Kinds |-> IF d = e THEN Public(d) ELSE event[d]] /\ dev' = dev
    BY <1>1 DEF Touch
  <1>3. \A d \in Kinds : Public(d)' = Public(d)
    BY <1>2, Unchanged
  <1>4. e \in Kinds => Public(e)' = event'[e]
    BY <1>2, <1>3
  <1>5. \A d \in Kinds \ {e} : Busy(d) => Busy(d)'
    BY <1>1 DEF Busy, About, Changing, Threads, First
  <1>6. \A d \in Kinds \ {e} : event'[d] = event[d] /\ carrier'[d] = carrier[d]
    BY <1>1, <1>2 DEF Touch
  <1> QED
    BY <1>3, <1>4, <1>5, <1>6, Told, Retold

LEMMA NextTells == TypeOK /\ PlacesFit /\ AllAreTold /\ [Next]_vars => AllAreTold'
  <1> SUFFICES ASSUME TypeOK, PlacesFit, AllAreTold, [Next]_vars PROVE AllAreTold'
    OBVIOUS
  <1>1. CASE TouchCommand
    <2>1. Touch("command") /\ cmd' = cmd /\ todo' = todo /\ spot' = spot
      BY <1>1 DEF TouchCommand
    <2>2. \A u \in Threads \ {"command"} : pc'[u] = pc[u]
      BY <1>1, Moves DEF TouchCommand, Threads
    <2> QED
      BY <2>1, <2>2, TouchTells DEF Threads
  <1>2. ASSUME NEW t \in {"tick", "loop"}, TouchOther(t)
        PROVE  AllAreTold'
    <2>1. cmd' = cmd \/ cmd' = Late
      BY <1>2, Zenon DEF TouchOther
    <2>2. cmd'.device = cmd.device
      BY <2>1 DEF Late, TypeOK, Requests
    <2>3. CASE t = "tick"
      <3>1. Touch("tick") /\ spot' = spot
        BY <1>2, <2>3 DEF TouchOther
      <3>2. \A u \in Threads \ {"tick"} : pc'[u] = pc[u]
        BY <1>2, <2>3, LeaveFits DEF TouchOther, Threads
      <3> QED
        BY <2>2, <3>1, <3>2, TouchTells DEF Threads
    <2>4. CASE t = "loop"
      <3>1. Touch("loop") /\ spot' = spot /\ todo' = todo
        BY <1>2, <2>4 DEF TouchOther
      <3>2. \A u \in Threads \ {"loop"} : pc'[u] = pc[u]
        BY <1>2, <2>4, Moves DEF TouchOther, Threads
      <3> QED
        BY <2>2, <3>1, <3>2, TouchTells DEF Threads
    <2> QED
      BY <1>2, <2>3, <2>4
  <1>3. ASSUME NEW p \in {"touch", "hold"}, Goto("loop", p), event' = event, cmd' = cmd,
               UNCHANGED tickVars, Only(spot'), spot' = spot \/ ~Changing("loop"),
               dev' = dev \/ \A d \in Kinds \ {spot'} : Public(d)' = Public(d)
        PROVE  AllAreTold'
    <2>1. pc'["loop"] = p /\ \A u \in Threads \ {"loop"} : pc'[u] = pc[u]
      BY <1>3, Moves DEF Threads
    <2>2. PICK e : e = spot'
      OBVIOUS
    <2>3. \A d \in Kinds \ {e} : Public(d)' = Public(d)
      BY <1>3, <2>2, Unchanged
    <2>4. Busy(e)'
      BY <1>3, <2>1, <2>2 DEF Busy, Changing
    <2>5. \A d \in Kinds \ {e} : Busy(d) => Busy(d)'
      BY <1>3, <2>1, <2>2 DEF Busy, Changing, Threads, First
    <2> QED
      BY <1>3, <2>3, <2>4, <2>5, StillTold
  <1>4. CASE Fault
    <2>1. dev' = dev /\ ~Changing("loop")
      BY <1>4 DEF Fault, Injecting, Changing, At
    <2> QED
      BY <1>3, <1>4, <2>1 DEF Fault, Injecting, Only
  <1>5. CASE Inject
    <2>1. spot' = "environment" /\ ~Changing("loop") /\ Only("environment")
      BY <1>5, InjectDoes DEF Inject, Injecting, Changing, At
    <2>2. \A d \in Kinds \ {"environment"} : Public(d)' = Public(d)
      BY <2>1, OthersLookAlike
    <2> QED
      BY <1>3, <1>5, <2>1, <2>2 DEF Inject, Injecting
  <1>6. CASE HoldReading
    <2>1. spot = "environment" /\ spot' = spot
      BY <1>6, Fits DEF HoldReading, FitsLoop
    <2>2. Only("environment")
      BY <1>6, SensorDoes
    <2>3. \A d \in Kinds \ {"environment"} : Public(d)' = Public(d)
      BY <2>2, OthersLookAlike
    <2> QED
      BY <1>3, <1>6, <2>1, <2>2, <2>3 DEF HoldReading
  <1>7. ASSUME UNCHANGED <<pc, todo, cmd, spot, dev, event>>,
               \A d \in Kinds : carrier[d] = "lost" => carrier'[d] = "lost"
        PROVE  AllAreTold'
    <2>1. \A d \in Kinds : (Busy(d)' <=> Busy(d)) /\ Public(d)' = Public(d)
      BY <1>7, Unchanged DEF Busy, Changing, First
    <2> QED
      BY <1>7, <2>1, StillTold
  <1>8. CASE Remove
    <2>1. CASE UNCHANGED <<pc, tickVars, seen>>
      BY <1>7, <1>8, <2>1 DEF Remove
    <2>2. CASE Dies
      <3>1. TickFrame /\ dev' = dev
        BY <1>8, <2>2, DiesFits DEF Remove, TickFrame
      <3> QED
        BY <2>2, <3>1, DiesTells
    <2> QED
      BY <1>8, <2>1, <2>2 DEF Remove
  <1>9. CASE Pass \/ UNCHANGED vars
    BY <1>7, <1>9 DEF Pass, vars
  <1>10. CASE \E d \in Kinds : Send(d)
    BY <1>7, <1>10 DEF Send, TypeOK
  <1> QED
    BY <1>1, <1>2, <1>4, <1>5, <1>6, <1>8, <1>9, <1>10, CommandTells, EncodeTells, AnswerTells,
       TickTells DEF Next, CommandStep, TickStep, LoopStep, Drive

LEMMA InitTells == Init => AllAreTold
  <1> SUFFICES ASSUME Init PROVE AllAreTold
    OBVIOUS
  <1>1. \A d \in Kinds : Public(d) = event[d]
    BY DEF Init
  <1> QED
    BY <1>1, Told

-----------------------------------------------------------------------------
LEMMA StillRun ==
  ASSUME CarriersRun,
         \A d \in Kinds : carrier'[d] \in {carrier[d], "lost", "leaving", "told"},
         pc["command"] # "idle" => pc'["command"] # "idle",
         pc["tick"] # "idle" => pc'["tick"] # "idle"
  PROVE  CarriersRun'
  BY DEF CarriersRun, At

LEMMA CommandRuns ==
  ASSUME TypeOK, PlacesFit, CarriersRun, Submit \/ SubmitScene \/ Fetch \/ Check \/ Drive
  PROVE  CarriersRun'
  <1>1. pc'["tick"] = pc["tick"]
    BY CommandFits
  <1>2. \A d \in Kinds : carrier'[d] \in {carrier[d], "lost"}
    <2>1. carrier' = carrier \/ carrier' = [carrier EXCEPT !["airConditioner"] = "lost"]
      BY DEF Submit, SubmitScene, Fetch, Check, Drive, Refuse, LightPower, LightBright,
           LightBrightness, LightManual, LightConfig, AirPower, AirDry, AirAssign, AirEncode,
           HumidifierSet, HeaterSet, CurtainRead, CurtainSteer, Accepted, Driving
    <2> QED
      BY <2>1 DEF TypeOK
  <1>3. pc'["command"] # "idle"
    <2>1. ASSUME NEW p, p # "idle", Goto("command", p) PROVE pc'["command"] # "idle"
      BY <2>1, Moves DEF Threads
    <2>2. LightPower => \E p \in {"bright", "manual"} : Goto("command", p)
      BY Zenon DEF LightPower
    <2> QED
      BY <2>1, <2>2 DEF Submit, SubmitScene, Fetch, Check, Drive, Refuse, Fail, LightBright,
           LightBrightness, LightManual, LightConfig, AirPower, AirDry, AirAssign, AirEncode,
           HumidifierSet, HeaterSet, CurtainRead, CurtainSteer
  <1> QED
    BY <1>1, <1>2, <1>3, StillRun

LEMMA AnswerRuns ==
  ASSUME TypeOK, PlacesFit, CarriersRun, Answer \/ AnswerScene \/ AnswerFails PROVE CarriersRun'
  <1>1. Answered
    BY DEF Answer, AnswerScene, AnswerFails
  <1>2. pc'["tick"] = pc["tick"]
    BY <1>1, CommandFits
  <1>3. \A d \in Kinds : /\ carrier'[d] \in {carrier[d], "lost", "leaving"}
                         /\ carrier'[d] # "command"
    BY DEF Answer, AnswerScene, AnswerFails, Passed
  <1> QED
    BY <1>2, <1>3 DEF CarriersRun, At

LEMMA DiesRuns ==
  ASSUME TypeOK, CarriersRun, Dies PROVE CarriersRun'
  <1>1. \A d \in Kinds : carrier'[d] \in {carrier[d], "lost"} /\ carrier'[d] # "tick"
    BY DEF Dies, Passed
  <1> QED
    BY <1>1, DiesFits DEF CarriersRun, At

LEMMA TickRuns ==
  ASSUME TypeOK, PlacesFit, CarriersRun, Tick PROVE CarriersRun'
  <1>1. pc'["command"] = pc["command"]
    BY TickFits
  <1>2. ASSUME NEW p, p # "idle", Goto("tick", p), carrier' = carrier PROVE CarriersRun'
    <2>1. pc'["tick"] = p
      BY <1>2, Moves DEF Threads
    <2> QED
      BY <1>1, <1>2, <2>1, StillRun
  <1>3. \A ds : First(ds) # "idle"
    BY DEF First
  <1>4. CASE Skip
    BY <1>2, <1>3, <1>4 DEF Skip, Leave, Visit
  <1>5. CASE TickStart
    BY <1>2, <1>3, <1>5 DEF TickStart, Visit
  <1>6. CASE TickTell
    <2>1. \A d \in Kinds : carrier'[d] \in {carrier[d], "told"} /\ carrier'[d] # "tick"
      BY <1>6 DEF TickTell, Passed
    <2> QED
      BY <1>1, <2>1 DEF CarriersRun, At
  <1>7. CASE SenseDrift \/ SenseWrite \/ SenseRecord
    BY <1>2, <1>4, <1>7, DiesRuns DEF SenseDrift, SenseWrite, SenseRecord
  <1>8. CASE LightLook \/ LightFound \/ LightOverridden
    BY <1>2, <1>4, <1>8 DEF LightLook, LightFound, LightOverridden
  <1>9. CASE LightOn \/ LightShine \/ LightOff \/ LightStay
    BY <1>2, <1>4, <1>9 DEF LightOn, LightShine, LightOff, LightStay
  <1>10. CASE CurtainLook
    BY <1>2, <1>4, <1>10 DEF CurtainLook
  <1>11. CASE CurtainMove
    BY <1>2, <1>4, <1>11, CurtainMoveDoes DEF Goto
  <1> QED
    BY <1>5, <1>6, <1>7, <1>8, <1>9, <1>10, <1>11 DEF Tick

LEMMA TouchRuns ==
  ASSUME TypeOK, CarriersRun, TouchCommand \/ TouchOther("tick") \/ TouchOther("loop")
  PROVE  CarriersRun'
  <1>1. CASE TouchCommand
    <2>1. pc'["command"] = "fetch" /\ pc'["tick"] = pc["tick"]
      BY <1>1, Moves DEF TouchCommand, Threads
    <2>2. \A d \in Kinds : carrier'[d] \in {carrier[d], "command"}
      BY <1>1 DEF TouchCommand, Touch
    <2> QED
      BY <2>1, <2>2 DEF CarriersRun, At
  <1>2. CASE TouchOther("tick")
    <2>1. Leave /\ Touch("tick")
      BY <1>2 DEF TouchOther
    <2>2. pc'["tick"] # "idle" /\ pc'["command"] = pc["command"]
      BY <2>1, LeaveFits, Moves DEF Leave, Visit, First, Threads
    <2>3. \A d \in Kinds : carrier'[d] \in {carrier[d], "tick"}
      BY <2>1 DEF Touch
    <2> QED
      BY <2>2, <2>3 DEF CarriersRun, At
  <1>3. CASE TouchOther("loop")
    <2>1. Goto("loop", "idle") /\ Touch("loop")
      BY <1>3 DEF TouchOther
    <2>2. pc'["tick"] = pc["tick"] /\ pc'["command"] = pc["command"]
      BY <2>1, Moves DEF Threads
    <2>3. \A d \in Kinds : carrier'[d] \in {carrier[d], "leaving"}
      BY <2>1 DEF Touch
    <2> QED
      BY <2>2, <2>3, StillRun
  <1> QED
    BY <1>1, <1>2, <1>3

LEMMA NextRuns == TypeOK /\ PlacesFit /\ CarriersRun /\ [Next]_vars => CarriersRun'
  <1> SUFFICES ASSUME TypeOK, PlacesFit, CarriersRun, [Next]_vars PROVE CarriersRun'
    OBVIOUS
  <1>1. CASE Fault \/ Inject \/ HoldReading
    <2>1. carrier' = carrier
      BY <1>1 DEF Fault, Inject, Injecting, HoldReading
    <2>2. PICK p : Goto("loop", p)
      BY <1>1 DEF Fault, Inject, HoldReading
    <2>3. pc'["tick"] = pc["tick"] /\ pc'["command"] = pc["command"]
      BY <2>2, Moves DEF Threads
    <2> QED
      BY <2>1, <2>3, StillRun
  <1>2. CASE Remove
    BY <1>2, DiesRuns, StillRun DEF Remove
  <1>3. CASE Pass \/ UNCHANGED vars
    BY <1>3, StillRun DEF Pass, vars
  <1>4. CASE \E d \in Kinds : Send(d)
    <2>1. PICK e \in Kinds : Send(e)
      BY <1>4
    <2>2. pc' = pc /\ \A d \in Kinds : carrier'[d] \in {carrier[d], "told"}
      BY <2>1 DEF Send, TypeOK
    <2> QED
      BY <2>2, StillRun
  <1> QED
    BY <1>1, <1>2, <1>3, <1>4, CommandRuns, AnswerRuns, TickRuns, TouchRuns
       DEF Next, CommandStep, TickStep, LoopStep

LEMMA InitRuns == Init => CarriersRun
  BY DEF Init, CarriersRun

(* With three threads writing to the devices, what clients were last told  *)
(* of a device is what it is once nobody changes it, whatever fails, and   *)
(* no thread comes to rest with an event it has not passed on.             *)
THEOREM ClientsAreTold == Spec => []ChangesAreTold
  <1>1. TypeOK /\ CarriersRun /\ AllAreTold => ChangesAreTold
    <2> SUFFICES ASSUME TypeOK, CarriersRun, AllAreTold, NEW d \in devices
                 PROVE  /\ carrier[d] \in Threads => ~At(carrier[d], "idle")
                        /\ carrier[d] = "told" /\ (\A t \in Threads : About(t) = d => ~Changing(t))
                             => Public(d) = event[d]
      BY DEF ChangesAreTold
    <2>1. d \in Kinds
      BY DEF TypeOK
    <2>2. carrier[d] \in Threads => ~At(carrier[d], "idle")
      BY <2>1 DEF CarriersRun, Threads, At
    <2> QED
      BY <2>1, <2>2 DEF AllAreTold
  <1> QED
    BY <1>1, InitFits, InitTells, InitRuns, NextFits, NextTells, NextRuns, TypeCorrect, PTL DEF Spec

-----------------------------------------------------------------------------
(* A request is of the device its action is for. *)
Fitting(r) ==
  /\ r.action \in {"setMode", "setTemperature"} => r.device = "airConditioner"
  /\ r.action = "setPosition" => r.device = "curtain"

(* Two steps of a scene are of one device only if it is the air            *)
(* conditioner, and they ask different things of it.                       *)
LEMMA StepsFit ==
  \A i \in DOMAIN Steps :
    /\ Fitting(Steps[i]) /\ i \in Int /\ Steps[i].device \in Kinds
    /\ \A j \in DOMAIN Steps : i # j /\ Steps[i].device = Steps[j].device =>
         Steps[i].device = "airConditioner" /\ Steps[i].action # Steps[j].action
  <1>1. CASE Steps = Away
    <2>1. \A i \in 1 .. 5 : i \in {1, 2, 3, 4, 5}
      OBVIOUS
    <2>2. \A i \in 1 .. 5 : Fitting(Away[i])
      BY <2>1, StepsAre DEF Fitting
    <2>3. \A i \in 1 .. 5 : \A j \in 1 .. 5 : i # j => Away[i].device # Away[j].device
      BY <2>1, StepsAre
    <2>4. \A i \in 1 .. 5 : Away[i].device \in Kinds
      BY <2>1, StepsAre DEF Kinds, Panels
    <2> QED
      BY <1>1, <2>2, <2>3, <2>4, StepsAre
  <1>2. CASE Steps = Home
    <2>1. \A i \in 1 .. 4 : i \in {1, 2, 3, 4}
      OBVIOUS
    <2>2. \A i \in 1 .. 4 : Fitting(Home[i])
      BY <2>1, StepsAre DEF Fitting
    <2>3. \A i \in 1 .. 4 : \A j \in 1 .. 4 : i # j /\ Home[i].device = Home[j].device =>
             Home[i].device = "airConditioner" /\ Home[i].action # Home[j].action
      BY <2>1, StepsAre
    <2>4. \A i \in 1 .. 4 : Home[i].device \in Kinds
      BY <2>1, StepsAre DEF Kinds, Panels
    <2> QED
      BY <1>2, <2>2, <2>3, <2>4, StepsAre
  <1> QED
    BY <1>1, <1>2 DEF Steps

(* What was asked of one device is not undone by a write to another.       *)
LEMMA OthersHold ==
  ASSUME NEW r, NEW e, Fitting(r), r.device # e, Only(e), Holds(r)
  PROVE  Holds(r)'
  BY DEF Fitting, Only, Holds

(* Nor by a write that only automation, a sensor or a curtain makes. *)
Kept ==
  /\ ~dev.light.power \/ dev.light.automatic => ~dev'.light.power \/ dev'.light.automatic
  /\ dev'.airConditioner = dev.airConditioner /\ dev'.humidifier = dev.humidifier
  /\ dev'.bathHeater = dev.bathHeater /\ dev'.curtain.target = dev.curtain.target

LEMMA KeptHolds == Kept => \A r : Holds(r) => Holds(r)'
  BY DEF Kept, Holds

(* Holds tells requests apart by their device, action and value alone.     *)
LEMMA AlikeHold ==
  ASSUME NEW r, NEW q, r.device = q.device, r.action = q.action, r.value = q.value, Holds(r)
  PROVE  Holds(q)
  BY DEF Holds

LEMMA WaitsStill ==
  ASSUME NEW i \in DOMAIN Steps, Waits(i), scene' = scene,
         outcome'[Steps[i].device] = outcome[Steps[i].device],
         \A j \in Mates(i) : j \in plan' <=> j \in plan,
         NEW r, r = Steps[i], Holds(r) => Holds(r)'
  PROVE  Waits(i)'
  <1>1. Steps' = Steps
    BY DEF Steps
  <1>2. Mates(i)' = Mates(i) /\ i \in Mates(i)
    BY <1>1 DEF Mates
  <1>3. Holds(Steps[i]) => Holds(r)'
    <2>1. Holds(Steps[i]) => Holds(r)
      BY DEF Holds
    <2> QED
      BY <2>1
  <1>4. Holds(r)' => Holds(Steps[i])'
    BY <1>1 DEF Holds
  <1> QED
    BY <1>1, <1>2, <1>3, <1>4 DEF Waits

(* Steps of the other threads. *)
LEMMA SceneKept ==
  ASSUME TypeOK, SceneInv, Kept, UNCHANGED <<plan, scene, outcome>>,
         pc'["command"] = pc["command"],
         cmd'.device = cmd.device, cmd'.action = cmd.action, cmd'.value = cmd.value
  PROVE  SceneInv'
  <1> SUFFICES ASSUME scene # "none" PROVE SceneInv'
    BY DEF SceneInv
  <1>1. Steps' = Steps /\ (Executing' <=> Executing)
    BY DEF Steps, Executing
  <1>2. (pc["command"] \in {"bright", "manual", "encode", "touch"} => Holds(cmd))'
    <2>1. PICK r : r = cmd
      OBVIOUS
    <2>2. Holds(cmd) => Holds(r)
      BY <2>1 DEF Holds
    <2>3. Holds(r) => Holds(r)'
      BY KeptHolds
    <2>4. Holds(r)' => Holds(cmd)'
      BY <2>1 DEF Holds
    <2> QED
      BY <2>2, <2>3, <2>4 DEF SceneInv
  <1>3. ASSUME NEW i \in DOMAIN Steps, InHand(i) PROVE InHand(i)'
    <2>1. ASSUME NEW j \in DOMAIN Steps, Holds(Steps[j]) PROVE Holds(Steps[j])'
      <3>1. PICK r : r = Steps[j]
        OBVIOUS
      <3>2. Holds(r)
        BY <2>1, <3>1 DEF Holds
      <3>3. Holds(r)'
        BY <3>2, KeptHolds
      <3> QED
        BY <1>1, <3>1, <3>3 DEF Holds
    <2>2. Mates(i)' = Mates(i) /\ Mates(i) \subseteq DOMAIN Steps
      BY <1>1 DEF Mates
    <2> QED
      BY <1>1, <1>3, <2>1, <2>2 DEF InHand
  <1>4. ASSUME NEW i \in DOMAIN Steps, Waits(i) PROVE Waits(i)'
    <2>1. PICK r : r = Steps[i]
      OBVIOUS
    <2> QED
      BY <1>4, <2>1, KeptHolds, WaitsStill
  <1> QED
    BY <1>1, <1>2, <1>3, <1>4 DEF SceneInv

(* A step of the command on the way to its device. *)
LEMMA SceneGoesOn ==
  ASSUME TypeOK, SceneInv, scene # "none", Executing, Executing', cmd' = cmd,
         UNCHANGED <<plan, scene, outcome>>, Only(cmd.device),
         cmd.device = "airConditioner" =>
           \A r : r.device = "airConditioner" /\ r.action # cmd.action /\ Fitting(r) /\ Holds(r)
                  => Holds(r)',
         Fitting(cmd) /\ pc'["command"] \in {"bright", "manual", "encode", "touch"}
           => Holds(cmd)'
  PROVE  SceneInv'
  <1>1. Steps' = Steps
    BY DEF Steps
  <1>2. PICK i \in DOMAIN Steps : InHand(i)
    BY DEF SceneInv
  <1>3. cmd.device = Steps[i].device /\ cmd.action = Steps[i].action
    BY <1>2 DEF InHand
  <1>4. Fitting(cmd)
    BY <1>3, StepsFit DEF Fitting
  <1>5. ASSUME NEW j \in Mates(i), j < i, Holds(Steps[j]) PROVE Holds(Steps[j])'
    <2>1. PICK r : r = Steps[j]
      OBVIOUS
    <2>2. j \in DOMAIN Steps /\ j # i /\ Steps[j].device = Steps[i].device /\ i \in Int /\ j \in Int
      BY <1>5, StepsFit DEF Mates
    <2>3. r.device = "airConditioner" /\ r.action # cmd.action /\ Fitting(r)
      BY <1>3, <2>1, <2>2, StepsFit
    <2>4. Holds(r)
      BY <1>5, <2>1 DEF Holds
    <2>5. Holds(r)'
      BY <1>3, <2>1, <2>2, <2>3, <2>4
    <2> QED
      BY <1>1, <2>1, <2>5 DEF Holds
  <1>6. InHand(i)'
    <2>1. Mates(i)' = Mates(i)
      BY <1>1 DEF Mates
    <2> QED
      BY <1>1, <1>2, <1>5, <2>1 DEF InHand
  <1>7. ASSUME NEW k \in DOMAIN Steps, Steps[k].device # cmd.device PROVE Waits(k)'
    <2>1. Waits(k)
      BY <1>7 DEF SceneInv
    <2>2. PICK r : r = Steps[k]
      OBVIOUS
    <2>3. PICK e : e = cmd.device
      OBVIOUS
    <2>4. Holds(r) => Holds(r)'
      BY <1>7, <2>2, <2>3, OthersHold, StepsFit
    <2> QED
      BY <2>1, <2>2, <2>4, WaitsStill
  <1>8. \A k \in DOMAIN Steps : (Waits(k) \/ (Executing /\ cmd.device = Steps[k].device))'
    BY <1>1, <1>7
  <1> QED
    BY <1>1, <1>4, <1>6, <1>8 DEF SceneInv

LEMMA DriveScenes ==
  ASSUME TypeOK, PlacesFit, SceneInv, scene # "none",
         \/ LightPower \/ LightBright \/ LightBrightness \/ LightManual \/ LightConfig
         \/ AirPower \/ AirDry \/ AirAssign \/ HumidifierSet \/ HeaterSet
         \/ CurtainRead \/ CurtainSteer
  PROVE  SceneInv'
  <1> USE Moves DEF Threads
  <1>1. ASSUME NEW p \in {"bright", "manual", "encode", "steer", "touch"}, Goto("command", p),
               UNCHANGED commandVars, Only(cmd.device), Executing,
               cmd.device = "airConditioner" =>
                 \A r : r.device = "airConditioner" /\ r.action # cmd.action /\ Fitting(r)
                          /\ Holds(r) => Holds(r)',
               Fitting(cmd) /\ p # "steer" => Holds(cmd)'
        PROVE  SceneInv'
    <2>1. pc'["command"] = p
      BY <1>1
    <2>2. Executing'
      BY <1>1, <2>1 DEF Executing
    <2> QED
      BY <1>1, <2>1, <2>2, SceneGoesOn
  <1>2. CASE LightPower
    <2>1. PICK p \in {"bright", "manual"} : Goto("command", p)
      BY <1>2, Zenon DEF LightPower
    <2>2. cmd.device = "light" /\ cmd.action = "setPower" /\ Executing /\ UNCHANGED commandVars
      BY <1>2 DEF LightPower, Accepted, Driving, Executing, At
    <2>3. Holds(cmd)'
      BY <1>2, <2>2, LightPowerDoes DEF Holds
    <2> QED
      BY <1>1, <1>2, <2>1, <2>2, <2>3, LightPowerDoes
  <1>3. CASE LightBright \/ LightManual
    <2>1. PICK p \in {"touch", "manual"} : Goto("command", p)
      BY <1>3 DEF LightBright, LightManual
    <2>2. Executing /\ UNCHANGED commandVars /\ Holds(cmd)
      BY <1>3 DEF LightBright, LightManual, Executing, At, SceneInv
    <2>3. cmd.device = "light"
      BY <1>3, Fits DEF LightBright, LightManual, FitsCommand, At
    <2>4. /\ Only("light") /\ dev'.light.power = dev.light.power
          /\ dev'.light.automatic = dev.light.automatic
      BY <1>3, LightBrightDoes, LightSettingsDo
    <2>5. Holds(cmd)'
      BY <2>2, <2>4 DEF Holds, Only
    <2> QED
      BY <1>1, <2>1, <2>2, <2>3, <2>4, <2>5
  <1>4. CASE LightBrightness \/ LightConfig
    <2>1. PICK p \in {"touch", "manual"} : Goto("command", p)
      BY <1>4 DEF LightBrightness, LightConfig
    <2>2. /\ cmd.device = "light" /\ cmd.action \in {"setBrightness", "setAutomationConfig"}
          /\ Executing /\ UNCHANGED commandVars
      BY <1>4 DEF LightBrightness, LightConfig, Accepted, Driving, Executing, At
    <2>3. Holds(cmd)'
      BY <2>2 DEF Holds
    <2> QED
      BY <1>1, <1>4, <2>1, <2>2, <2>3, LightBrightnessDoes, LightSettingsDo
  <1>5. CASE AirPower
    <2>1. /\ cmd.device = "airConditioner" /\ cmd.action = "setPower"
          /\ Executing /\ UNCHANGED commandVars /\ Goto("command", "touch")
      BY <1>5 DEF AirPower, Accepted, Driving, Executing, At
    <2>2. /\ Only("airConditioner") /\ (dev'.airConditioner.power <=> cmd.value = 1)
          /\ dev'.airConditioner.mode = dev.airConditioner.mode
          /\ dev'.airConditioner.target = dev.airConditioner.target
      BY <1>5, AirDoes
    <2>3. Holds(cmd)'
      BY <2>1, <2>2 DEF Holds
    <2>4. ASSUME NEW r, r.device = "airConditioner", r.action # "setPower", Fitting(r), Holds(r)
          PROVE  Holds(r)'
      BY <2>2, <2>4 DEF Holds, Fitting
    <2> QED
      BY <1>1, <2>1, <2>2, <2>3, <2>4
  <1>6. CASE AirDry
    <2>1. /\ cmd.device = "airConditioner" /\ cmd.action = "setDehumidify"
          /\ Executing /\ UNCHANGED commandVars /\ Goto("command", "touch")
      BY <1>6 DEF AirDry, Accepted, Driving, Executing, At
    <2>2. PICK i \in DOMAIN Steps : InHand(i)
      BY <2>1 DEF SceneInv
    <2>3. \A j \in DOMAIN Steps : Steps[j].action # "setDehumidify"
      <3>1. \A j \in 1 .. 5 : j \in {1, 2, 3, 4, 5}
        OBVIOUS
      <3>2. \A j \in 1 .. 4 : j \in {1, 2, 3, 4}
        OBVIOUS
      <3> QED
        BY <3>1, <3>2, StepsAre DEF Steps
    <2> QED
      BY <2>1, <2>2, <2>3 DEF InHand
  <1>7. CASE AirAssign
    <2>1. /\ cmd.device = "airConditioner" /\ cmd.action \in {"setMode", "setTemperature"}
          /\ Executing /\ UNCHANGED commandVars /\ Goto("command", "encode")
      BY <1>7 DEF AirAssign, Driving, Executing, At
    <2>2. Only("airConditioner")
      BY <1>7, AirDoes
    <2>3. Holds(cmd)'
      BY <1>7, <2>1, AirAssignDoes DEF Holds
    <2>4. ASSUME NEW r, r.device = "airConditioner", r.action # cmd.action, Fitting(r), Holds(r)
          PROVE  Holds(r)'
      BY <1>7, <2>1, <2>4, AirAssignDoes DEF Holds, Fitting
    <2> QED
      BY <1>1, <2>1, <2>2, <2>3, <2>4
  <1>8. CASE HumidifierSet \/ HeaterSet
    <2>1. /\ Executing /\ UNCHANGED commandVars /\ Goto("command", "touch")
          /\ cmd.action \in {"setPower", "set"}
      BY <1>8 DEF HumidifierSet, HeaterSet, Accepted, Driving, Executing, At
    <2>2. /\ cmd.device \in {"humidifier", "bathHeater"} /\ Only(cmd.device)
          /\ cmd.action = "setPower" => (dev'[cmd.device].power <=> cmd.value = 1)
      BY <1>8, PanelDoes DEF Panels
    <2>3. Holds(cmd)'
      BY <2>1, <2>2 DEF Holds
    <2> QED
      BY <1>1, <2>1, <2>2, <2>3
  <1>9. CASE CurtainRead
    <2>1. /\ Executing /\ UNCHANGED commandVars /\ Goto("command", "steer") /\ dev' = dev
          /\ cmd.device = "curtain"
      BY <1>9 DEF CurtainRead, Accepted, Driving, Executing, At
    <2>2. Only(cmd.device)
      BY <2>1 DEF Only
    <2> QED
      BY <1>1, <2>1, <2>2
  <1>10. CASE CurtainSteer
    <2>1. Executing /\ UNCHANGED commandVars /\ Goto("command", "touch")
      BY <1>10 DEF CurtainSteer, Executing, At
    <2>2. cmd.device = "curtain"
      BY <1>10, Fits DEF CurtainSteer, FitsCommand, At
    <2>3. Only("curtain") /\ (cmd.action # "stop" => dev'.curtain.target = cmd.value)
      BY <1>10, CurtainSteerDoes
    <2>4. Fitting(cmd) => Holds(cmd)'
      BY <2>1, <2>2, <2>3 DEF Holds, Fitting
    <2> QED
      BY <1>1, <2>1, <2>2, <2>3, <2>4
  <1> QED
    BY <1>2, <1>3, <1>4, <1>5, <1>6, <1>7, <1>8, <1>9, <1>10

(* What was refused or done leaves the steps of its device in order.       *)
LEMMA FailScenes ==
  ASSUME TypeOK, SceneInv, scene # "none", Executing, Fail, dev' = dev
  PROVE  SceneInv'
  <1>1. Steps' = Steps /\ scene' = scene /\ pc'["command"] = "fetch"
    BY Moves DEF Steps, Fail, Threads
  <1>2. \A k \in DOMAIN Steps : Steps[k].device # cmd.device => Waits(k)'
    <2> SUFFICES ASSUME NEW k \in DOMAIN Steps, Steps[k].device # cmd.device PROVE Waits(k)'
      OBVIOUS
    <2>1. PICK r : r = Steps[k]
      OBVIOUS
    <2>2. Holds(r) => Holds(r)'
      BY DEF Holds
    <2>3. outcome'[Steps[k].device] = outcome[Steps[k].device]
      BY StepsFit DEF Fail, TypeOK
    <2>4. \A j \in Mates(k) : j \in plan' <=> j \in plan
      BY DEF Fail, Mates
    <2>5. Waits(k)
      BY DEF SceneInv
    <2> QED
      BY <1>1, <2>1, <2>2, <2>3, <2>4, <2>5, WaitsStill
  <1>3. \A k \in DOMAIN Steps : Steps[k].device = cmd.device => Waits(k)'
    <2> SUFFICES ASSUME NEW k \in DOMAIN Steps, Steps[k].device = cmd.device PROVE Waits(k)'
      OBVIOUS
    <2>1. k \notin plan'
      BY DEF Fail
    <2>2. outcome'[Steps[k].device] = "failed"
      BY StepsFit DEF Fail, TypeOK
    <2> QED
      BY <1>1, <2>1, <2>2 DEF Waits
  <1> QED
    BY <1>1, <1>2, <1>3 DEF SceneInv, Executing

LEMMA DecideScenes ==
  ASSUME TypeOK, SceneInv, scene # "none", Check \/ Refuse \/ AirEncode
  PROVE  SceneInv'
  <1>1. dev' = dev /\ Executing
    BY DEF Check, Refuse, AirEncode, Executing, At
  <1>2. CASE Fail
    BY <1>1, <1>2, FailScenes
  <1>3. ASSUME NEW p \in {"drive", "touch"}, Goto("command", p), UNCHANGED commandVars,
               p = "touch" => pc["command"] = "encode"
        PROVE  SceneInv'
    <2>1. pc'["command"] = p /\ Executing'
      BY <1>3, Moves DEF Threads, Executing
    <2>2. Only(cmd.device) /\ \A r : Holds(r) => Holds(r)'
      BY <1>1 DEF Only, Holds
    <2>3. p = "touch" => Holds(cmd)'
      BY <1>1, <1>3 DEF SceneInv, Holds
    <2> QED
      BY <1>1, <1>3, <2>1, <2>2, <2>3, SceneGoesOn
  <1> QED
    BY <1>2, <1>3 DEF Check, Refuse, AirEncode, At

LEMMA TouchScenes ==
  ASSUME TypeOK, SceneInv, scene # "none", TouchCommand
  PROVE  SceneInv'
  <1>1. /\ Steps' = Steps /\ UNCHANGED <<dev, scene, plan, cmd>> /\ pc'["command"] = "fetch"
        /\ outcome' = [outcome EXCEPT ![cmd.device] = "ok"] /\ Executing
    BY Moves DEF Steps, TouchCommand, Touch, Threads, Executing, At
  <1>2. PICK i \in DOMAIN Steps : InHand(i)
    BY <1>1 DEF SceneInv
  <1>3. \A k \in DOMAIN Steps : Steps[k].device # cmd.device => Waits(k)'
    <2> SUFFICES ASSUME NEW k \in DOMAIN Steps, Steps[k].device # cmd.device PROVE Waits(k)'
      OBVIOUS
    <2>1. PICK r : r = Steps[k]
      OBVIOUS
    <2>2. Holds(r) => Holds(r)'
      BY <1>1 DEF Holds
    <2>3. outcome'[Steps[k].device] = outcome[Steps[k].device]
      BY <1>1, StepsFit DEF TypeOK
    <2>4. Waits(k)
      BY DEF SceneInv
    <2> QED
      BY <1>1, <2>1, <2>2, <2>3, <2>4, WaitsStill
  <1>4. \A k \in DOMAIN Steps : Steps[k].device = cmd.device => Waits(k)'
    <2> SUFFICES ASSUME NEW k \in DOMAIN Steps, Steps[k].device = cmd.device PROVE Waits(k)'
      OBVIOUS
    <2>1. k \in Mates(i) /\ Mates(k) = Mates(i) /\ i \in Int /\ k \in Int
      BY <1>2, StepsFit DEF InHand, Mates
    <2>2. Mates(k)' = Mates(k) /\ \A j \in Mates(k) : j \in Int
      BY <1>1, StepsFit DEF Mates
    <2>3. outcome'[Steps[k].device] = "ok"
      BY <1>1, StepsFit DEF TypeOK
    <2>4. \A j \in Mates(k) : j \in plan <=> j > i
      BY <1>2, <2>1 DEF InHand
    <2>5. Holds(cmd)
      BY DEF SceneInv, TouchCommand, Touch, At
    <2>6. Holds(Steps[i])
      BY <1>2, <2>5 DEF InHand, Holds
    <2>7. k \notin plan => Holds(Steps[k])
      <3>1. k < i => Holds(Steps[k])
        BY <1>2, <2>1 DEF InHand
      <3> QED
        BY <2>1, <2>4, <2>6, <3>1
    <2>8. k \notin plan => Holds(Steps[k])'
      BY <1>1, <2>7 DEF Holds
    <2>9. k \in plan => \A j \in Mates(k) : j > k => j \in plan
      BY <2>1, <2>2, <2>4
    <2> QED
      BY <1>1, <2>2, <2>3, <2>8, <2>9 DEF Waits
  <1> QED
    BY <1>1, <1>3, <1>4 DEF SceneInv, Executing

LEMMA FetchScenes ==
  ASSUME TypeOK, SceneInv, scene # "none", Fetch
  PROVE  SceneInv'
  <1>1. /\ Steps' = Steps /\ UNCHANGED <<dev, scene, outcome>> /\ pc'["command"] = "check"
        /\ ~Executing /\ Executing'
    BY Moves DEF Steps, Fetch, Threads, Executing, At
  <1>2. PICK i \in plan : (\A j \in plan : i <= j) /\ cmd' = Steps[i] /\ plan' = plan \ {i}
    BY DEF Fetch
  <1>3. i \in DOMAIN Steps /\ i \in Mates(i) /\ i \in Int
    BY StepsFit DEF TypeOK, Mates
  <1>4. \A k \in DOMAIN Steps : Waits(k)
    BY <1>1 DEF SceneInv
  <1>5. outcome[Steps[i].device] # "failed" /\ \A j \in Mates(i) : j > i => j \in plan
    BY <1>2, <1>3, <1>4 DEF Waits
  <1>6. \A j \in Mates(i) : j < i => j \notin plan /\ j \in DOMAIN Steps /\ Steps[j].device = Steps[i].device
                                  /\ Mates(j) = Mates(i)
    BY <1>2, <1>3, StepsFit DEF Mates
  <1>7. \A j \in Mates(i) : j < i => Holds(Steps[j])
    <2> SUFFICES ASSUME NEW j \in Mates(i), j < i PROVE Holds(Steps[j])
      OBVIOUS
    <2>1. Waits(j) /\ j \notin plan /\ Mates(j) \cap plan # {}
      BY <1>2, <1>3, <1>4, <1>6
    <2>2. outcome[Steps[j].device] \in {"none", "ok", "failed"}
      BY <1>6, StepsFit DEF TypeOK
    <2> QED
      BY <1>5, <1>6, <2>1, <2>2 DEF Waits
  <1>8. \A j \in Mates(i) : j < i => Holds(Steps[j])'
    BY <1>1, <1>7 DEF Holds
  <1>9. InHand(i)'
    <2>1. Mates(i)' = Mates(i) /\ \A j \in Mates(i) : j \in Int
      BY <1>1, StepsFit DEF Mates
    <2>2. \A j \in Mates(i) : j \in plan' <=> j > i
      BY <1>2, <1>3, <1>5, <1>6, <2>1
    <2> QED
      BY <1>1, <1>2, <1>5, <1>8, <2>1, <2>2 DEF InHand
  <1>10. \A k \in DOMAIN Steps : Steps[k].device # cmd'.device => Waits(k)'
    <2> SUFFICES ASSUME NEW k \in DOMAIN Steps, Steps[k].device # cmd'.device PROVE Waits(k)'
      OBVIOUS
    <2>1. PICK r : r = Steps[k]
      OBVIOUS
    <2>2. Holds(r) => Holds(r)'
      BY <1>1 DEF Holds
    <2>3. \A j \in Mates(k) : j \in plan' <=> j \in plan
      BY <1>2 DEF Mates
    <2> QED
      BY <1>1, <1>4, <2>1, <2>2, <2>3, WaitsStill
  <1> QED
    BY <1>1, <1>3, <1>9, <1>10 DEF SceneInv

LEMMA StepKinds == \A i \in DOMAIN Steps : Steps[i].device \in Kinds
  BY StepsFit

LEMMA SubmitScenes ==
  ASSUME TypeOK, SubmitScene PROVE SceneInv'
  <1>1. /\ scene' \in {"away", "home"} /\ outcome' = [d \in Kinds |-> "none"]
        /\ pc'["command"] = "fetch"
        /\ \E ds : plan' = {i \in DOMAIN Steps' : Steps'[i].device \in ds}
    <2>1. CASE scene' = "away"
      BY <2>1, Moves DEF SubmitScene, Threads, Steps
    <2>2. CASE scene' = "home"
      BY <2>2, Moves DEF SubmitScene, Threads, Steps
    <2> QED
      BY <2>1, <2>2 DEF SubmitScene
  <1>2. PICK ds : plan' = {i \in DOMAIN Steps' : Steps'[i].device \in ds}
    BY <1>1
  <1>3. \A i \in DOMAIN Steps' : Steps'[i].device \in Kinds
    <2>1. (\A i \in DOMAIN Steps : Steps[i].device \in Kinds)'
      BY StepKinds, PTL
    <2> QED
      BY <2>1
  <1>4. \A i \in DOMAIN Steps' : outcome'[Steps'[i].device] = "none"
    BY <1>1, <1>3
  <1>5. ASSUME NEW i \in DOMAIN Steps' PROVE Waits(i)'
    BY <1>2, <1>4, <1>5 DEF Waits, Mates
  <1> QED
    BY <1>1, <1>5 DEF SceneInv, Executing

LEMMA AnswerScenes ==
  ASSUME TypeOK, SceneInv, scene # "none", AnswerScene \/ AnswerFails
  PROVE  SceneInv'
  <1>1. /\ Steps' = Steps /\ UNCHANGED <<dev, scene, plan, outcome>> /\ pc'["command"] = "idle"
        /\ ~Executing
    BY Moves DEF Steps, AnswerScene, AnswerFails, Answered, Threads, Executing, At
  <1>2. ASSUME NEW k \in DOMAIN Steps PROVE Waits(k)'
    <2>1. PICK r : r = Steps[k]
      OBVIOUS
    <2>2. Holds(r) => Holds(r)'
      BY <1>1 DEF Holds
    <2>3. Waits(k)
      BY <1>1 DEF SceneInv
    <2> QED
      BY <1>1, <1>2, <2>1, <2>2, <2>3, WaitsStill
  <1> QED
    BY <1>1, <1>2 DEF SceneInv, Executing

LEMMA OthersScenes ==
  ASSUME TypeOK, SceneInv,
         \/ TickStep \/ LoopStep \/ Fault \/ Inject \/ Remove \/ Pass
         \/ (\E d \in Kinds : Send(d)) \/ UNCHANGED vars
  PROVE  SceneInv'
  <1> USE Moves DEF Threads
  <1>1. CASE Tick
    <2>1. UNCHANGED commandVars
      BY <1>1 DEF Tick, TickStart, TickTell, SenseDrift, SenseWrite, SenseRecord, LightLook, LightFound,
           LightOverridden, LightOn, LightShine, LightOff, LightStay, CurtainLook, CurtainMove,
           Deciding, Ticking
    <2>2. pc'["command"] = pc["command"]
      <3>1. ASSUME NEW p, Goto("tick", p) PROVE pc'["command"] = pc["command"]
        BY <3>1
      <3>2. Skip \/ Dies => pc'["command"] = pc["command"]
        BY LeaveFits, DiesFits DEF Skip
      <3>3. TickStart \/ TickTell => pc'["command"] = pc["command"]
        BY <3>1, VisitFits DEF TickStart, TickTell
      <3>4. SenseDrift \/ SenseWrite \/ SenseRecord => pc'["command"] = pc["command"]
        BY <3>1, <3>2 DEF SenseDrift, SenseWrite, SenseRecord
      <3>5. LightLook \/ LightFound \/ LightOverridden => pc'["command"] = pc["command"]
        BY <3>1, <3>2 DEF LightLook, LightFound, LightOverridden
      <3>6. LightOn \/ LightShine \/ LightOff \/ LightStay => pc'["command"] = pc["command"]
        BY <3>1, <3>2 DEF LightOn, LightShine, LightOff, LightStay
      <3>7. CurtainLook \/ CurtainMove => pc'["command"] = pc["command"]
        BY <3>1, <3>2, CurtainMoveDoes DEF CurtainLook, Goto
      <3> QED
        BY <1>1, <3>3, <3>4, <3>5, <3>6, <3>7 DEF Tick
    <2>3. Kept
      <3>1. dev' = dev => Kept
        BY DEF Kept
      <3>2. Only("environment") => Kept
        BY DEF Kept, Only
      <3>3. LightOn \/ LightShine \/ LightOff \/ LightStay => Kept
        BY LightOnDoes, LightShineDoes, LightOffDoes, LightStayDoes DEF Kept, Only
      <3>4. CurtainMove => Kept
        BY CurtainMoveDoes DEF Kept, Only
      <3> QED
        BY <1>1, <3>1, <3>2, <3>3, <3>4, SensorDoes, SenseRecordDoes
           DEF Tick, TickStart, TickTell, SenseDrift, LightLook, LightFound, LightOverridden, CurtainLook
    <2> QED
      BY <2>1, <2>2, <2>3, SceneKept
  <1>2. ASSUME NEW t \in {"tick", "loop"}, TouchOther(t) PROVE SceneInv'
    <2>1. dev' = dev /\ UNCHANGED <<plan, scene, outcome>> /\ (cmd' = cmd \/ cmd' = Late)
      BY <1>2, Zenon DEF TouchOther, Touch
    <2>2. cmd'.device = cmd.device /\ cmd'.action = cmd.action /\ cmd'.value = cmd.value
      BY <2>1 DEF Late, TypeOK, Requests
    <2>3. pc'["command"] = pc["command"]
      BY <1>2, LeaveFits DEF TouchOther
    <2>4. Kept
      BY <2>1 DEF Kept
    <2> QED
      BY <2>1, <2>2, <2>3, <2>4, SceneKept
  <1>3. CASE Fault \/ Inject \/ HoldReading
    <2>1. UNCHANGED commandVars
      BY <1>3 DEF Fault, Inject, Injecting, HoldReading
    <2>2. PICK p : Goto("loop", p)
      BY <1>3 DEF Fault, Inject, HoldReading
    <2>3. pc'["command"] = pc["command"]
      BY <2>2
    <2>4. Kept
      BY <1>3, SensorDoes, InjectDoes DEF Fault, Kept, Only
    <2> QED
      BY <2>1, <2>3, <2>4, SceneKept
  <1>4. CASE Remove
    <2>1. UNCHANGED commandVars /\ pc'["command"] = pc["command"] /\ dev' = dev
      BY <1>4, DiesFits DEF Remove
    <2> QED
      BY <2>1, SceneKept DEF Kept
  <1>5. CASE Pass \/ (\E d \in Kinds : Send(d)) \/ UNCHANGED vars
    BY <1>5, SceneKept DEF Pass, Send, vars, Kept
  <1> QED
    BY <1>1, <1>2, <1>3, <1>4, <1>5 DEF TickStep, LoopStep

LEMMA NextScenes == TypeOK /\ PlacesFit /\ SceneInv /\ [Next]_vars => SceneInv'
  <1> SUFFICES ASSUME TypeOK, PlacesFit, SceneInv, [Next]_vars PROVE SceneInv'
    OBVIOUS
  <1>1. CASE Submit
    BY <1>1 DEF Submit, SceneInv
  <1>2. CASE SubmitScene
    BY <1>2, SubmitScenes
  <1>3. CASE CommandStep /\ scene = "none"
    <2>1. scene' = scene
      BY <1>3 DEF CommandStep, Fetch, Check, Drive, Answer, AnswerScene, AnswerFails, Answered,
           TouchCommand, Touch, Fail, Refuse,
           LightPower, LightBright, LightBrightness, LightManual, LightConfig, AirPower, AirDry,
           AirAssign, AirEncode, HumidifierSet, HeaterSet, CurtainRead, CurtainSteer,
           Accepted, Driving
    <2> QED
      BY <1>3, <2>1 DEF SceneInv
  <1>4. CASE CommandStep /\ scene # "none"
    BY <1>4, FetchScenes, DecideScenes, DriveScenes, AnswerScenes, TouchScenes
       DEF CommandStep, Drive, Answer
  <1> QED
    BY <1>1, <1>2, <1>3, <1>4, OthersScenes DEF Next

(* When a scene has been answered, what it did to the devices it calls a   *)
(* success still holds of them.                                            *)
LEMMA ScenesHold ==
  TypeOK /\ SceneInv /\ At("command", "idle") /\ scene # "none" =>
    \A i \in DOMAIN Steps : outcome[Steps[i].device] = "ok" => Holds(Steps[i])
  BY DEF TypeOK, SceneInv, Waits, Executing, At

(* What a scene answers is true of every device it calls a success.        *)
THEOREM ScenesTellTheTruth == Spec => []SceneIsTrue
  <1>1. Init => SceneInv
    BY DEF Init, SceneInv
  <1>2. TypeOK /\ SceneInv => SceneIsTrue
    <2> SUFFICES ASSUME TypeOK, SceneInv, At("command", "idle") PROVE SceneIsTrue
      BY DEF SceneIsTrue
    <2>1. ASSUME scene = "away"
          PROVE  /\ outcome["light"] = "ok" => ~dev.light.power \/ dev.light.automatic
                 /\ outcome["airConditioner"] = "ok" => ~dev.airConditioner.power
                 /\ \A d \in Panels : outcome[d] = "ok" => ~dev[d].power
                 /\ outcome["curtain"] = "ok" => dev.curtain.target = 0
      <3>1. \A i \in 1 .. 5 : outcome[Away[i].device] = "ok" => Holds(Away[i])
        BY <2>1, ScenesHold, StepsAre DEF Steps
      <3>2. /\ outcome["light"] = "ok" => Holds(Away[1])
            /\ outcome["airConditioner"] = "ok" => Holds(Away[2])
            /\ outcome["bathHeater"] = "ok" => Holds(Away[3])
            /\ outcome["humidifier"] = "ok" => Holds(Away[4])
            /\ outcome["curtain"] = "ok" => Holds(Away[5])
        <4>1. /\ Away[1].device = "light" /\ Away[2].device = "airConditioner"
              /\ Away[3].device = "bathHeater" /\ Away[4].device = "humidifier"
              /\ Away[5].device = "curtain"
          BY StepsAre
        <4> QED
          BY <3>1, <4>1
      <3> QED
        BY <3>2, StepsAre DEF Holds, Panels
    <2>2. ASSUME scene = "home", outcome["airConditioner"] = "ok"
          PROVE  dev.airConditioner = [power |-> TRUE, mode |-> Steady, target |-> 24]
      <3>1. \A i \in 1 .. 4 : outcome[Home[i].device] = "ok" => Holds(Home[i])
        BY <2>2, ScenesHold, StepsAre DEF Steps
      <3>2. Holds(Home[2]) /\ Holds(Home[3]) /\ Holds(Home[4])
        <4>1. \A i \in 2 .. 4 : Home[i].device = "airConditioner"
          BY StepsAre
        <4> QED
          BY <2>2, <3>1, <4>1
      <3>3. /\ dev.airConditioner.power /\ dev.airConditioner.mode = 1
            /\ dev.airConditioner.target = 24
        BY <3>2, StepsAre DEF Holds
      <3> QED
        BY <3>3 DEF TypeOK, Airs, Steady
    <2> QED
      BY <2>1, <2>2 DEF SceneIsTrue
  <1> QED
    BY <1>1, <1>2, InitFits, NextFits, NextScenes, TypeCorrect, PTL DEF Spec

-----------------------------------------------------------------------------
(* Why a curtain and a room arrive, step by step; that the steps are taken *)
(* is fairness, and for TLC.                                               *)

Nears(from, to, next) ==
  /\ from <= to => from <= next /\ next <= to /\ (next = to \/ next = from + 10)
  /\ from >= to => to <= next /\ next <= from /\ (next = to \/ next = from - 10)

CurtainNears ==
  /\ Nears(dev.curtain.position, seen["tick"], dev'.curtain.position)
  /\ dev'.curtain.moving <=> dev'.curtain.position # seen["tick"]

LEMMA MoveNears ==
  ASSUME TypeOK, CurtainMove PROVE CurtainNears
  <1>1. PICK from, to : from = dev.curtain.position /\ to = seen["tick"]
    OBVIOUS
  <1>2. dev.curtain \in Curtains /\ from \in Int /\ to \in Int
    BY <1>1 DEF TypeOK, Curtains, Threads
  <1>3. PICK n : n = IF to > from THEN from + Least(10, to - from)
                                  ELSE from - Least(10, from - to)
    OBVIOUS
  <1>4. /\ n \in Int
        /\ Nears(from, to, n)
    BY <1>2, <1>3 DEF Least, Nears
  <1>5. PICK s : s = [dev.curtain EXCEPT !.position = n, !.moving = n # to]
    OBVIOUS
  <1>6. Put("curtain", s)
    BY <1>1, <1>3, <1>5 DEF CurtainMove
  <1>7. s \in Curtains /\ s.position = n
    BY <1>2, <1>4, <1>5 DEF Curtains
  <1>8. s.moving <=> n # to
    BY <1>2, <1>5 DEF Curtains
  <1>9. dev'.curtain = s
    BY <1>6, <1>7, CurtainWrite
  <1> QED
    BY <1>1, <1>4, <1>7, <1>8, <1>9 DEF CurtainNears

(* A tick moves a curtain towards the target it read by at most 10, never  *)
(* past it, and says it moves exactly until it is there.                   *)
THEOREM CurtainNearsTarget == Spec => [][CurtainMove => CurtainNears]_vars
  <1> QED
    BY MoveNears, TypeCorrect, PTL DEF Spec

(* A reading that is more than one degree off its target comes nearer at   *)
(* every tick and does not pass it, whatever the noise of the sensor; one  *)
(* that is within a degree stays there.  And there always is a reading.    *)
THEOREM ReadingNearsTarget ==
  ASSUME NEW old \in Int, NEW target \in Int
  PROVE  /\ Drift(old, target) # {}
         /\ \A new \in Drift(old, target) :
              /\ Near(old, target) => Near(new, target)
              /\ ~Near(old, target) /\ old < target => old < new /\ new < target
              /\ ~Near(old, target) /\ old > target => target < new /\ new < old
  <1>1. PICK gap \in Int : gap = target - old
    OBVIOUS
  <1>2. ASSUME NEW new \in Drift(old, target)
        PROVE  /\ Near(old, target) => Near(new, target)
               /\ ~Near(old, target) /\ old < target => old < new /\ new < target
               /\ ~Near(old, target) /\ old > target => target < new /\ new < old
    <2>1. PICK k \in Int : new = old + k /\ 100 * k - 8 * gap <= 70 /\ 8 * gap - 100 * k <= 70
      BY <1>1, <1>2 DEF Drift, Rounded
    <2>2. /\ gap > 10 => 0 < k /\ k < gap
          /\ gap < -10 => gap < k /\ k < 0
          /\ gap <= 10 /\ gap >= -10 => gap - k <= 10 /\ k - gap <= 10
      BY <2>1
    <2> QED
      BY <1>1, <2>1, <2>2 DEF Near
  <1>3. Drift(old, target) # {}
    <2>1. PICK by, step \in Int : by = 8 * gap /\ step = by \div 100
      OBVIOUS
    <2>2. by \in Int /\ 100 * step <= by /\ by < 100 * step + 100
      BY <2>1
    <2>3. \E k \in step .. step + 1 : 100 * k - by <= 70 /\ by - 100 * k <= 70
      <3>1. CASE by - 100 * step <= 70
        BY <2>2, <3>1
      <3>2. CASE by - 100 * step > 70
        BY <2>2, <3>2
      <3> QED
        BY <2>2, <3>1, <3>2
    <2> QED
      BY <1>1, <2>1, <2>3 DEF Drift, Rounded
  <1> QED
    BY <1>2, <1>3
=============================================================================
