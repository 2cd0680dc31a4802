----------------------------- MODULE Appliances -----------------------------
(***************************************************************************)
(* The appliances of a home in VirtualGateway/devcontrol_gateway: the      *)
(* drivers of drivers.py (door lock apart, see DoorLock), the scenes and   *)
(* the tick of registry.py, and the threads that run them without a lock:  *)
(*   "command"  the worker of process_command, a device or a scene;        *)
(*   "tick"     the worker of the telemetry loop, device after device;     *)
(*   "loop"     the event loop, which injects faults and readings.         *)
(* A deletion runs in a worker of its own and is one step.  A step ends    *)
(* where the interpreter may switch threads: at calls and loop iterations. *)
(* A home has at most one device of a type here.                           *)
(***************************************************************************)
EXTENDS Integers

CONSTANTS
  Homes,         \* the sets of devices a home may start with
  Removable,     \* those registered by QR code; the others are built in
  Delay,         \* noPresenceDelaySeconds
  Override,      \* the 300 seconds automation waits after a manual command
  Hold,          \* the 30 seconds an injected reading stays
  Ambient,       \* temperatures of a room without air conditioning, tenths
  Asked,         \* temperatures clients ask for, degrees
  Injected,      \* readings the administrator injects, tenths
  Positions,     \* curtain positions clients ask for
  StorageFails,  \* whether a history row can fail to be written
  MaxTime, MaxCalls, MaxCommands, MaxFaults, MaxReadings   \* bounds of the model

Panels == {"humidifier", "bathHeater"}   \* they only keep what they are told
Kinds  == {"light", "environment", "airConditioner", "curtain"} \cup Panels

ASSUME HomesAre  == Homes \subseteq SUBSET Kinds
ASSUME ValuesAre == /\ Asked \cup Injected \cup Positions \subseteq Int
                    /\ Override \in Nat /\ Hold \in Nat

VARIABLES
  now, devices, online,
  dev,      \* the device dictionaries without online and stateVersion
  event,    \* history: each as of its last _touch, which an event is made of
  carrier,  \* history: who has that event; "leaving" to the clients, told or lost
  pc,       \* what each thread does next
  cmd,      \* the command under way; stale: its version is outdated
  plan,     \* the numbers of the scene's steps that are left
  scene,    \* which scene is executed
  outcome,  \* the result of each device
  reply,    \* the answer to the command
  todo,     \* the devices the tick has still to visit
  seen,     \* what a thread has read and still uses
  spot,     \* the device the event loop injects into
  alive,    \* whether the telemetry loop still runs
  empty,    \* history: since when every tick that looked has found nobody
  left      \* bound: calls to come: commands, faults or deletions, readings

commandVars == <<cmd, plan, scene, outcome, reply>>
tickVars    == <<todo, alive, carrier>>
homeVars    == <<devices, online>>
boundVars   == <<now, left>>
vars == <<boundVars, homeVars, dev, event, pc, commandVars, tickVars, seen, spot, empty>>

None     == -1
Bad      == -2      \* a parameter the driver refuses at once
Unsteady == 0       \* a mode that leaves the temperature alone: fan, dry
Steady   == 1       \* cool, heat, auto
Threads  == {"command", "tick", "loop"}

At(t, step)   == pc[t] = step
Goto(t, step) == pc' = [pc EXCEPT ![t] = step]
Spend(b)      == left[b] > 0 /\ left.calls > 0
                 /\ left' = [left EXCEPT ![b] = @ - 1, !.calls = @ - 1]
Put(d, s)     == dev' = [dev EXCEPT ![d] = s]
First(ds)     == IF "environment" \in ds THEN "environment" ELSE IF "light" \in ds THEN "light"
                 ELSE IF "curtain" \in ds THEN "curtain" ELSE "tell"
About(t) == CASE t = "command" -> cmd.device
              [] t = "loop"    -> spot
              [] OTHER         -> First(todo)

(* Between the first write of a change and its touch.                      *)
Changing(t) == pc[t] \in {"bright", "manual", "encode", "touch", "shine", "record", "hold"}

(* public_device: keys with an underscore stay inside. *)
Public(d) == CASE d = "light"       -> [dev[d] EXCEPT !.since = None, !.automatic = FALSE]
               [] d = "environment" -> [dev[d] EXCEPT !.held = 0]
               [] OTHER             -> dev[d]

Request(d, a, v) == [device |-> d, action |-> a, value |-> v, stale |-> FALSE]
Away == << Request("light", "setPower", 0), Request("airConditioner", "setPower", 0),
           Request("bathHeater", "setPower", 0), Request("humidifier", "setPower", 0),
           Request("curtain", "setPosition", 0) >>
Home == << Request("light", "setBrightness", 2), Request("airConditioner", "setMode", Steady),
           Request("airConditioner", "setTemperature", 24),
           Request("airConditioner", "setPower", 1) >>
Steps == IF scene = "away" THEN Away ELSE Home

(* A command outdated from the start is refused like any other in Check.   *)
Offers ==
  [device : {"light"}, action : {"setPower", "setBrightness", "setAutomationConfig"},
   value : {0, 1, Bad}, stale : {FALSE}]
  \cup [device : {"airConditioner"}, action : {"setPower", "setMode", "setDehumidify"},
        value : {0, 1, Bad}, stale : {FALSE}]
  \cup [device : {"airConditioner"}, action : {"setTemperature"}, value : Asked, stale : {FALSE}]
  \cup [device : Panels, action : {"setPower", "set"}, value : {0, 1, Bad}, stale : {FALSE}]
  \cup [device : {"curtain"}, action : {"setPosition"}, value : Positions \cup {Bad},
        stale : {FALSE}]
  \cup [device : {"curtain"}, action : {"stop"}, value : {0}, stale : {FALSE}]

-----------------------------------------------------------------------------
FreshLight   == [power |-> FALSE, brightness |-> 2, last |-> 2, enabled |-> FALSE,
                 override |-> None, since |-> None,
                 automatic |-> FALSE]   \* history: automation switched it on since
FreshSensor  == [temperature |-> 240, dark |-> TRUE, presence |-> TRUE, valid |-> TRUE, held |-> 0]
FreshAir     == [power |-> FALSE, mode |-> Steady, target |-> 24]
FreshHumidifier == [power |-> FALSE, setting |-> 0]
FreshHeater  == [power |-> FALSE, setting |-> 0]
FreshCurtain == [position |-> 0, target |-> 0, moving |-> FALSE]

Nothing == Request("light", "setPower", 0)

Init ==
  /\ now = 1 /\ devices \in Homes /\ online = [d \in Kinds |-> TRUE]
  /\ dev = [light |-> FreshLight, environment |-> FreshSensor, airConditioner |-> FreshAir,
            humidifier |-> FreshHumidifier, bathHeater |-> FreshHeater, curtain |-> FreshCurtain]
  /\ event = [d \in Kinds |-> Public(d)] /\ carrier = [d \in Kinds |-> "told"]
  /\ pc = [t \in Threads |-> "idle"]
  /\ cmd = Nothing /\ plan = {} /\ scene = "none"
  /\ outcome = [d \in Kinds |-> "none"] /\ reply = "none"
  /\ todo = {} /\ seen = [t \in Threads |-> None] /\ spot = "environment"
  /\ alive = TRUE /\ empty = None
  /\ left = [calls |-> MaxCalls, commands |-> MaxCommands, faults |-> MaxFaults,
             readings |-> MaxReadings]

-----------------------------------------------------------------------------
(* process_command hands a command to its worker.                          *)
Submit ==
  /\ At("command", "idle") /\ Spend("commands")
  /\ cmd' \in Offers /\ scene' = "none" /\ Goto("command", "check")
  /\ outcome' = [d \in Kinds |-> "none"] /\ reply' = "none"
  /\ UNCHANGED <<now, homeVars, dev, event, plan, tickVars, seen, spot, empty>>

(* The home scene names devices that are built in, in order.               *)
SubmitScene ==
  /\ At("command", "idle") /\ Spend("commands")
  /\ \/ /\ scene' = "away" /\ plan' = {i \in DOMAIN Away : Away[i].device \in devices}
     \/ /\ scene' = "home" /\ plan' = {i \in DOMAIN Home : Home[i].device \in devices \ Removable}
  /\ outcome' = [d \in Kinds |-> "none"] /\ reply' = "none"
  /\ Goto("command", "fetch")
  /\ UNCHANGED <<now, homeVars, dev, event, cmd, tickVars, seen, spot, empty>>

(* _execute_scene_actions reads the version it then expects.               *)
Fetch ==
  /\ At("command", "fetch") /\ Goto("command", "check")
  /\ \E i \in plan : (\A j \in plan : i <= j) /\ cmd' = Steps[i] /\ plan' = plan \ {i}
  /\ UNCHANGED <<boundVars, homeVars, dev, event, scene, outcome, reply, tickVars, seen, spot, empty>>

(* Seeded fault: results are kept per step and not per device.             *)
FailUnnoticed ==
  /\ plan' = {i \in plan : Steps[i].device # cmd.device}
  /\ Goto("command", "fetch") /\ UNCHANGED <<cmd, scene, outcome, reply>>

(* A GatewayError: what is left for this device is not tried.              *)
Fail ==
  /\ outcome' = [outcome EXCEPT ![cmd.device] = "failed"]
  /\ plan' = {i \in plan : Steps[i].device # cmd.device}
  /\ Goto("command", "fetch") /\ UNCHANGED <<cmd, scene, reply>>

(* get and _ensure_commandable.  An injected delay or failure, followed in *)
(* DoorLock, may refuse any command here.                                  *)
Check ==
  /\ At("command", "check")
  /\ \/ /\ cmd.device \in devices /\ online[cmd.device] /\ ~cmd.stale
        /\ Goto("command", "drive") /\ UNCHANGED commandVars
     \/ Fail
  /\ UNCHANGED <<boundVars, homeVars, dev, event, tickVars, seen, spot, empty>>

Driving(d, a) ==
  /\ At("command", "drive") /\ cmd.device = d /\ cmd.action = a
  /\ UNCHANGED <<boundVars, homeVars, event, tickVars, spot, empty>>
Accepted(d, a) == Driving(d, a) /\ cmd.value # Bad /\ UNCHANGED commandVars

Refuse ==
  /\ At("command", "drive") /\ cmd.value = Bad /\ cmd.action # "setMode" /\ Fail
  /\ UNCHANGED <<boundVars, homeVars, dev, event, tickVars, seen, spot, empty>>

(* Seeded fault: a light dimmed to zero is switched on as it is.           *)
LightPowerDim ==
  /\ Accepted("light", "setPower") /\ Goto("command", "manual")
  /\ Put("light", [dev.light EXCEPT !.power = cmd.value = 1, !.automatic = FALSE])
  /\ seen' = [seen EXCEPT !["command"] = now]

(* LightDriver.execute reads the clock, writes the power, then the         *)
(* brightness if there is none, then the override.                         *)
LightPower ==
  /\ Accepted("light", "setPower")
  /\ Put("light", [dev.light EXCEPT !.power = cmd.value = 1, !.automatic = FALSE])
  /\ seen' = [seen EXCEPT !["command"] = now]
  /\ Goto("command", IF cmd.value = 1 /\ dev.light.brightness = 0 THEN "bright" ELSE "manual")

LightBright ==
  /\ At("command", "bright") /\ Goto("command", "manual")
  /\ Put("light", [dev.light EXCEPT !.brightness = dev.light.last])
  /\ UNCHANGED <<boundVars, homeVars, event, commandVars, tickVars, seen, spot, empty>>

LightBrightness ==
  /\ Accepted("light", "setBrightness")
  /\ Put("light", [dev.light EXCEPT !.brightness = cmd.value, !.power = cmd.value > 0,
                                    !.automatic = FALSE,
                                    !.last = IF cmd.value > 0 THEN cmd.value ELSE @])
  /\ seen' = [seen EXCEPT !["command"] = now] /\ Goto("command", "manual")

LightManual ==
  /\ At("command", "manual") /\ Goto("command", "touch")
  /\ Put("light", [dev.light EXCEPT !.override = seen["command"] + Override])
  /\ UNCHANGED <<boundVars, homeVars, event, commandVars, tickVars, seen, spot, empty>>

LightConfig ==
  /\ Accepted("light", "setAutomationConfig") /\ Goto("command", "touch")
  /\ Put("light", [dev.light EXCEPT !.enabled = cmd.value = 1, !.override = None, !.since = None])
  /\ UNCHANGED seen

(* AirConditionerDriver.execute assigns first; the adapter it encodes with *)
(* refuses a mode it does not know and a temperature out of 16..30.        *)
AirPower ==
  /\ Accepted("airConditioner", "setPower") /\ Goto("command", "touch")
  /\ Put("airConditioner", [dev.airConditioner EXCEPT !.power = cmd.value = 1])
  /\ UNCHANGED seen

AirDry ==
  /\ Accepted("airConditioner", "setDehumidify") /\ Goto("command", "touch")
  /\ Put("airConditioner", [dev.airConditioner EXCEPT !.mode = Unsteady, !.power = cmd.value = 1])
  /\ UNCHANGED seen

AirAssign ==
  /\ \/ /\ Driving("airConditioner", "setMode")
        /\ Put("airConditioner", [dev.airConditioner EXCEPT !.mode = cmd.value])
     \/ /\ Driving("airConditioner", "setTemperature")
        /\ Put("airConditioner", [dev.airConditioner EXCEPT !.target = cmd.value])
  /\ Goto("command", "encode") /\ UNCHANGED <<commandVars, seen>>

Encodable == IF cmd.action = "setMode" THEN cmd.value # Bad ELSE cmd.value \in 16 .. 30

AirEncode ==
  /\ At("command", "encode")
  /\ \/ Encodable /\ Goto("command", "touch") /\ UNCHANGED <<commandVars, carrier>>
     \/ ~Encodable /\ Fail /\ carrier' = [carrier EXCEPT !["airConditioner"] = "lost"]
  /\ UNCHANGED <<boundVars, homeVars, dev, event, todo, alive, seen, spot, empty>>

(* HumidifierDriver and BathHeaterDriver: setPower, and the target or mode. *)
HumidifierSet ==
  /\ \/ /\ Accepted("humidifier", "setPower")
        /\ Put("humidifier", [dev.humidifier EXCEPT !.power = cmd.value = 1])
     \/ /\ Accepted("humidifier", "set")
        /\ Put("humidifier", [dev.humidifier EXCEPT !.setting = cmd.value])
  /\ Goto("command", "touch") /\ UNCHANGED seen

HeaterSet ==
  /\ \/ /\ Accepted("bathHeater", "setPower")
        /\ Put("bathHeater", [dev.bathHeater EXCEPT !.power = cmd.value = 1])
     \/ /\ Accepted("bathHeater", "set")
        /\ Put("bathHeater", [dev.bathHeater EXCEPT !.setting = cmd.value])
  /\ Goto("command", "touch") /\ UNCHANGED seen

(* CurtainDriver.execute reads the position before it looks at the action. *)
CurtainRead ==
  /\ Accepted("curtain", "setPosition") \/ Accepted("curtain", "stop")
  /\ seen' = [seen EXCEPT !["command"] = dev.curtain.position]
  /\ Goto("command", "steer") /\ UNCHANGED dev

CurtainSteer ==
  /\ At("command", "steer") /\ Goto("command", "touch")
  /\ LET to == IF cmd.action = "stop" THEN seen["command"] ELSE cmd.value IN
       Put("curtain", [dev.curtain EXCEPT !.target = to, !.moving = to # seen["command"]])
  /\ UNCHANGED <<boundVars, homeVars, event, commandVars, tickVars, seen, spot, empty>>

Drive == \/ Refuse \/ LightPower \/ LightBright \/ LightBrightness \/ LightManual \/ LightConfig
         \/ AirPower \/ AirDry \/ AirAssign \/ AirEncode
         \/ HumidifierSet \/ HeaterSet \/ CurtainRead \/ CurtainSteer

(* What becomes of the events a thread has.                                *)
Passed(t, to) == [d \in Kinds |-> IF carrier[d] = t THEN to ELSE carrier[d]]

(* The worker has returned; process_command looks every device that        *)
(* succeeded up again for its event, and fails if one has been deleted.    *)
Answered ==
  /\ At("command", "fetch") /\ plan = {} /\ Goto("command", "idle")
  /\ cmd' = Nothing /\ seen' = [seen EXCEPT !["command"] = None]
  /\ UNCHANGED <<boundVars, homeVars, dev, plan, scene, todo, alive, spot, empty>>

Answer ==
  /\ Answered /\ scene = "none" /\ outcome' = [d \in Kinds |-> "none"]
  /\ carrier' = Passed("command", "leaving") /\ UNCHANGED <<reply, event>>

AnswerScene ==
  /\ Answered /\ scene # "none" /\ UNCHANGED outcome
  /\ \A d \in Kinds : outcome[d] = "ok" => d \in devices
  /\ reply' = "told"
  /\ LET fresh == {d \in Kinds : carrier[d] = "command" /\ outcome[d] = "ok"} IN
       /\ event' = [d \in Kinds |-> IF d \in fresh THEN Public(d) ELSE event[d]]
       /\ carrier' = [d \in Kinds |-> IF d \in fresh THEN "leaving" ELSE Passed("command", "lost")[d]]

(* Or the audit row cannot be written, or the WebSocket to be answered is  *)
(* gone: the events of what was executed are dropped.                      *)
AnswerFails ==
  /\ Answered /\ reply' = "error" /\ UNCHANGED <<outcome, event>>
  /\ StorageFails \/ \E d \in Kinds \ devices : scene # "none" /\ outcome[d] = "ok"
  /\ carrier' = Passed("command", "lost")

(* broadcast; a client keeps what has the highest version.                 *)
Send(d) ==
  /\ carrier[d] = "leaving" /\ carrier' = [carrier EXCEPT ![d] = "told"]
  /\ UNCHANGED <<boundVars, homeVars, dev, event, pc, commandVars, todo, alive, seen, spot, empty>>

-----------------------------------------------------------------------------
(* DeviceRegistry.tick visits the devices by priority.  An air conditioner, *)
(* a humidifier and a bath heater have nothing to do.                      *)
Ticking(step) == At("tick", step) /\ UNCHANGED <<boundVars, homeVars, event, commandVars, spot, empty>>
Visit(ds) == todo' = ds /\ Goto("tick", First(ds))
Leave     == Visit(todo \ {First(todo)}) /\ seen' = [seen EXCEPT !["tick"] = None] /\ UNCHANGED alive
Skip      == Leave /\ UNCHANGED carrier

(* An exception ends the telemetry loop: what the tick changed is not told. *)
Dies ==
  /\ alive' = FALSE /\ todo' = {} /\ Goto("tick", "idle") /\ UNCHANGED seen
  /\ carrier' = [d \in Kinds |-> IF d = About("tick") /\ Changing("tick") THEN "lost"
                                 ELSE Passed("tick", "lost")[d]]

TickStart ==
  /\ Ticking("idle") /\ alive
  /\ Visit(devices \cap {"environment", "light", "curtain"})
  /\ UNCHANGED <<alive, carrier, dev, seen>>

(* The loop broadcasts what the tick changed, then prunes the history.     *)
TickTell ==
  /\ Ticking("tell") /\ Goto("tick", "idle")
  /\ carrier' = Passed("tick", "told")
  /\ alive' \in {TRUE, ~StorageFails} /\ UNCHANGED <<todo, dev, seen>>

(* What a reading becomes when it moves by so many hundredths of its unit, *)
(* a tenth of a degree: the noise is +- 20, the rounding 50 more.          *)
Rounded(old, by) ==
  {old + k : k \in {k \in by \div 100 .. by \div 100 + 1 : 100 * k - by <= 70 /\ by - 100 * k <= 70}}

(* Seeded fault: half the rate, so that rounding stops the reading early.  *)
DriftSlow(old, target) == Rounded(old, 4 * (target - old))

(* A reading moves by 8 % of the gap to its target. *)
Drift(old, target) == Rounded(old, 8 * (target - old))

Cooled == "airConditioner" \in devices /\ online["airConditioner"]
          /\ dev.airConditioner.power /\ dev.airConditioner.mode = Steady
Goals  == IF Cooled THEN {10 * dev.airConditioner.target} ELSE Ambient

(* EnvironmentDriver.tick computes while the event loop may inject.        *)
SenseDrift ==
  /\ Ticking("environment")
  /\ IF online["environment"] /\ now >= dev.environment.held
     THEN /\ \E g \in Goals : \E new \in Drift(dev.environment.temperature, g) :
               seen' = [seen EXCEPT !["tick"] = new]
          /\ Goto("tick", "write")
     ELSE Goto("tick", "review") /\ UNCHANGED seen
  /\ UNCHANGED <<dev, tickVars>>

SenseWrite ==
  /\ Ticking("write") /\ Goto("tick", "record")
  /\ \E dark \in BOOLEAN :
       Put("environment", [dev.environment EXCEPT !.temperature = seen["tick"], !.dark = dark])
  /\ UNCHANGED <<tickVars, seen>>

(* record_environment, then dataValid; of a reading that has just been     *)
(* written, or of the one there was.                                       *)
Plausible(t) == t >= -100 /\ t <= 450

SenseRecord ==
  /\ Ticking("record") \/ Ticking("review")
  /\ LET valid == Plausible(dev.environment.temperature)
         changed == At("tick", "record") \/ valid # dev.environment.valid IN
       \/ /\ Put("environment", [dev.environment EXCEPT !.valid = valid])
          /\ IF changed THEN Goto("tick", "touch") /\ UNCHANGED <<tickVars, seen>> ELSE Skip
       \/ StorageFails /\ online["environment"] /\ Dies /\ UNCHANGED dev

(* LightDriver.tick; seen is the clock it read.                            *)
LightLook ==
  /\ Ticking("light")
  /\ IF online["light"] /\ dev.light.enabled
     THEN Goto("tick", "find") /\ UNCHANGED <<tickVars, seen>> ELSE Skip
  /\ UNCHANGED dev

LightFound ==
  /\ Ticking("find")
  /\ IF "environment" \in devices /\ online["environment"]
     THEN Goto("tick", "clock") /\ seen' = [seen EXCEPT !["tick"] = now] /\ UNCHANGED tickVars
     ELSE Skip
  /\ UNCHANGED dev

LightOverridden ==
  /\ Ticking("clock") /\ dev.light.override # None
  /\ IF now < dev.light.override THEN Skip
     ELSE Goto("tick", "decide") /\ UNCHANGED <<tickVars, seen>>
  /\ UNCHANGED dev

Room == dev.environment

Deciding ==
  /\ At("tick", "decide") \/ (At("tick", "clock") /\ dev.light.override = None)
  /\ empty' = IF Room.presence THEN None ELSE IF empty = None THEN seen["tick"] ELSE empty
  /\ UNCHANGED <<boundVars, homeVars, event, commandVars, spot>>

LightOn ==
  /\ Deciding /\ Room.presence /\ Room.dark /\ ~dev.light.power
  /\ Put("light", [dev.light EXCEPT !.since = None, !.power = TRUE, !.automatic = TRUE])
  /\ seen' = [seen EXCEPT !["tick"] = dev.light.last]
  /\ Goto("tick", "shine") /\ UNCHANGED tickVars

LightShine ==
  /\ Ticking("shine") /\ Goto("tick", "touch")
  /\ Put("light", [dev.light EXCEPT !.brightness = seen["tick"]]) /\ UNCHANGED <<tickVars, seen>>

LightOff ==
  /\ Deciding /\ ~Room.presence /\ dev.light.power
  /\ dev.light.since # None /\ seen["tick"] - dev.light.since >= Delay
  /\ Put("light", [dev.light EXCEPT !.power = FALSE])
  /\ Goto("tick", "touch") /\ UNCHANGED <<tickVars, seen>>

(* Seeded fault: when the absence began is not kept.                       *)
LightStayForgetful ==
  /\ Deciding /\ Skip /\ ~(Room.presence /\ Room.dark /\ ~dev.light.power)
  /\ Put("light", [dev.light EXCEPT !.since = None])

LightStay ==
  /\ Deciding /\ Skip
  /\ IF Room.presence
     THEN IF Room.dark THEN dev.light.power /\ Put("light", [dev.light EXCEPT !.since = None])
                       ELSE UNCHANGED dev
     ELSE \/ dev.light.since = None /\ Put("light", [dev.light EXCEPT !.since = seen["tick"]])
          \/ /\ dev.light.since # None /\ UNCHANGED dev
             /\ ~dev.light.power \/ seen["tick"] - dev.light.since < Delay

(* CurtainDriver.tick reads the target, then moves by at most 10.          *)
CurtainLook ==
  /\ Ticking("curtain")
  /\ IF online["curtain"]
     THEN /\ Goto("tick", "move") /\ seen' = [seen EXCEPT !["tick"] = dev.curtain.target]
          /\ UNCHANGED tickVars
     ELSE Skip
  /\ UNCHANGED dev

Least(a, b) == IF a < b THEN a ELSE b

(* Seeded faults: a step that is not cut at the target, and an arrival     *)
(* that is not reported.                                                   *)
CurtainMoveFar ==
  LET from == dev.curtain.position  to == seen["tick"]
      next == IF to > from THEN from + 10 ELSE IF to < from THEN from - 10 ELSE from IN
  /\ Ticking("move")
  /\ Put("curtain", [dev.curtain EXCEPT !.position = next, !.moving = next # to])
  /\ IF from = to /\ ~dev.curtain.moving THEN Skip
     ELSE Goto("tick", "touch") /\ UNCHANGED <<tickVars, seen>>

CurtainMoveSilent ==
  LET from == dev.curtain.position  to == seen["tick"]
      next == IF to > from THEN from + Least(10, to - from) ELSE from - Least(10, from - to) IN
  /\ Ticking("move")
  /\ Put("curtain", [dev.curtain EXCEPT !.position = next, !.moving = next # to])
  /\ IF next = to THEN Skip ELSE Goto("tick", "touch") /\ UNCHANGED <<tickVars, seen>>

CurtainMove ==
  LET from == dev.curtain.position  to == seen["tick"]
      next == IF to > from THEN from + Least(10, to - from) ELSE from - Least(10, from - to) IN
  /\ Ticking("move")
  /\ Put("curtain", [dev.curtain EXCEPT !.position = next, !.moving = next # to])
  /\ IF from = to /\ ~dev.curtain.moving THEN Skip
     ELSE Goto("tick", "touch") /\ UNCHANGED <<tickVars, seen>>

Tick == \/ TickStart \/ TickTell \/ SenseDrift \/ SenseWrite \/ SenseRecord \/ LightLook \/ LightFound
        \/ LightOverridden \/ LightOn \/ LightShine \/ LightOff \/ LightStay \/ CurtainLook \/ CurtainMove

-----------------------------------------------------------------------------
Injecting == At("loop", "idle") /\ UNCHANGED <<now, devices, event, commandVars, tickVars, seen, empty>>

(* inject_fault; delays and failures it injects show in DoorLock.          *)
Fault ==
  /\ Injecting /\ Spend("faults")
  /\ \E d \in devices : online' \in {online, [online EXCEPT ![d] = ~@]} /\ spot' = d
  /\ Goto("loop", "touch") /\ UNCHANGED dev

(* inject_environment: the readings, then how long they are to stay.       *)
Inject ==
  /\ Injecting /\ Spend("readings") /\ "environment" \in devices /\ spot' = "environment"
  /\ \E reading \in Injected, dark, presence \in BOOLEAN :
       /\ dev' \in {[dev EXCEPT !.environment.temperature = reading],
                    [dev EXCEPT !.environment.dark = dark],
                    [dev EXCEPT !.environment.presence = presence]}
  /\ Goto("loop", "hold") /\ UNCHANGED online

HoldReading ==
  /\ At("loop", "hold") /\ Goto("loop", "touch")
  /\ Put("environment", [dev.environment EXCEPT !.held = now + Hold])
  /\ UNCHANGED <<boundVars, homeVars, event, commandVars, tickVars, seen, spot, empty>>

(* remove_provisioned.  A find_first that walks over the dictionary then   *)
(* may raise, and nobody catches that.                                     *)
Walking == At("tick", "find")
           \/ (At("tick", "environment") /\ online["environment"] /\ now >= dev.environment.held)

Remove ==
  /\ Spend("faults")
  /\ \E d \in devices \cap Removable : devices' = devices \ {d}
  /\ UNCHANGED <<pc, tickVars, seen>> \/ (Walking /\ Dies)
  /\ UNCHANGED <<now, online, dev, event, commandVars, spot, empty>>

(* _touch and the device's new event.  A command that has read the version *)
(* and not yet compared it is outdated, if it expects one at all.          *)
Late == [cmd EXCEPT !.stale = @ \/ At("command", "check")]

Touch(t) ==
  /\ At(t, "touch")
  /\ event' = [d \in Kinds |-> IF d = About(t) THEN Public(d) ELSE event[d]]
  /\ carrier' = [d \in Kinds |-> IF d # About(t) THEN carrier[d]
                                 ELSE IF t = "loop" THEN "leaving" ELSE t]
  /\ UNCHANGED <<boundVars, homeVars, dev, plan, scene, reply, empty>>

TouchCommand ==
  /\ Touch("command") /\ Goto("command", "fetch")
  /\ outcome' = [outcome EXCEPT ![cmd.device] = "ok"]
  /\ UNCHANGED <<cmd, todo, alive, seen, spot>>

TouchOther(t) ==
  /\ Touch(t)
  /\ IF About(t) = cmd.device THEN cmd' = Late \/ (scene = "none" /\ UNCHANGED cmd)
                              ELSE UNCHANGED cmd
  /\ IF t = "tick" THEN Leave ELSE Goto(t, "idle") /\ UNCHANGED <<todo, alive, seen>>
  /\ UNCHANGED <<outcome, spot>>

(* Time ends at MaxTime, but not before what is timed is due. *)
Pass ==
  /\ now < MaxTime \/ now < dev.light.override \/ now < dev.environment.held
     \/ (dev.light.since # None /\ now < dev.light.since + Delay)
  /\ now' = now + 1
  /\ UNCHANGED <<left, homeVars, dev, event, pc, commandVars, tickVars, seen, spot, empty>>

CommandStep == Fetch \/ Check \/ Drive \/ TouchCommand \/ Answer \/ AnswerScene \/ AnswerFails
TickStep    == Tick \/ TouchOther("tick")
LoopStep    == HoldReading \/ TouchOther("loop")

Next == \/ Submit \/ SubmitScene \/ CommandStep \/ TickStep
        \/ Fault \/ Inject \/ Remove \/ LoopStep \/ (\E d \in Kinds : Send(d)) \/ Pass

Spec == Init /\ [][Next]_vars

(* The telemetry thread is scheduled and time passes.  Nobody has to call, *)
(* and a command may be stuck half-way.                                    *)
FairSpec == Spec /\ WF_vars(TickStep) /\ WF_vars(Pass)

-----------------------------------------------------------------------------
Lights   == [power : BOOLEAN, brightness : Nat, last : Nat \ {0}, enabled : BOOLEAN,
             override : Int, since : Int, automatic : BOOLEAN]
Sensors  == [temperature : Int, dark : BOOLEAN, presence : BOOLEAN, valid : BOOLEAN, held : Int]
Airs     == [power : BOOLEAN, mode : Int, target : Int]
Plain    == [power : BOOLEAN, setting : Int]
Curtains == [position : Int, target : Int, moving : BOOLEAN]
Actions  == {"setPower", "setBrightness", "setAutomationConfig", "setMode", "setDehumidify",
             "setTemperature", "set", "setPosition", "stop"}
Places   == {"idle", "check", "drive", "fetch", "bright", "manual", "encode", "steer", "touch",
             "environment", "write", "record", "review", "light", "find", "clock", "decide",
             "shine", "curtain", "move", "tell", "hold"}
Carriers == Threads \cup {"leaving", "told", "lost"}
Requests == [device : Kinds, action : Actions, value : Int, stale : BOOLEAN]

TypeOK ==
  /\ now \in Nat /\ devices \subseteq Kinds /\ online \in [Kinds -> BOOLEAN] /\ alive \in BOOLEAN
  /\ dev \in [light : Lights, environment : Sensors, airConditioner : Airs,
             humidifier : Plain, bathHeater : Plain, curtain : Curtains]
  /\ pc \in [Threads -> Places] /\ seen \in [Threads -> Int] /\ spot \in Kinds
  /\ (At("tick", "shine") => seen["tick"] > 0)
  /\ cmd \in Requests /\ (cmd.action = "setBrightness" => cmd.value \in Nat \cup {Bad})
  /\ scene \in {"none", "away", "home"} /\ plan \subseteq DOMAIN Steps
  /\ (At("command", "idle") \/ scene = "none" => plan = {})
  /\ outcome \in [Kinds -> {"none", "ok", "failed"}] /\ reply \in {"none", "told", "error"}
  /\ todo \subseteq {"environment", "light", "curtain"} /\ empty \in Int
  /\ carrier \in [Kinds -> Carriers]

(* Where a thread is tells which device it is about. *)
PlacesFit ==
  /\ pc["command"] \in {"bright", "manual"} => cmd.device = "light"
  /\ At("command", "encode") => cmd.device = "airConditioner"
  /\ At("command", "steer")  => cmd.device = "curtain"
  /\ pc["tick"] \in {"environment", "write", "record", "review"} => About("tick") = "environment"
  /\ pc["tick"] \in {"light", "find", "clock", "decide", "shine"} => About("tick") = "light"
  /\ pc["tick"] \in {"curtain", "move"} => About("tick") = "curtain"
  /\ At("tick", "touch") => About("tick") # "tell"
  /\ At("loop", "hold") => spot = "environment"

(* A light that is on shines, whenever neither its command nor its tick is *)
(* between two writes: manual dimming to zero, switching on again and      *)
(* automation restore the last brightness between them.                    *)
LitLightShines ==
  At("command", "bright") \/ At("tick", "shine") \/ (dev.light.power => dev.light.brightness > 0)

(* What clients were last told of a device is what the device is, once     *)
(* nobody is changing it and its newest event has reached them: every      *)
(* write of three threads is followed by a touch, and every touch by an    *)
(* event.  An event is told, on its way or known to be lost; no thread     *)
(* comes to rest with one (process_command, DeviceRegistry.tick and the    *)
(* telemetry loop).                                                        *)
ChangesAreTold ==
  \A d \in devices :
    /\ carrier[d] \in Threads => ~At(carrier[d], "idle")
    /\ carrier[d] = "told" /\ (\A t \in Threads : About(t) = d => ~Changing(t)) =>
         Public(d) = event[d]

(* Without the loss it is false of the code: a refused temperature, a      *)
(* failed audit or history row, a deletion under a scene or an answer to a *)
(* WebSocket that is gone leave clients with an old state.                 *)
ChangesAreAlwaysTold ==
  \A d \in devices :
    (\A t \in Threads : At(t, "idle")) /\ carrier[d] # "leaving" =>
      carrier[d] = "told" /\ Public(d) = event[d]

(* Why: it holds of what has been deleted, and of an event on its way, too; *)
(* an event is with a worker only while that is at work.                   *)
AllAreTold ==
  \A d \in Kinds :
    carrier[d] # "lost" /\ (\A t \in Threads : About(t) = d => ~Changing(t)) =>
      Public(d) = event[d]

CarriersRun ==
  \A d \in Kinds : /\ carrier[d] # "loop"
                   /\ carrier[d] = "command" => ~At("command", "idle")
                   /\ carrier[d] = "tick" => ~At("tick", "idle")

(* The answer to a scene is true of every device it calls a success, with  *)
(* telemetry, faults and deletions between its steps: the whole of what    *)
(* the scene does to the device was done.  Automation may have switched    *)
(* the light on since, also one that had been disabled under its tick.     *)
SceneIsTrue ==
  At("command", "idle") /\ reply = "told" =>
    /\ scene = "away" =>
         /\ outcome["light"] = "ok" => ~dev.light.power \/ dev.light.automatic
         /\ outcome["airConditioner"] = "ok" => ~dev.airConditioner.power
         /\ \A d \in Panels : outcome[d] = "ok" => ~dev[d].power
         /\ outcome["curtain"] = "ok" => dev.curtain.target = 0
    /\ scene = "home" /\ outcome["airConditioner"] = "ok" =>
         dev.airConditioner = [power |-> TRUE, mode |-> Steady, target |-> 24]

(* Why: what a request asks for holds from its last write on; a step of a  *)
(* scene is left, in hand or done, or its device has failed, and the steps *)
(* of one device are taken in their order.                                 *)
Holds(r) ==
  /\ r.action = "setPower" /\ r.device = "light" /\ r.value = 0 =>
       ~dev.light.power \/ dev.light.automatic
  /\ r.action = "setPower" /\ r.device = "airConditioner" => (dev.airConditioner.power <=> r.value = 1)
  /\ r.action = "setPower" /\ r.device = "humidifier" => (dev.humidifier.power <=> r.value = 1)
  /\ r.action = "setPower" /\ r.device = "bathHeater" => (dev.bathHeater.power <=> r.value = 1)
  /\ r.action = "setMode"        => dev.airConditioner.mode = r.value
  /\ r.action = "setTemperature" => dev.airConditioner.target = r.value
  /\ r.action = "setPosition"    => dev.curtain.target = r.value

Executing == pc["command"] \notin {"idle", "fetch"}
Mates(i)  == {j \in DOMAIN Steps : Steps[j].device = Steps[i].device}
InHand(i) ==
  /\ cmd.device = Steps[i].device /\ cmd.action = Steps[i].action /\ cmd.value = Steps[i].value
  /\ outcome[cmd.device] # "failed"
  /\ \A j \in Mates(i) : (j \in plan <=> j > i) /\ (j < i => Holds(Steps[j]))
Waits(i) ==
  LET result == outcome[Steps[i].device] IN
  /\ i \in plan => result # "failed" /\ \A j \in Mates(i) : j > i => j \in plan
  /\ i \notin plan /\ result = "ok" => Holds(Steps[i])
  /\ i \notin plan /\ result = "none" => Mates(i) \cap plan = {}

SceneInv ==
  scene # "none" =>
    /\ pc["command"] \in {"bright", "manual", "encode", "touch"} => Holds(cmd)
    /\ Executing => \E i \in DOMAIN Steps : InHand(i)
    /\ \A i \in DOMAIN Steps : Waits(i) \/ (Executing /\ cmd.device = Steps[i].device)

(* A curtain arrives where it was last sent and rests there, whatever      *)
(* stale position a stop was computed from, unless it goes offline or the  *)
(* telemetry loop has died.                                                *)
Driven == online["curtain"] /\ "curtain" \in devices /\ alive
CurtainArrives ==
  dev.curtain.position # dev.curtain.target ~>
    (dev.curtain.position = dev.curtain.target /\ ~dev.curtain.moving) \/ ~Driven

(* A room nobody is in gets dark, unless automation is off or somebody has *)
(* taken the light in hand or the sensor is gone.                          *)
Automatic == dev.light.enabled /\ online["light"] /\ online["environment"]
             /\ {"light", "environment"} \subseteq devices /\ alive
EmptyRoomGoesDark == Automatic /\ ~Room.presence ~> ~dev.light.power \/ Room.presence \/ ~Automatic

(* An air conditioner that runs brings its room to within one degree of    *)
(* its target, with any noise of the sensor.                               *)
Near(a, b) == a - b <= 10 /\ b - a <= 10
Working == Cooled /\ online["environment"] /\ "environment" \in devices /\ alive
RoomReachesTarget ==
  Working ~> Near(Room.temperature, 10 * dev.airConditioner.target) \/ ~Working

(* The documents promise that a light goes out after nobody was there for  *)
(* the whole delay, and stays as it is otherwise; what is between two      *)
(* ticks nobody sees.                                                      *)
OutAfterAbsence == [][LightOff => empty # None /\ now - empty >= Delay]_vars
=============================================================================
