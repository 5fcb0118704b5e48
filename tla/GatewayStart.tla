----------------------------- MODULE GatewayStart -----------------------------
(***************************************************************************)
(* The gateway as a service of the system: the parent that waits for the   *)
(* child it forked (signal_handler.h), the child that loads config.json    *)
(* (pollux_gateway.C, Pollux_configurator) in three openings of the file,  *)
(* and the request of the configuration tool that restarts both.  The unit *)
(* is restarted on an abort, which the parent's exit(1) is not.            *)
(***************************************************************************)
EXTENDS WebConfig

VARIABLES unit,     \* active or failed
          parent,   \* waiting for its child, or gone
          child,    \* what it loads next, "polling", "dead", or "none"
          runs,     \* what it has loaded
          found,    \* what the file held when it was started
          crossed   \* the file was opened or written since

gatewayVars == << unit, parent, child, runs, found, crossed >>
serviceVars == << webVars, gatewayVars >>

Loading == {"configuration", "datastores", "geolocalisation"}

GatewayTypeOK ==
  /\ unit \in {"active", "failed"} /\ parent \in {"waiting", "gone"}
  /\ child \in Loading \cup {"polling", "dead", "none"}
  /\ runs \in Value /\ found \in Value /\ crossed \in BOOLEAN

(* The gateway has just been forked, or it has been polling for a while.    *)
GatewayInit ==
  /\ unit = "active" /\ parent = "waiting"
  /\ child \in {"configuration", "polling"}
  /\ runs = FirstValue /\ found = FirstValue /\ crossed = FALSE

Writing == \E t \in Thread : pc[t] \in {"dump", "flush", "redump", "reflush"}

(* restart_service: systemctl stops what runs and starts the unit again; it *)
(* reports a success whatever becomes of the child.                         *)
RestartService(t) ==
  /\ Begins(t, "wrapped")
  /\ unit' = "active" /\ parent' = "waiting" /\ child' = "configuration"
  /\ runs' = FirstValue /\ found' = file.value /\ crossed' = Writing
  /\ UNCHANGED << file, mapVars, serving, form, todo, held, buffer, crashes, wanted,
                  versions, clash, failureVars >>

LoadSection_NoCheck ==  \* mutant: the error of an empty document is not noticed
  /\ child \in Loading
  /\ LET value == IF file.text = "empty" THEN [file.value EXCEPT !.active = {}]
                  ELSE file.value
     IN  \/ /\ child = "configuration" /\ child' = "datastores"
            /\ UNCHANGED runs
         \/ /\ child = "datastores" /\ child' = "geolocalisation"
            /\ runs' = [runs EXCEPT !.active = value.active]
         \/ /\ child = "geolocalisation" /\ child' = "polling"
            /\ runs' = [value EXCEPT !.active = runs.active]
  /\ UNCHANGED << unit, parent, found, crossed, webVars >>

(* json_object_from_file takes a document with garbage behind it, and makes *)
(* an error of an empty one: the exception ends the child with exit(1).     *)
LoadSection ==
  /\ child \in Loading
  /\ IF file.text = "empty"
     THEN child' = "dead" /\ UNCHANGED runs
     ELSE \/ /\ child = "configuration" /\ child' = "datastores"
             /\ UNCHANGED runs
          \/ /\ child = "datastores" /\ child' = "geolocalisation"
             /\ runs' = [runs EXCEPT !.active = file.value.active]
          \/ /\ child = "geolocalisation" /\ child' = "polling"
             /\ runs' = [file.value EXCEPT !.active = runs.active]
  /\ UNCHANGED << unit, parent, found, crossed, webVars >>

(* The poller ends by an exception or a signal: none of its ends is an exit *)
(* with 0.                                                                  *)
ChildFails ==
  /\ child = "polling" /\ child' = "dead"
  /\ UNCHANGED << unit, parent, runs, found, crossed, webVars >>

ParentReaps_WaitsOn ==  \* mutant: the child's status is not looked at
  /\ parent = "waiting" /\ child = "dead"
  /\ child' = "none"
  /\ UNCHANGED << unit, parent, runs, found, crossed, webVars >>

(* wait returns the child's failure: the parent exits with 1.               *)
ParentReaps ==
  /\ parent = "waiting" /\ child = "dead"
  /\ parent' = "gone" /\ child' = "none" /\ unit' = "failed"
  /\ UNCHANGED << runs, found, crossed, webVars >>

(* A step of the tool, next to the gateway.                                 *)
ToolStep ==
  /\ WebStep
  /\ crossed' = (crossed \/ file' # file)
  /\ UNCHANGED << unit, parent, child, runs, found >>

ServiceStep ==
  \/ ToolStep
  \/ LoadSection \/ ChildFails \/ ParentReaps
  \/ \E t \in Thread : RestartService(t)

ServiceInit == WebInit /\ GatewayInit
ServiceSpec ==
  /\ ServiceInit /\ [][ServiceStep]_serviceVars
  /\ WF_serviceVars(LoadSection) /\ WF_serviceVars(ParentReaps)

-----------------------------------------------------------------------------
(* A gateway that polls runs with what the file held when it was started,   *)
(* if nobody wrote the file in the meantime.  If somebody did, and forms    *)
(* did not meet, it still never runs with a form that was half applied:     *)
(* its datastores and its coordinates were each asked for together          *)
(* (restart_service, load_datastores, load_geoloc).                         *)
RunsAsSaved ==
  child = "polling" =>
    /\ ~crossed => runs = found
    /\ ~clash => /\ \E v \in versions : runs.active = v.active
                 /\ \E v \in versions : << runs.lat, runs.lon >> = << v.lat, v.lon >>

(* A gateway that was started comes to poll or its unit fails, visibly to   *)
(* systemctl; it is never taken for active with no poller behind it.        *)
StartIsDecided == (unit = "active" /\ child # "polling") ~>
                    (child = "polling" \/ unit = "failed")
=============================================================================
