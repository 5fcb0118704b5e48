------------------------------ MODULE WebConfig ------------------------------
(***************************************************************************)
(* config.json, written in place by the threads of the configuration tool  *)
(* (pollux_config.py, served by flup, a thread per request) and read,      *)
(* section by section, by a gateway that starts (Pollux_configurator).     *)
(* The threads share the maps of the file: a form is applied to them key   *)
(* by key, then dumped; a reload replaces them under a thread that still   *)
(* holds the old ones.  Saving them may fail at every step.                *)
(***************************************************************************)
EXTENDS Naturals, FiniteSets

CONSTANTS Thread,
          Store,         \* the datastores of the file
          Place,         \* what the coordinates belong to
          Form,          \* forms the users send
          FirstValue,    \* what the file holds at first
          MaxRequests, MaxMaps, MaxCrashes, MaxFailures   \* bounds

Value == [active : SUBSET Store, lat : Place, lon : Place]
Key == Store \cup {"lat", "lon"}

ASSUME WebConfigAssumption ==
  /\ FirstValue \in Value /\ Form \subseteq {v \in Value : v.lat = v.lon}
  /\ Store \cap {"lat", "lon"} = {}
  /\ {MaxRequests, MaxMaps, MaxCrashes, MaxFailures} \subseteq Nat /\ MaxMaps > 0

VARIABLES file,        \* what a reader finds, "whole", "empty" for no document, or
                       \* "tailed": one with the end of a longer one behind it
          heap,        \* the maps that were loaded
          maps,        \* how many
          current,     \* self._config_map
          modified, parseError,
          serving,     \* the tool runs
          pc, form, todo, held, buffer,        \* per thread
          requests, crashes,
          wanted,      \* what the last finished request left to be saved
          versions,    \* all values of wanted
          clash,       \* changes met, or one was lost or broken off
          catching,    \* threads in upload_module, which catches every exception
          failures,    \* saves that failed
          unsaved      \* one failed that modified does not have repeated

threadVars == << pc, form, todo, held, buffer >>
mapVars == << heap, maps, current, modified, parseError >>
historyVars == << requests, crashes, wanted, versions, clash >>
failureVars == << catching, failures, unsaved >>
webVars == << file, mapVars, serving, threadVars, historyVars, failureVars >>

Step == {"idle", "apply", "save", "dump", "flush", "wrapped", "again", "redump",
         "reflush"}

WebTypeOK ==
  /\ file \in [text : {"whole", "empty", "tailed"}, value : Value]
  /\ heap \in [1 .. MaxMaps -> Value] /\ {maps, current} \subseteq 1 .. MaxMaps
  /\ {modified, parseError, serving, clash, unsaved} \subseteq BOOLEAN
  /\ pc \in [Thread -> Step] /\ form \in [Thread -> Value]
  /\ todo \in [Thread -> SUBSET Key] /\ held \in [Thread -> 1 .. MaxMaps]
  /\ buffer \in [Thread -> Value]
  /\ requests \in 0 .. MaxRequests /\ crashes \in 0 .. MaxCrashes
  /\ wanted \in Value /\ versions \in SUBSET Value
  /\ catching \subseteq Thread /\ failures \in 0 .. MaxFailures

WebInit ==
  /\ file = [text |-> "whole", value |-> FirstValue]
  /\ heap = [m \in 1 .. MaxMaps |-> FirstValue] /\ maps = 1 /\ current = 1
  /\ modified = FALSE /\ parseError = FALSE /\ serving = TRUE
  /\ pc = [t \in Thread |-> "idle"] /\ form = [t \in Thread |-> FirstValue]
  /\ todo = [t \in Thread |-> {}] /\ held = [t \in Thread |-> 1]
  /\ buffer = [t \in Thread |-> FirstValue]
  /\ requests = 0 /\ crashes = 0
  /\ wanted = FirstValue /\ versions = {FirstValue} /\ clash = FALSE
  /\ catching = {} /\ failures = 0 /\ unsaved = FALSE

Goes(t, from, to) == pc[t] = from /\ pc' = [pc EXCEPT ![t] = to]
Begins(t, to) ==
  /\ serving /\ requests < MaxRequests /\ requests' = requests + 1
  /\ Goes(t, "idle", to)
Changes(value) ==
  /\ wanted' = value /\ versions' = versions \cup {value}
  /\ clash' = (clash \/ \E u \in Thread : pc[u] # "idle")

PostDatastores_KeepsActive(t, f) ==  \* mutant: nothing is deactivated first
  /\ Begins(t, "apply") /\ ~parseError
  /\ held' = [held EXCEPT ![t] = current]
  /\ form' = [form EXCEPT ![t] = f]
  /\ todo' = [todo EXCEPT ![t] = f.active \cup {"lat", "lon"}]
  /\ Changes(f)
  /\ UNCHANGED << file, heap, maps, current, modified, parseError, serving, buffer,
                  crashes, failureVars >>

(* post_datastores, which refuses when the last reload failed: the stores   *)
(* of the shared map are all deactivated, the form names the active ones.   *)
PostDatastores(t, f) ==
  /\ Begins(t, "apply") /\ ~parseError
  /\ heap' = [heap EXCEPT ![current].active = {}]
  /\ held' = [held EXCEPT ![t] = current]
  /\ form' = [form EXCEPT ![t] = f]
  /\ todo' = [todo EXCEPT ![t] = f.active \cup {"lat", "lon"}]
  /\ Changes(f)
  /\ UNCHANGED << file, maps, current, modified, parseError, serving, buffer,
                  crashes, failureVars >>

(* One key of the form, in the order of request.forms.                      *)
ApplyKey(t, k) ==
  /\ pc[t] = "apply" /\ k \in todo[t]
  /\ todo' = [todo EXCEPT ![t] = @ \ {k}]
  /\ heap' = IF k \in Store THEN [heap EXCEPT ![held[t]].active = @ \cup {k}]
             ELSE [heap EXCEPT ![held[t]][k] = form[t][k]]
  /\ UNCHANGED << file, maps, current, modified, parseError, serving, pc, form,
                  held, buffer, historyVars, failureVars >>

(* A key of a datastore that the file does not have: the handler breaks off *)
(* and leaves half of the form in the maps that are shared.                 *)
FormBreaksOff(t) ==
  /\ Goes(t, "apply", "idle") /\ clash' = TRUE
  /\ todo' = [todo EXCEPT ![t] = {}]
  /\ form' = [form EXCEPT ![t] = FirstValue] /\ held' = [held EXCEPT ![t] = 1]
  /\ UNCHANGED << file, mapVars, serving, buffer, requests, crashes, wanted, versions,
                  failureVars >>

(* set_datastores and set_geoloc.  (What a thread is done with is reset to  *)
(* FirstValue, here and below.)                                             *)
SetMaps(t) ==
  /\ Goes(t, "apply", "save") /\ todo[t] = {}
  /\ current' = held[t] /\ modified' = TRUE
  /\ form' = [form EXCEPT ![t] = FirstValue] /\ held' = [held EXCEPT ![t] = 1]
  /\ UNCHANGED << file, heap, maps, parseError, serving, todo, buffer,
                  historyVars, failureVars >>

(* upload_module puts a datastore's defaults into the map, without a look   *)
(* at parseError, and does not set modified.                                *)
UploadModule(t, s) ==
  /\ Begins(t, "save") /\ catching' = catching \cup {t}
  /\ heap' = [heap EXCEPT ![current].active = @ \ {s}]
  /\ Changes([wanted EXCEPT !.active = @ \ {s}])
  /\ UNCHANGED << file, maps, current, modified, parseError, serving, form, todo,
                  held, buffer, crashes, failures, unsaved >>

(* store_json: the file is truncated when it is opened; what is dumped goes *)
(* to the disk, behind a comment that is always the same, when it is        *)
(* closed, over what another thread wrote there meanwhile, the end of which *)
(* remains if it was longer.                                                *)
OpenFile(t) ==
  /\ Goes(t, "save", "dump") \/ Goes(t, "again", "redump")
  /\ file' = [file EXCEPT !.text = "empty"]
  /\ UNCHANGED << mapVars, serving, form, todo, held, buffer, historyVars, failureVars >>

Dump(t) ==
  /\ Goes(t, "dump", "flush") \/ Goes(t, "redump", "reflush")
  /\ buffer' = [buffer EXCEPT ![t] = heap[current]]
  /\ UNCHANGED << file, mapVars, serving, form, todo, held, historyVars, failureVars >>

Flush(t) ==
  /\ \/ Goes(t, "flush", "wrapped") /\ UNCHANGED modified
     \/ Goes(t, "reflush", "idle") /\ modified' = FALSE
  /\ \E text \in IF file.text = "empty" \/ file = [text |-> "whole", value |-> buffer[t]]
                 THEN {"whole"} ELSE {"whole", "tailed"} :
       file' = [text |-> text, value |-> buffer[t]]
  /\ buffer' = [buffer EXCEPT ![t] = FirstValue]
  /\ catching' = catching \ {t} /\ unsaved' = FALSE
  /\ UNCHANGED << heap, maps, current, parseError, serving, form, todo, held,
                  historyVars, failures >>

SaveFails_Forgets(t) ==  \* mutant: the flag is reset whether or not it was saved
  /\ failures < MaxFailures /\ failures' = failures + 1
  /\ pc[t] \in {"save", "dump", "flush", "again", "redump", "reflush"}
  /\ pc' = [pc EXCEPT ![t] = IF t \in catching THEN "wrapped" ELSE "idle"]
  /\ catching' = catching \ {t}
  /\ \E text \in IF pc[t] \in {"flush", "reflush"} THEN {file.text, "empty"} ELSE {file.text} :
       file' = [file EXCEPT !.text = text]
  /\ buffer' = [buffer EXCEPT ![t] = FirstValue]
  /\ unsaved' = (unsaved \/ ~modified) /\ modified' = FALSE
  /\ UNCHANGED << heap, maps, current, parseError, serving, form, todo, held,
                  historyVars >>

(* The file cannot be opened, the maps cannot be dumped, and then only the  *)
(* comment is written, or the disk takes nothing or no whole document.  An  *)
(* exception ends the request, and modified stays set; upload_module        *)
(* catches it.                                                              *)
SaveFails(t) ==
  /\ failures < MaxFailures /\ failures' = failures + 1
  /\ pc[t] \in {"save", "dump", "flush", "again", "redump", "reflush"}
  /\ pc' = [pc EXCEPT ![t] = IF t \in catching THEN "wrapped" ELSE "idle"]
  /\ catching' = catching \ {t}
  /\ \E text \in IF pc[t] \in {"flush", "reflush"} THEN {file.text, "empty"} ELSE {file.text} :
       file' = [file EXCEPT !.text = text]
  /\ buffer' = [buffer EXCEPT ![t] = FirstValue]
  /\ unsaved' = (unsaved \/ ~modified)
  /\ UNCHANGED << mapVars, serving, form, todo, held, historyVars >>

(* A request that only reads.                                               *)
Get(t) ==
  /\ Begins(t, "wrapped")
  /\ UNCHANGED << file, mapVars, serving, form, todo, held, buffer, crashes, wanted,
                  versions, clash, failureVars >>

(* The wrapper of every route saves what any thread has modified, half of a *)
(* form if one is just being applied.                                       *)
Wrapper(t) ==
  /\ Goes(t, "wrapped", IF modified THEN "again" ELSE "idle")
  /\ clash' = (clash \/ (modified /\ \E u \in Thread : pc[u] = "apply"))
  /\ UNCHANGED << file, mapVars, serving, form, todo, held, buffer, requests, crashes,
                  wanted, versions, failureVars >>

(* config_reload: Python's parser takes nothing but a whole document.       *)
ConfigReload(t) ==
  /\ Begins(t, IF file.text = "whole" THEN "wrapped" ELSE "idle")
  /\ IF file.text = "whole"
     THEN /\ maps < MaxMaps /\ maps' = maps + 1 /\ current' = maps'
          /\ heap' = [heap EXCEPT ![maps'] = file.value]
          /\ parseError' = FALSE
     ELSE parseError' = TRUE /\ UNCHANGED << heap, maps, current >>
  /\ clash' = (clash \/ modified \/ unsaved \/ \E u \in Thread : pc[u] # "idle")
  /\ UNCHANGED << file, modified, serving, form, todo, held, buffer, crashes, wanted,
                  versions, failureVars >>

(* The tool dies and starts again, if Configuration() can load the file.    *)
Crash ==
  /\ crashes < MaxCrashes /\ crashes' = crashes + 1
  /\ clash' = (clash \/ modified \/ unsaved \/ \E t \in Thread : pc[t] # "idle")
  /\ serving' = (file.text = "whole")
  /\ heap' = [heap EXCEPT ![1] = file.value] /\ maps' = 1 /\ current' = 1
  /\ modified' = FALSE /\ parseError' = FALSE
  /\ pc' = [t \in Thread |-> "idle"]
  /\ todo' = [t \in Thread |-> {}] /\ held' = [t \in Thread |-> 1]
  /\ form' = [t \in Thread |-> FirstValue] /\ buffer' = [t \in Thread |-> FirstValue]
  /\ catching' = {} /\ unsaved' = FALSE
  /\ UNCHANGED << file, requests, wanted, versions, failures >>

WebStep ==
  \/ Crash
  \/ \E t \in Thread :
       \/ \E f \in Form : PostDatastores(t, f)
       \/ \E k \in Key : ApplyKey(t, k)
       \/ \E s \in Store : UploadModule(t, s)
       \/ FormBreaksOff(t) \/ SetMaps(t)
       \/ OpenFile(t) \/ Dump(t) \/ Flush(t) \/ SaveFails(t)
       \/ Get(t) \/ Wrapper(t) \/ ConfigReload(t)

-----------------------------------------------------------------------------
AtRest == \A t \in Thread : pc[t] = "idle"

(* After changes that did not meet, the maps hold what the last one asked   *)
(* for, the stores it left out deactivated; and so does the file, a whole   *)
(* document, unless a save has failed and none after it has succeeded: then *)
(* the flag is still set that has the next request, whatever it is, save    *)
(* again, or else it was upload_module's, which sets no flag.  However      *)
(* requests meet, the flag is only left set by a failure, and a file only   *)
(* left without a document by a failure or a death of the tool              *)
(* (post_datastores, upload_module, store_json, wrapper).                   *)
SavedWhole ==
  AtRest =>
    /\ crashes = 0 /\ failures = 0 => file.text # "empty"
    /\ modified \/ unsaved => failures > 0
    /\ ~clash => /\ heap[current] = wanted
                 /\ \/ modified \/ unsaved
                    \/ file = [text |-> "whole", value |-> wanted]
=============================================================================
