--------------------------- MODULE ServicesProofs ---------------------------
(***************************************************************************)
(* What TLAPS proves of the services round the polling process: the file   *)
(* that the threads of the configuration tool write and a starting gateway *)
(* reads, the receiver of the radio link, and the push to the datastores.  *)
(* It holds for any number of threads, forms, crashes, frames, losses,     *)
(* datastores and rounds.                                                  *)
(***************************************************************************)
EXTENDS MCServices, SequenceTheorems, FiniteSetTheorems, TLAPS

-----------------------------------------------------------------------------
(* The configuration tool.                                                  *)

Writes(t) == pc[t] \in {"dump", "flush", "redump", "reflush"}

(* Only a thread between the opening of the file and its closing leaves it  *)
(* empty, if the tool has not died and no save has failed.                  *)
EmptyWhileWritten == crashes = 0 /\ failures = 0 /\ file.text = "empty" => Writing

(* The flag is set by a thread that will come to see it, in the wrapper, if *)
(* no save fails before.                                                    *)
ModifiedIsSeen ==
  /\ unsaved => failures # 0
  /\ modified => failures # 0 \/ \E t \in Thread : pc[t] \notin {"idle", "apply"}

(* A thread that applies a form is alone, but for requests that only read   *)
(* and have not come to save again what a failed save has left: the map     *)
(* that it holds is the shared one, which differs from what is wanted by    *)
(* the keys that are left.                                                  *)
AppliesAlone(t) ==
  /\ held[t] = current /\ form[t] = wanted
  /\ \A u \in Thread \ {t} : pc[u] \in {"idle", "wrapped"}
  /\ heap[current].active = wanted.active \ todo[t]
  /\ todo[t] \subseteq wanted.active \cup {"lat", "lon"}
  /\ "lat" \notin todo[t] => heap[current].lat = wanted.lat
  /\ "lon" \notin todo[t] => heap[current].lon = wanted.lon

Applying == \E t \in Thread : pc[t] = "apply"

(* While changes have not met, what is dumped is what is wanted, and a file *)
(* that does not hold it yet will be opened by the thread that changed it,  *)
(* if the save does not fail; a writer has emptied it or writes it again.   *)
Saving ==
  /\ \A t \in Thread : pc[t] = "apply" => AppliesAlone(t)
  /\ ~Applying => /\ heap[current] = wanted
                  /\ \A t \in Thread : pc[t] \in {"flush", "reflush"} => buffer[t] = wanted
  /\ file.text # "tailed"
  /\ file.text = "empty" => Writing \/ modified \/ unsaved
  /\ \/ file.value = wanted \/ file.text = "empty"
     \/ ~Writing /\ (modified \/ unsaved \/ \E t \in Thread : pc[t] \in {"apply", "save"})

SavedInv == EmptyWhileWritten /\ ModifiedIsSeen /\ (~clash => Saving)

(* WebTypeOK, one variable at a time.                                       *)
FileType == file \in [text : {"whole", "empty", "tailed"}, value : Value]
HeapType == heap \in [1 .. MaxMaps -> Value]
MapsType ==
  /\ maps \in 1 .. MaxMaps /\ current \in 1 .. MaxMaps
  /\ modified \in BOOLEAN /\ parseError \in BOOLEAN
  /\ serving \in BOOLEAN /\ clash \in BOOLEAN /\ unsaved \in BOOLEAN
ThreadType ==
  /\ pc \in [Thread -> Step] /\ form \in [Thread -> Value]
  /\ todo \in [Thread -> SUBSET Key] /\ held \in [Thread -> 1 .. MaxMaps]
  /\ buffer \in [Thread -> Value]
HistoryType ==
  /\ requests \in 0 .. MaxRequests /\ crashes \in 0 .. MaxCrashes
  /\ wanted \in Value /\ versions \in SUBSET Value
FailureType == catching \subseteq Thread /\ failures \in 0 .. MaxFailures

WebTypes ==
  FileType /\ HeapType /\ MapsType /\ ThreadType /\ HistoryType /\ FailureType

LEMMA WebTypesAre == WebTypeOK <=> WebTypes
BY DEF WebTypeOK, WebTypes, FileType, HeapType, MapsType, ThreadType, HistoryType,
       FailureType

LEMMA BoundsAre ==
  /\ MaxRequests \in Nat /\ MaxMaps \in Nat \ {0} /\ MaxCrashes \in Nat /\ MaxFailures \in Nat
  /\ FirstValue \in Value /\ \A f \in Form : f \in Value
BY WebConfigAssumption

LEMMA WebTypeInit == WebInit => WebTypeOK
<1> SUFFICES ASSUME WebInit PROVE WebTypes
  BY WebTypesAre
<1> USE BoundsAre DEF WebInit
<1>1. FileType
  BY DEF FileType
<1>2. HeapType
  BY DEF HeapType
<1>6. 1 \in 1 .. MaxMaps
  OBVIOUS
<1>7. MapsType
  BY <1>6 DEF MapsType
<1>3. ThreadType
  BY DEF ThreadType, Step
<1>4. requests \in 0 .. MaxRequests /\ crashes \in 0 .. MaxCrashes
  OBVIOUS
<1>5. wanted \in Value /\ versions \in SUBSET Value
  OBVIOUS
<1>8. FailureType
  BY DEF FailureType
<1> QED BY <1>1, <1>2, <1>3, <1>4, <1>5, <1>7, <1>8 DEF WebTypes, HistoryType

LEMMA ValueWith ==
  ASSUME NEW v \in Value
  PROVE  /\ v.active \subseteq Store
         /\ \A a \in SUBSET Store : [v EXCEPT !.active = a] \in Value
         /\ \A w \in Value : /\ [v EXCEPT !["lat"] = w.lat] \in Value
                            /\ [v EXCEPT !["lon"] = w.lon] \in Value
BY DEF Value

LEMMA HeapWith ==
  ASSUME HeapType, NEW m \in 1 .. MaxMaps, NEW v \in Value
  PROVE  [heap EXCEPT ![m] = v] \in [1 .. MaxMaps -> Value]
BY DEF HeapType

LEMMA BeginsTypes ==
  ASSUME WebTypes, NEW t \in Thread, NEW to \in Step, Begins(t, to)
  PROVE  requests' \in 0 .. MaxRequests /\ pc' \in [Thread -> Step]
BY BoundsAre DEF Begins, Goes, WebTypes, ThreadType, HistoryType

LEMMA ChangesTypes ==
  ASSUME WebTypes, NEW v \in Value, Changes(v)
  PROVE  wanted' \in Value /\ versions' \in SUBSET Value /\ clash' \in BOOLEAN
BY DEF Changes, WebTypes, MapsType, HistoryType

LEMMA WebTypeStep ==
  ASSUME WebTypeOK, WebStep \/ (\E t \in Thread : RestartService(t)) \/ UNCHANGED webVars
  PROVE  WebTypeOK'
<1> USE BoundsAre DEF WebTypes, FileType, MapsType, ThreadType, HistoryType, FailureType,
                      failureVars, Step
<1>0. WebTypes
  BY WebTypesAre
<1>1. ASSUME Crash PROVE WebTypes'
  <2>1. file.value \in Value /\ 1 \in 1 .. MaxMaps /\ (file.text = "whole") \in BOOLEAN
    BY <1>0
  <2>2. HeapType'
    BY <1>0, <1>1, <2>1, HeapWith DEF Crash, HeapType
  <2>3. crashes' \in 0 .. MaxCrashes
    BY <1>0, <1>1 DEF Crash
  <2>4. clash' \in BOOLEAN /\ unsaved' \in BOOLEAN /\ FailureType'
    BY <1>0, <1>1 DEF Crash
  <2>5. ThreadType'
    BY <1>0, <1>1, <2>1 DEF Crash
  <2> QED BY <1>0, <1>1, <2>1, <2>2, <2>3, <2>4, <2>5 DEF Crash
<1>2. ASSUME NEW t \in Thread, NEW f \in Form, PostDatastores(t, f) PROVE WebTypes'
  <2>1. f \in Value /\ f.active \cup {"lat", "lon"} \in SUBSET Key
    BY DEF Value, Key
  <2>2. heap[current] \in Value /\ [heap[current] EXCEPT !.active = {}] \in Value
    BY <1>0, ValueWith DEF HeapType
  <2>3. HeapType'
    BY <1>0, <1>2, <2>2, HeapWith DEF PostDatastores, HeapType
  <2>4. requests' \in 0 .. MaxRequests /\ pc' \in [Thread -> Step]
    BY <1>0, <1>2, BeginsTypes DEF PostDatastores
  <2>5. wanted' \in Value /\ versions' \in SUBSET Value /\ clash' \in BOOLEAN
    BY <1>0, <1>2, <2>1, ChangesTypes DEF PostDatastores
  <2> QED BY <1>0, <1>2, <2>1, <2>3, <2>4, <2>5 DEF PostDatastores
<1>3. ASSUME NEW t \in Thread, NEW k \in Key, ApplyKey(t, k) PROVE WebTypes'
  <2>1. heap[held[t]] \in Value /\ form[t] \in Value
    BY <1>0 DEF HeapType
  <2>2. HeapType'
    <3>1. CASE k \in Store
      <4> DEFINE v == [heap[held[t]] EXCEPT !.active = heap[held[t]].active \cup {k}]
      <4>1. v \in Value
        BY <2>1, <3>1, ValueWith
      <4>2. heap' = [heap EXCEPT ![held[t]] = v]
        BY <1>3, <3>1 DEF ApplyKey
      <4> HIDE DEF v
      <4> QED BY <1>0, <4>1, <4>2, HeapWith DEF HeapType
    <3>2. CASE k \notin Store
      <4> DEFINE v == [heap[held[t]] EXCEPT ![k] = form[t][k]]
      <4>1. v \in Value
        BY <2>1, <3>2, ValueWith DEF Key
      <4>2. heap' = [heap EXCEPT ![held[t]] = v]
        BY <1>3, <3>2 DEF ApplyKey
      <4> HIDE DEF v
      <4> QED BY <1>0, <4>1, <4>2, HeapWith DEF HeapType
    <3> QED BY <3>1, <3>2
  <2> QED BY <1>0, <1>3, <2>2 DEF ApplyKey, historyVars
<1>4. ASSUME NEW t \in Thread, NEW s \in Store, UploadModule(t, s) PROVE WebTypes'
  <2>1. heap[current] \in Value /\ wanted \in Value
    BY <1>0 DEF HeapType
  <2>2. /\ [heap[current] EXCEPT !.active = @ \ {s}] \in Value
        /\ [wanted EXCEPT !.active = @ \ {s}] \in Value
    BY <2>1, ValueWith
  <2>3. HeapType'
    BY <1>0, <1>4, <2>2, HeapWith DEF UploadModule, HeapType
  <2>4. requests' \in 0 .. MaxRequests /\ pc' \in [Thread -> Step]
    BY <1>0, <1>4, BeginsTypes DEF UploadModule
  <2>5. wanted' \in Value /\ versions' \in SUBSET Value /\ clash' \in BOOLEAN
    BY <1>0, <1>4, <2>2, ChangesTypes DEF UploadModule
  <2> QED BY <1>0, <1>4, <2>3, <2>4, <2>5 DEF UploadModule
<1>5. ASSUME NEW t \in Thread, SetMaps(t) PROVE WebTypes'
  BY <1>0, <1>5 DEF SetMaps, Goes, historyVars, HeapType
<1>6. ASSUME NEW t \in Thread, OpenFile(t) PROVE WebTypes'
  BY <1>0, <1>6 DEF OpenFile, Goes, mapVars, historyVars, HeapType
<1>7. ASSUME NEW t \in Thread, Dump(t) PROVE WebTypes'
  BY <1>0, <1>7 DEF Dump, Goes, mapVars, historyVars, HeapType
<1>8. ASSUME NEW t \in Thread, Flush(t) PROVE WebTypes'
  <2>1. FileType'
    BY <1>0, <1>8 DEF Flush
  <2>2. pc' \in [Thread -> Step] /\ modified' \in BOOLEAN
    BY <1>0, <1>8 DEF Flush, Goes
  <2> QED BY <1>0, <1>8, <2>1, <2>2 DEF Flush, historyVars, HeapType
<1>9. ASSUME NEW t \in Thread, Get(t) \/ RestartService(t) PROVE WebTypes'
  <2>1. requests' \in 0 .. MaxRequests /\ pc' \in [Thread -> Step]
    BY <1>0, <1>9, BeginsTypes DEF Get, RestartService
  <2> QED BY <1>0, <1>9, <2>1 DEF Get, RestartService, mapVars, HeapType
<1>10. ASSUME NEW t \in Thread, Wrapper(t) PROVE WebTypes'
  BY <1>0, <1>10 DEF Wrapper, Goes, mapVars, historyVars, HeapType
<1>11. ASSUME NEW t \in Thread, ConfigReload(t) PROVE WebTypes'
  <2>1. requests' \in 0 .. MaxRequests /\ pc' \in [Thread -> Step]
    BY <1>0, <1>11, BeginsTypes DEF ConfigReload
  <2>2. CASE file.text = "whole"
    <3>1. maps' \in 1 .. MaxMaps /\ current' \in 1 .. MaxMaps
      BY <1>0, <1>11, <2>2 DEF ConfigReload
    <3>2. file.value \in Value
      BY <1>0
    <3>3. HeapType'
      BY <1>0, <1>11, <2>2, <3>1, <3>2, HeapWith DEF ConfigReload, HeapType
    <3> QED BY <1>0, <1>11, <2>1, <2>2, <3>1, <3>3 DEF ConfigReload
  <2>3. CASE file.text # "whole"
    BY <1>0, <1>11, <2>1, <2>3 DEF ConfigReload, HeapType
  <2> QED BY <2>2, <2>3
<1>14. ASSUME NEW t \in Thread, FormBreaksOff(t) PROVE WebTypes'
  BY <1>0, <1>14 DEF FormBreaksOff, Goes, mapVars, HeapType
<1>15. ASSUME NEW t \in Thread, SaveFails(t) PROVE WebTypes'
  <2>1. FileType'
    BY <1>0, <1>15 DEF SaveFails
  <2>2. pc' \in [Thread -> Step] /\ buffer' \in [Thread -> Value]
    BY <1>0, <1>15 DEF SaveFails
  <2>3. failures' \in 0 .. MaxFailures
    BY <1>0, <1>15 DEF SaveFails
  <2>4. catching' \subseteq Thread /\ unsaved' \in BOOLEAN
    BY <1>0, <1>15 DEF SaveFails
  <2> QED BY <1>0, <1>15, <2>1, <2>2, <2>3, <2>4 DEF SaveFails, mapVars, historyVars, HeapType
<1>12. ASSUME UNCHANGED webVars PROVE WebTypes'
  BY <1>0, <1>12 DEF webVars, threadVars, mapVars, historyVars, HeapType
<1>13. WebTypes'
  BY <1>1, <1>2, <1>3, <1>4, <1>5, <1>6, <1>7, <1>8, <1>9, <1>10, <1>11, <1>12,
     <1>14, <1>15 DEF WebStep
<1> QED BY <1>13, WebTypesAre, PTL

LEMMA SavedInvInit == WebInit => SavedInv
BY WebConfigAssumption
   DEF WebInit, SavedInv, EmptyWhileWritten, ModifiedIsSeen, Saving, Applying, Writing

(* Between requests the maps hold what is wanted, and the file, too, if no  *)
(* save is to be repeated.                                                  *)
LEMMA WantedAtRest ==
  ASSUME WebTypeOK, SavedInv, ~clash, AtRest
  PROVE  /\ heap[current] = wanted
         /\ ~modified /\ ~unsaved => file.text = "whole" /\ file.value = wanted
<1>1. ~Writing /\ ~Applying
  BY DEF AtRest, Writing, Applying
<1> QED BY <1>1 DEF SavedInv, Saving, AtRest, WebTypeOK

LEMMA SameValue ==
  ASSUME NEW v \in Value, NEW w \in Value,
         v.active = w.active, v.lat = w.lat, v.lon = w.lon
  PROVE  v = w
BY DEF Value

(* The two parts of SavedInv that hold however changes meet.                *)
LEMMA EmptyModifiedStep ==
  ASSUME WebTypes, EmptyWhileWritten /\ ModifiedIsSeen,
         WebStep \/ (\E t \in Thread : RestartService(t)) \/ UNCHANGED webVars
  PROVE  EmptyWhileWritten' /\ ModifiedIsSeen'
<1> USE DEF WebTypes, ThreadType, EmptyWhileWritten, ModifiedIsSeen, Writing, failureVars
<1>1. CASE Crash
  BY <1>1 DEF Crash, HistoryType
<1>2. ASSUME NEW t \in Thread, SetMaps(t) PROVE EmptyWhileWritten' /\ ModifiedIsSeen'
  BY <1>2 DEF SetMaps, Goes, historyVars
<1>3. ASSUME NEW t \in Thread, OpenFile(t) PROVE EmptyWhileWritten' /\ ModifiedIsSeen'
  BY <1>3 DEF OpenFile, Goes, mapVars, historyVars
<1>4. ASSUME NEW t \in Thread, Flush(t) PROVE EmptyWhileWritten' /\ ModifiedIsSeen'
  BY <1>4 DEF Flush, Goes, historyVars
<1>5. ASSUME NEW t \in Thread, Wrapper(t) PROVE EmptyWhileWritten' /\ ModifiedIsSeen'
  BY <1>5 DEF Wrapper, Goes, mapVars, historyVars
<1>6. ASSUME NEW t \in Thread, Dump(t) PROVE EmptyWhileWritten' /\ ModifiedIsSeen'
  BY <1>6 DEF Dump, Goes, mapVars, historyVars
<1>12. ASSUME NEW t \in Thread, FormBreaksOff(t) PROVE EmptyWhileWritten' /\ ModifiedIsSeen'
  BY <1>12 DEF FormBreaksOff, Goes, mapVars
<1>13. ASSUME NEW t \in Thread, SaveFails(t) PROVE EmptyWhileWritten' /\ ModifiedIsSeen'
  <2>1. failures' # 0
    BY <1>13 DEF SaveFails, FailureType
  <2> QED BY <2>1
<1>7. ASSUME NEW t \in Thread, NEW to \in Step, Begins(t, to),
             UNCHANGED << file, modified, crashes, failures, unsaved >>
      PROVE  EmptyWhileWritten' /\ ModifiedIsSeen'
  BY <1>7 DEF Begins, Goes
<1>8. ASSUME UNCHANGED << file, modified, crashes, failures, unsaved, pc >>
      PROVE  EmptyWhileWritten' /\ ModifiedIsSeen'
  BY <1>8
<1>9. ASSUME NEW t \in Thread,
             \/ \E f \in Form : PostDatastores(t, f)
             \/ \E s \in Store : UploadModule(t, s)
             \/ Get(t) \/ ConfigReload(t) \/ RestartService(t)
      PROVE  EmptyWhileWritten' /\ ModifiedIsSeen'
  BY <1>7, <1>9 DEF PostDatastores, UploadModule, Get, ConfigReload, RestartService,
                    mapVars, Step
<1>10. CASE UNCHANGED webVars
  BY <1>8, <1>10 DEF webVars, mapVars, threadVars, historyVars
<1>11. ASSUME NEW t \in Thread, NEW k \in Key, ApplyKey(t, k)
       PROVE  EmptyWhileWritten' /\ ModifiedIsSeen'
  BY <1>8, <1>11 DEF ApplyKey, historyVars
<1> QED BY <1>1, <1>2, <1>3, <1>4, <1>5, <1>6, <1>9, <1>10, <1>11, <1>12, <1>13 DEF WebStep

(* A request begins that changes nothing: what is being saved goes on.      *)
LEMMA SavingQuiet ==
  ASSUME WebTypes, Saving, NEW t \in Thread, pc[t] = "idle",
         pc' = [pc EXCEPT ![t] = "wrapped"],
         UNCHANGED << file, heap, current, modified, unsaved, form, todo, held, buffer, wanted >>
  PROVE  Saving'
<1> USE DEF WebTypes, ThreadType, Saving
<1>1. \A u \in Thread : pc'[u] = IF u = t THEN "wrapped" ELSE pc[u]
  OBVIOUS
<1>2. Writing' <=> Writing
  BY <1>1 DEF Writing
<1>3. Applying' <=> Applying
  BY <1>1 DEF Applying
<1>4. \A u \in Thread : pc'[u] = "apply" => AppliesAlone(u)'
  BY <1>1 DEF AppliesAlone
<1>5. (\E u \in Thread : pc[u] \in {"apply", "save"})
        => \E u \in Thread : pc'[u] \in {"apply", "save"}
  BY <1>1
<1> QED BY <1>1, <1>2, <1>3, <1>4, <1>5

(* A change at rest, which begins to apply or to save.                      *)
LEMMA SavingFromRest ==
  ASSUME WebTypes, NEW t \in Thread, NEW to \in {"apply", "save", "wrapped"},
         AtRest, file.text # "tailed", pc' = [pc EXCEPT ![t] = to], file' = file,
         file.text = "empty" => modified' \/ unsaved',
         to = "apply" => AppliesAlone(t)',
         to # "apply" => heap'[current'] = wanted',
         to = "wrapped" => file.value = wanted' \/ modified' \/ unsaved'
  PROVE  Saving'
<1> USE DEF WebTypes, ThreadType, AtRest
<1>1. \A u \in Thread : pc'[u] = IF u = t THEN to ELSE "idle"
  OBVIOUS
<1>2. ~Writing'
  BY <1>1 DEF Writing
<1>3. Applying' <=> to = "apply"
  BY <1>1 DEF Applying
<1>4. \A u \in Thread : pc'[u] = "apply" => AppliesAlone(u)'
  BY <1>1
<1>5. to # "wrapped" => \E u \in Thread : pc'[u] \in {"apply", "save"}
  BY <1>1
<1>6. \A u \in Thread : pc'[u] \notin {"flush", "reflush"}
  BY <1>1
<1> QED BY <1>1, <1>2, <1>3, <1>4, <1>5, <1>6 DEF Saving

LEMMA SavingStep ==
  ASSUME WebTypes, SavedInv, ~clash',
         WebStep \/ (\E t \in Thread : RestartService(t)) \/ UNCHANGED webVars
  PROVE  Saving'
<1> USE DEF WebTypes, ThreadType, failureVars
<1>0. WebTypeOK
  BY WebTypesAre
<1>1. ~clash /\ Saving
  <2>1. clash => clash'
    BY DEF WebStep, Crash, PostDatastores, ApplyKey, UploadModule, SetMaps, OpenFile,
           Dump, Flush, Get, Wrapper, ConfigReload, RestartService, Changes, historyVars,
           FormBreaksOff, SaveFails, webVars, MapsType
  <2> QED BY <2>1 DEF SavedInv
<1>15. /\ file.text # "tailed"
       /\ AtRest /\ file.text = "empty" => modified \/ unsaved
  BY <1>1 DEF Saving, AtRest, Writing
<1>2. AtRest => /\ heap[current] = wanted
                /\ ~modified /\ ~unsaved => file.text = "whole" /\ file.value = wanted
  BY <1>0, <1>1, WantedAtRest
<1>3. CASE Crash
  <2>1. AtRest /\ ~modified /\ ~unsaved
    BY <1>3 DEF Crash, AtRest
  <2>2. heap'[current'] = wanted'
    BY <1>2, <1>3, <2>1, BoundsAre DEF Crash, HeapType
  <2> QED BY <1>2, <1>3, <2>1, <2>2 DEF Crash, Saving, Applying, Writing
<1>4. ASSUME NEW t \in Thread, NEW f \in Form, PostDatastores(t, f) PROVE Saving'
  <2>1. AtRest /\ pc' = [pc EXCEPT ![t] = "apply"]
    BY <1>4 DEF PostDatastores, Changes, AtRest, Begins, Goes
  <2>2. f \in Value
    BY BoundsAre
  <2>3. AppliesAlone(t)'
    <3>1. heap'[current].active = {} /\ held'[t] = current /\ form'[t] = f
      BY <1>4, <2>2 DEF PostDatastores, MapsType, HeapType, Value
    <3>2. todo'[t] = f.active \cup {"lat", "lon"} /\ wanted' = f
      BY <1>4 DEF PostDatastores, Changes
    <3> QED BY <1>2, <1>4, <2>1, <3>1, <3>2 DEF PostDatastores, AppliesAlone, AtRest
  <2> QED BY <1>2, <1>4, <1>15, <2>1, <2>3, SavingFromRest DEF PostDatastores
<1>5. ASSUME NEW t \in Thread, NEW s \in Store, UploadModule(t, s) PROVE Saving'
  <2>1. AtRest /\ pc' = [pc EXCEPT ![t] = "save"]
    BY <1>5 DEF UploadModule, Changes, AtRest, Begins, Goes
  <2>2. heap'[current'] = wanted'
    BY <1>2, <1>5, <2>1 DEF UploadModule, Changes, MapsType, HeapType, Value
  <2> QED BY <1>2, <1>5, <1>15, <2>1, <2>2, SavingFromRest DEF UploadModule
<1>6. ASSUME NEW t \in Thread, ConfigReload(t) PROVE Saving'
  <2>1. AtRest /\ ~modified /\ ~unsaved
    BY <1>6 DEF ConfigReload, AtRest
  <2>2. pc' = [pc EXCEPT ![t] = "wrapped"] /\ current' = maps + 1 /\ wanted' = wanted
    BY <1>2, <1>6, <2>1 DEF ConfigReload, Begins, Goes
  <2>3. heap'[current'] = wanted'
    <3>0. maps < MaxMaps /\ maps \in 1 .. MaxMaps
      BY <1>2, <1>6, <2>1 DEF ConfigReload, MapsType
    <3>1. maps + 1 \in 1 .. MaxMaps
      BY <3>0, BoundsAre
    <3>2. heap' = [heap EXCEPT ![maps + 1] = file.value]
      BY <1>2, <1>6, <2>1 DEF ConfigReload
    <3> QED BY <1>2, <2>1, <2>2, <3>1, <3>2 DEF HeapType
  <2> QED BY <1>2, <1>6, <1>15, <2>1, <2>2, <2>3, SavingFromRest DEF ConfigReload
<1>7. ASSUME NEW t \in Thread, Get(t) \/ RestartService(t) PROVE Saving'
  BY <1>1, <1>7, SavingQuiet DEF Get, RestartService, Begins, Goes, mapVars
<1>8. ASSUME NEW t \in Thread, NEW k \in Key, ApplyKey(t, k) PROVE Saving'
  <2>1. /\ pc' = pc /\ file' = file /\ buffer' = buffer /\ wanted' = wanted /\ current' = current
        /\ modified' = modified /\ unsaved' = unsaved
    BY <1>8 DEF ApplyKey, historyVars
  <2>2. pc[t] = "apply" /\ AppliesAlone(t)
    BY <1>1, <1>8 DEF ApplyKey, Saving
  <2>3. AppliesAlone(t)'
    <3>1. /\ todo'[t] = todo[t] \ {k} /\ k \in todo[t]
          /\ UNCHANGED << held, form >>
      BY <1>8 DEF ApplyKey
    <3>2. heap[current] \in Value /\ wanted \in Value
      BY DEF HeapType, MapsType, HistoryType
    <3>3. CASE k \in Store
      <4>1. heap'[current] = [heap[current] EXCEPT !.active = @ \cup {k}]
        BY <1>8, <2>2, <3>3 DEF ApplyKey, AppliesAlone, HeapType, MapsType
      <4>2. k \notin {"lat", "lon"} /\ k \in wanted.active
        BY <2>2, <3>1, <3>3, WebConfigAssumption DEF AppliesAlone
      <4>3. /\ heap'[current].active = heap[current].active \cup {k}
            /\ heap'[current].lat = heap[current].lat
            /\ heap'[current].lon = heap[current].lon
        BY <3>2, <4>1 DEF Value
      <4> QED BY <2>1, <2>2, <3>1, <4>2, <4>3 DEF AppliesAlone
    <3>4. CASE k \notin Store
      <4>1. k \in {"lat", "lon"}
        BY <3>4 DEF Key
      <4>2. heap'[current] = [heap[current] EXCEPT ![k] = wanted[k]]
        BY <1>8, <2>2, <3>4 DEF ApplyKey, AppliesAlone, HeapType, MapsType
      <4>3. /\ heap'[current].active = heap[current].active
            /\ heap'[current].lat = IF k = "lat" THEN wanted.lat ELSE heap[current].lat
            /\ heap'[current].lon = IF k = "lon" THEN wanted.lon ELSE heap[current].lon
        BY <3>2, <4>1, <4>2 DEF Value
      <4>4. k \notin wanted.active
        BY <3>2, <3>4 DEF Value
      <4> QED BY <2>1, <2>2, <3>1, <4>1, <4>3, <4>4 DEF AppliesAlone
    <3> QED BY <3>3, <3>4
  <2>4. \A u \in Thread : pc[u] = "apply" => u = t
    BY <2>2 DEF AppliesAlone
  <2> QED BY <1>1, <2>1, <2>2, <2>3, <2>4 DEF Saving, Applying, Writing
<1>9. ASSUME NEW t \in Thread, SetMaps(t) PROVE Saving'
  <2>1. pc[t] = "apply" /\ AppliesAlone(t)
    BY <1>1, <1>9 DEF SetMaps, Goes, Saving
  <2>2. heap[current] = wanted
    <3>1. heap[current] \in Value /\ wanted \in Value
      BY DEF HeapType, MapsType, HistoryType
    <3> QED BY <1>9, <2>1, <3>1, SameValue DEF SetMaps, AppliesAlone
  <2>3. /\ UNCHANGED << file, heap, wanted, unsaved >> /\ current' = current
        /\ modified' = TRUE /\ pc' = [pc EXCEPT ![t] = "save"]
    BY <1>9, <2>1 DEF SetMaps, AppliesAlone, historyVars, Goes
  <2>4. \A u \in Thread : pc'[u] \in {"idle", "wrapped", "save"}
    BY <2>1, <2>3 DEF AppliesAlone
  <2>5. ~Applying' /\ ~Writing' /\ ~Writing
    BY <2>1, <2>4 DEF AppliesAlone, Applying, Writing
  <2>6. pc'[t] = "save"
    BY <2>3
  <2> QED BY <1>1, <2>2, <2>3, <2>4, <2>5, <2>6 DEF Saving
<1>10. ASSUME NEW t \in Thread, OpenFile(t) PROVE Saving'
  <2>1. ~Applying
    BY <1>1, <1>10 DEF Applying, Saving, AppliesAlone, OpenFile, Goes
  <2>2. file'.text = "empty"
    BY <1>10 DEF OpenFile, FileType
  <2>3. pc'[t] \in {"dump", "redump"} /\ \A u \in Thread \ {t} : pc'[u] = pc[u]
    BY <1>10 DEF OpenFile, Goes
  <2>4. Writing' /\ ~Applying'
    BY <2>1, <2>3 DEF Writing, Applying
  <2> QED BY <1>1, <1>10, <2>1, <2>2, <2>3, <2>4
          DEF Saving, OpenFile, mapVars, historyVars, Applying
<1>11. ASSUME NEW t \in Thread, Dump(t) PROVE Saving'
  <2>1. ~Applying
    BY <1>1, <1>11 DEF Applying, Saving, AppliesAlone, Dump, Goes
  <2>2. /\ pc[t] \in {"dump", "redump"} /\ pc'[t] \in {"flush", "reflush"}
        /\ \A u \in Thread \ {t} : pc'[u] = pc[u] /\ buffer'[u] = buffer[u]
    BY <1>11 DEF Dump, Goes
  <2>3. Writing' /\ Writing /\ ~Applying'
    BY <2>1, <2>2 DEF Writing, Applying
  <2>4. buffer'[t] = wanted
    BY <1>1, <1>11, <2>1 DEF Dump, Saving
  <2> QED BY <1>1, <1>11, <2>1, <2>2, <2>3, <2>4
          DEF Saving, Dump, mapVars, historyVars, Applying
<1>12. ASSUME NEW t \in Thread, Flush(t) PROVE Saving'
  <2>1. ~Applying
    BY <1>1, <1>12 DEF Applying, Saving, AppliesAlone, Flush, Goes
  <2>2. /\ pc[t] \in {"flush", "reflush"} /\ pc'[t] \in {"wrapped", "idle"}
        /\ \A u \in Thread \ {t} : pc'[u] = pc[u] /\ buffer'[u] = buffer[u]
    BY <1>12 DEF Flush, Goes
  <2>3. Writing /\ ~Applying' /\ buffer[t] = wanted
    BY <1>1, <2>1, <2>2 DEF Writing, Applying, Saving
  <2>4. file.text = "empty" \/ file = [text |-> "whole", value |-> buffer[t]]
    BY <1>1, <2>3 DEF Saving, FileType
  <2>5. file' = [text |-> "whole", value |-> wanted]
    BY <1>12, <2>3, <2>4 DEF Flush
  <2> QED BY <1>1, <1>12, <2>1, <2>2, <2>3, <2>5
          DEF Saving, Flush, historyVars, Applying
<1>13. ASSUME NEW t \in Thread, Wrapper(t) PROVE Saving'
  <2>1. /\ pc[t] = "wrapped" /\ \A u \in Thread \ {t} : pc'[u] = pc[u]
        /\ pc'[t] = IF modified THEN "again" ELSE "idle"
    BY <1>13 DEF Wrapper, Goes
  <2>2. (Writing' <=> Writing) /\ (Applying' <=> Applying)
    BY <2>1 DEF Writing, Applying
  <2>3. \A u \in Thread : pc'[u] = "apply" => AppliesAlone(u)'
    BY <1>1, <1>13, <2>1 DEF Wrapper, mapVars, historyVars, Saving, AppliesAlone
  <2> QED BY <1>1, <1>13, <2>1, <2>2, <2>3 DEF Saving, Wrapper, mapVars, historyVars
<1>16. ASSUME NEW t \in Thread, SaveFails(t) PROVE Saving'
  <2>1. ~Applying
    BY <1>1, <1>16 DEF Applying, Saving, AppliesAlone, SaveFails
  <2>2. /\ pc[t] \in {"save", "dump", "flush", "again", "redump", "reflush"}
        /\ pc'[t] \in {"wrapped", "idle"}
        /\ \A u \in Thread \ {t} : pc'[u] = pc[u] /\ buffer'[u] = buffer[u]
    BY <1>16 DEF SaveFails
  <2>3. ~Applying' /\ (Writing' => Writing)
    BY <2>1, <2>2 DEF Writing, Applying
  <2>4. modified' = modified /\ unsaved' = (unsaved \/ ~modified)
    BY <1>16 DEF SaveFails, mapVars
  <2>5. /\ file' = file \/ (file'.text = "empty" /\ file'.value = file.value)
        /\ UNCHANGED << heap, current, wanted >>
    BY <1>16 DEF SaveFails, mapVars, historyVars, FileType
  <2>6. /\ \A u \in Thread : pc'[u] \in {"flush", "reflush"} => buffer'[u] = wanted
        /\ heap[current] = wanted
    BY <1>1, <2>1, <2>2 DEF Saving
  <2>7. file'.text # "tailed"
    BY <1>15, <2>5
  <2>8. modified' \/ unsaved'
    BY <2>4
  <2>9. file'.value = wanted \/ file'.text = "empty" \/ ~Writing'
    BY <1>1, <2>3, <2>5 DEF Saving
  <2>10. \A u \in Thread : pc'[u] # "apply"
    BY <2>3 DEF Applying
  <2> QED BY <2>3, <2>5, <2>6, <2>7, <2>8, <2>9, <2>10 DEF Saving
<1>17. ASSUME NEW t \in Thread, FormBreaksOff(t) PROVE FALSE
  BY <1>17 DEF FormBreaksOff
<1>14. CASE UNCHANGED webVars
  BY <1>1, <1>14 DEF webVars, mapVars, threadVars, historyVars, Saving, Applying, Writing,
                     AppliesAlone
<1> QED BY <1>3, <1>4, <1>5, <1>6, <1>7, <1>8, <1>9, <1>10, <1>11, <1>12, <1>13, <1>14,
        <1>16, <1>17 DEF WebStep

-----------------------------------------------------------------------------
(* The gateway that starts on the file.                                     *)

LEMMA GatewayTypeStep ==
  ASSUME WebTypes, GatewayTypeOK, [ServiceStep]_serviceVars
  PROVE  GatewayTypeOK'
<1> USE DEF GatewayTypeOK, WebTypes
<1>1. CASE ToolStep
  BY <1>1 DEF ToolStep
<1>2. CASE LoadSection
  <2>1. file.value \in Value
    BY DEF FileType
  <2>2. [runs EXCEPT !.active = file.value.active] \in Value
    BY <2>1, ValueWith
  <2>3. [file.value EXCEPT !.active = runs.active] \in Value
    BY <2>1, ValueWith
  <2> QED BY <1>2, <2>2, <2>3 DEF LoadSection, Loading
<1>3. CASE ChildFails \/ ParentReaps
  BY <1>3 DEF ChildFails, ParentReaps
<1>4. ASSUME NEW t \in Thread, RestartService(t) PROVE GatewayTypeOK'
  BY <1>4, BoundsAre DEF RestartService, FileType, Loading, Writing
<1>5. CASE UNCHANGED serviceVars
  BY <1>5 DEF serviceVars, gatewayVars
<1> QED BY <1>1, <1>2, <1>3, <1>4, <1>5 DEF ServiceStep

(* What it has loaded so far comes from the file as it was when it started, *)
(* or at least from versions that were asked for.                           *)
LoadedFound ==
  ~crossed => /\ file.value = found
              /\ child = "geolocalisation" => runs.active = found.active
              /\ child = "polling" => runs = found

LoadedVersions ==
  ~clash =>
    /\ wanted \in versions /\ file.value \in versions /\ FirstValue \in versions
    /\ child \in {"geolocalisation", "polling"} => \E v \in versions : runs.active = v.active
    /\ child = "polling" =>
         \E v \in versions : runs.lat = v.lat /\ runs.lon = v.lon

LEMMA LoadedFoundStep ==
  ASSUME WebTypes, GatewayTypeOK, LoadedFound, [ServiceStep]_serviceVars
  PROVE  LoadedFound'
<1> USE DEF GatewayTypeOK, WebTypes, LoadedFound
<1>1. CASE ToolStep
  BY <1>1 DEF ToolStep
<1>2. CASE LoadSection
  <2>1. file.value \in Value
    BY DEF FileType
  <2>2. [runs EXCEPT !.active = file.value.active].active = file.value.active
    BY <2>1 DEF Value
  <2>3. runs.active = file.value.active =>
          [file.value EXCEPT !.active = runs.active] = file.value
    BY <2>1 DEF Value
  <2> QED BY <1>2, <2>2, <2>3 DEF LoadSection, Loading, webVars
<1>3. CASE ChildFails \/ ParentReaps
  BY <1>3 DEF ChildFails, ParentReaps, webVars
<1>4. ASSUME NEW t \in Thread, RestartService(t) PROVE LoadedFound'
  BY <1>4 DEF RestartService
<1>5. CASE UNCHANGED serviceVars
  BY <1>5 DEF serviceVars, gatewayVars, webVars
<1> QED BY <1>1, <1>2, <1>3, <1>4, <1>5 DEF ServiceStep

(* The steps of the tool add to the versions, and what they put into the    *)
(* file while changes have not met is one of them.                          *)
LEMMA VersionsStep ==
  ASSUME WebTypes, SavedInv, ~clash',
         WebStep \/ (\E t \in Thread : RestartService(t)) \/ UNCHANGED webVars,
         ~clash => wanted \in versions /\ file.value \in versions
  PROVE  /\ ~clash /\ versions \subseteq versions'
         /\ wanted' \in versions' /\ file'.value \in versions'
<1> USE DEF WebTypes, FileType
<1>1. ~clash /\ Saving /\ wanted \in versions /\ file.value \in versions
  <2>1. clash => clash'
    BY DEF WebStep, Crash, PostDatastores, ApplyKey, UploadModule, SetMaps, OpenFile,
           Dump, Flush, Get, Wrapper, ConfigReload, RestartService, Changes, historyVars,
           FormBreaksOff, SaveFails, webVars, MapsType
  <2> QED BY <2>1 DEF SavedInv
<1>2. ASSUME NEW t \in Thread, Flush(t) PROVE file'.value = wanted
  <2>1. pc[t] \in {"flush", "reflush"} /\ file'.value = buffer[t]
    BY <1>2 DEF Flush, Goes
  <2>2. ~Applying
    BY <1>1, <2>1 DEF Applying, Saving, AppliesAlone
  <2> QED BY <1>1, <2>1, <2>2 DEF Saving
<1>3. ASSUME NEW t \in Thread, OpenFile(t) \/ SaveFails(t) PROVE file'.value = file.value
  BY <1>3 DEF OpenFile, SaveFails
<1>4. ASSUME ~ \E t \in Thread : Flush(t) \/ OpenFile(t) \/ SaveFails(t) PROVE file' = file
  BY <1>4 DEF WebStep, Crash, PostDatastores, ApplyKey, UploadModule, SetMaps,
              FormBreaksOff, mapVars, Dump, Get, Wrapper, ConfigReload, RestartService, webVars
<1>5. file'.value \in {wanted, file.value}
  BY <1>2, <1>3, <1>4
<1>6. \/ wanted' = wanted /\ versions' = versions
      \/ versions' = versions \cup {wanted'}
  BY DEF WebStep, Crash, PostDatastores, ApplyKey, UploadModule, SetMaps, OpenFile,
         Dump, Flush, Get, Wrapper, ConfigReload, RestartService, Changes, historyVars,
         FormBreaksOff, SaveFails, webVars
<1> QED BY <1>1, <1>5, <1>6

LEMMA LoadedVersionsStep ==
  ASSUME WebTypes, SavedInv, GatewayTypeOK, LoadedVersions, [ServiceStep]_serviceVars
  PROVE  LoadedVersions'
<1> SUFFICES ASSUME ~clash' PROVE LoadedVersions'
  BY DEF LoadedVersions
<1> USE DEF GatewayTypeOK, WebTypes, LoadedVersions
<1>0. /\ ~clash /\ versions \subseteq versions'
      /\ wanted' \in versions' /\ file'.value \in versions'
  <2>1. WebStep \/ (\E t \in Thread : RestartService(t)) \/ UNCHANGED webVars
    BY DEF ServiceStep, ToolStep, LoadSection, ChildFails, ParentReaps, serviceVars
  <2> QED BY <2>1, VersionsStep
<1>1. CASE ToolStep
  BY <1>0, <1>1 DEF ToolStep
<1>2. CASE LoadSection
  <2>1. file.value \in Value /\ file.value \in versions
    BY <1>0 DEF FileType
  <2>2. /\ [runs EXCEPT !.active = file.value.active].active = file.value.active
        /\ [file.value EXCEPT !.active = runs.active].active = runs.active
        /\ [file.value EXCEPT !.active = runs.active].lat = file.value.lat
        /\ [file.value EXCEPT !.active = runs.active].lon = file.value.lon
    BY <2>1 DEF Value
  <2> QED BY <1>0, <1>2, <2>1, <2>2 DEF LoadSection, Loading, webVars
<1>3. CASE ChildFails \/ ParentReaps
  BY <1>0, <1>3 DEF ChildFails, ParentReaps, webVars
<1>4. ASSUME NEW t \in Thread, RestartService(t) PROVE LoadedVersions'
  BY <1>0, <1>4 DEF RestartService
<1>5. CASE UNCHANGED serviceVars
  BY <1>5 DEF serviceVars, gatewayVars, webVars, historyVars
<1> QED BY <1>1, <1>2, <1>3, <1>4, <1>5 DEF ServiceStep

ServiceInv ==
  WebTypeOK /\ GatewayTypeOK /\ SavedInv /\ LoadedFound /\ LoadedVersions

LEMMA ServiceInvInit == ServiceInit => ServiceInv
<1> SUFFICES ASSUME ServiceInit PROVE ServiceInv
  OBVIOUS
<1>1. WebTypeOK /\ SavedInv
  BY WebTypeInit, SavedInvInit DEF ServiceInit
<1>2. GatewayTypeOK
  BY BoundsAre DEF ServiceInit, GatewayInit, GatewayTypeOK, Loading
<1>3. LoadedFound /\ LoadedVersions
  BY DEF ServiceInit, WebInit, GatewayInit, LoadedFound, LoadedVersions
<1> QED BY <1>1, <1>2, <1>3 DEF ServiceInv

LEMMA ServiceInvStep == ServiceInv /\ [ServiceStep]_serviceVars => ServiceInv'
<1> SUFFICES ASSUME ServiceInv, [ServiceStep]_serviceVars PROVE ServiceInv'
  OBVIOUS
<1>1. WebTypes
  BY WebTypesAre DEF ServiceInv
<1>2. WebStep \/ (\E t \in Thread : RestartService(t)) \/ UNCHANGED webVars
  BY DEF ServiceStep, ToolStep, LoadSection, ChildFails, ParentReaps, serviceVars
<1>3. WebTypeOK'
  BY <1>2, WebTypeStep DEF ServiceInv
<1>4. EmptyWhileWritten' /\ ModifiedIsSeen'
  BY <1>1, <1>2, EmptyModifiedStep DEF ServiceInv, SavedInv
<1>5. ~clash' => Saving'
  BY <1>1, <1>2, SavingStep DEF ServiceInv
<1>6. GatewayTypeOK' /\ LoadedFound' /\ LoadedVersions'
  BY <1>1, GatewayTypeStep, LoadedFoundStep, LoadedVersionsStep DEF ServiceInv
<1> QED BY <1>3, <1>4, <1>5, <1>6 DEF ServiceInv, SavedInv

LEMMA SavedAtRest == ServiceInv => SavedWhole
<1> SUFFICES ASSUME ServiceInv, AtRest PROVE SavedWhole
  BY DEF SavedWhole
<1>1. /\ crashes = 0 /\ failures = 0 => file.text # "empty"
      /\ modified \/ unsaved => failures # 0
  BY DEF ServiceInv, SavedInv, EmptyWhileWritten, ModifiedIsSeen, Writing, AtRest
<1>2. failures # 0 => failures > 0
  BY BoundsAre, WebTypesAre DEF ServiceInv, WebTypes, FailureType
<1>3. ASSUME ~clash
      PROVE  /\ heap[current] = wanted
             /\ \/ modified \/ unsaved
                \/ file = [text |-> "whole", value |-> wanted]
  <2>1. /\ heap[current] = wanted
        /\ ~modified /\ ~unsaved => file.text = "whole" /\ file.value = wanted
    BY <1>3, WantedAtRest DEF ServiceInv
  <2>2. file \in [text : {"whole", "empty", "tailed"}, value : Value]
    BY WebTypesAre DEF ServiceInv, WebTypes, FileType
  <2>3. file.text = "whole" /\ file.value = wanted
          => file = [text |-> "whole", value |-> wanted]
    BY <2>2
  <2> QED BY <2>1, <2>3
<1> QED BY <1>1, <1>2, <1>3 DEF SavedWhole

(* Changes that did not meet leave in the maps of the tool what the last of *)
(* them asked for, for any number of threads, forms, failing saves and      *)
(* requests that only read among them; and in the file, too, if no save     *)
(* failed that was not repeated.  Only a failure leaves the flag set that   *)
(* has a save repeated, and only a failure or a death of the tool leaves a  *)
(* file without a document, however requests meet (post_datastores,         *)
(* upload_module, store_json and the wrapper of the routes).                *)
THEOREM ConfigurationIsSaved == ServiceSpec => []SavedWhole
BY SavedAtRest, ServiceInvInit, ServiceInvStep, PTL DEF ServiceSpec

LEMMA RunsLoaded == ServiceInv => RunsAsSaved
BY DEF ServiceInv, LoadedFound, LoadedVersions, RunsAsSaved

(* A gateway that polls runs with the file that it was started on, or, if   *)
(* the file was written while it loaded its sections, with datastores and   *)
(* with coordinates that were each asked for together, whenever it reads    *)
(* and however often it is restarted (load_datastores, load_geoloc,         *)
(* restart_service).                                                        *)
THEOREM GatewayRunsAsSaved == ServiceSpec => []RunsAsSaved
BY RunsLoaded, ServiceInvInit, ServiceInvStep, PTL DEF ServiceSpec

-----------------------------------------------------------------------------
(* The receiver of the radio link.                                          *)

(* LinkTypeOK, with what makes it inductive: a frame that is as sent so far *)
(* is neither misread nor whole, and one that is arriving has begun.        *)
LinkTypes ==
  /\ port \in Seq(Byte) /\ last \in Byte \cup {Filler}
  /\ frames \in 0 .. MaxFrames /\ arriving \in {0} \cup 2 .. Size
  /\ losses \in 0 .. MaxLost
  /\ damaged \subseteq 1 .. frames /\ alone \subseteq 1 .. frames
  /\ misread \in 0 .. MaxRead /\ draining \in BOOLEAN /\ overrun \in BOOLEAN
  /\ delivered \in Seq(1 .. MaxFrames)
  /\ last # Filler => misread = 0 /\ last[2] < Size /\ ~draining /\ ~overrun
  /\ arriving # 0 => frames > 0

Before(a, b) == a[1] < b[1] \/ (a[1] = b[1] /\ a[2] < b[2])

(* The bytes come in the order of the frames, and what is left of them is   *)
(* behind every frame that was delivered.                                   *)
InOrder ==
  /\ \A i, j \in DOMAIN port : i < j => Before(port[i], port[j])
  /\ \A i \in DOMAIN port :
       /\ port[i][1] <= frames
       /\ port[i][1] = frames /\ arriving # 0 => port[i][2] < arriving

Behind ==
  \A i \in DOMAIN delivered :
    /\ \A j \in DOMAIN port : delivered[i] < port[j][1]
    /\ last # Filler => delivered[i] < last[1]
    /\ delivered[i] <= frames /\ (arriving # 0 => delivered[i] < frames)

Increasing == \A i, j \in DOMAIN delivered : i < j => delivered[i] < delivered[j]

(* A frame of which the receiver has read p bytes, the others being in the  *)
(* port or still to arrive, none of them lost.                              *)
Read(f, p) ==
  /\ ~draining /\ ~overrun /\ misread = 0
  /\ last = IF p = 0 THEN Filler ELSE << f, p >>
Ahead(f, p) ==
  IF f = frames /\ arriving # 0
  THEN Len(port) = arriving - 1 - p /\ \A i \in DOMAIN port : port[i] = << f, p + i >>
  ELSE Len(port) >= Size - p /\ \A i \in 1 .. Size - p : port[i] = << f, p + i >>
UnderWay(f) == \E p \in 0 .. Size - 1 : Read(f, p) /\ Ahead(f, p)

AloneComes == \A f \in alone \ damaged : Delivered(f) \/ UnderWay(f)

(* Without losses the receiver is in step with the sender: the bytes of the *)
(* port go on from the last one that was read to the next one to come.      *)
Follows(b) == IF b[2] = Size THEN << b[1] + 1, 1 >> ELSE << b[1], b[2] + 1 >>
Due == IF last = Filler THEN << Len(delivered) + 1, 1 >> ELSE Follows(last)
Coming == IF arriving = 0 THEN << frames + 1, 1 >> ELSE << frames, arriving >>

InStep ==
  /\ misread = 0 /\ ~overrun /\ ~draining
  /\ \A i \in 1 .. Len(port) - 1 : port[i + 1] = Follows(port[i])
  /\ IF port = << >> THEN Due = Coming
     ELSE port[1] = Due /\ Follows(port[Len(port)]) = Coming
  /\ last # Filler => last[1] = Len(delivered) + 1
  /\ \A k \in DOMAIN delivered : delivered[k] = k

KeepsToFrames == damaged = {} => InStep

LinkInv ==
  LinkTypes /\ InOrder /\ Behind /\ Increasing /\ AloneComes /\ KeepsToFrames

LEMMA TailIs ==
  ASSUME NEW S, NEW s \in Seq(S), s # << >>
  PROVE  /\ Len(s) \in Nat \ {0} /\ Tail(s) \in Seq(S) /\ Len(Tail(s)) = Len(s) - 1
         /\ \A i \in 1 .. Len(s) - 1 : Tail(s)[i] = s[i + 1]
         /\ Head(s) = s[1] /\ s[1] \in S
BY EmptySeq, HeadTailProperties

LEMMA BytesAre ==
  /\ Filler \notin Byte /\ Filler[1] = 0 /\ Filler[2] = 0
  /\ \A b \in Byte : b[1] \in 1 .. MaxFrames /\ b[2] \in 1 .. Size /\ b = << b[1], b[2] >>
  /\ Size \in Nat /\ Size > 4 /\ MaxFrames \in Nat /\ MaxLost \in Nat
  /\ MaxRead \in Nat /\ MaxRead > 1 /\ Lookalike \subseteq 4 .. Size - 1
BY XBeeLinkAssumption DEF Filler, Byte

(* What a step of the receiver does, as far as its bytes go: it leaves the  *)
(* frame or stays outside, goes on with it, or hands it to run.             *)
Keeps ==
  /\ last' = port[1] /\ last' # Filler /\ last'[2] < Size /\ delivered' = delivered
  /\ misread' = 0 /\ ~draining' /\ ~overrun'
HandsOver ==
  /\ last # Filler /\ port[1] = << last[1], Size >> /\ last' = Filler
  /\ delivered' = Append(delivered, last[1])

LEMMA ReceiveCases ==
  ASSUME LinkTypes, Receive
  PROVE  /\ port' = port \/ (port # << >> /\ port' = Tail(port))
         /\ draining' \in BOOLEAN /\ overrun' \in BOOLEAN /\ misread' \in 0 .. MaxRead
         /\ \/ last' = Filler /\ delivered' = delivered
            \/ port # << >> /\ port' = Tail(port) /\ Keeps
            \/ port # << >> /\ port' = Tail(port) /\ HandsOver
<1>0. /\ port # << >> => Head(port) = port[1] /\ port[1] \in Byte
      /\ draining \in BOOLEAN /\ overrun \in BOOLEAN /\ misread \in 0 .. MaxRead
      /\ Filler \notin Byte /\ MaxRead \in Nat /\ Size \in Nat /\ Size > 4
      /\ \A b \in Byte : b[1] \in 1 .. MaxFrames /\ b[2] \in 1 .. Size
  BY TailIs, BytesAre DEF LinkTypes
<1>6. ASSUME NEW least \in Nat, Misled(least)
      PROVE  /\ draining' \in BOOLEAN /\ overrun' \in BOOLEAN /\ misread' \in 0 .. MaxRead
             /\ last' = Filler /\ delivered' = delivered
  <2>1. last' = Filler /\ delivered' = delivered
    BY <1>6 DEF Misled
  <2>2. CASE overrun' = TRUE /\ UNCHANGED << misread, draining >>
    BY <1>0, <2>1, <2>2
  <2>3. CASE overrun' = overrun /\ \E n \in least .. MaxRead : Misreads(n)
    <3>1. PICK n \in 0 .. MaxRead : Misreads(n)
      BY <1>0, <2>3
    <3>2. misread' = n /\ (draining' \in BOOLEAN \/ draining' = draining)
      BY <3>1 DEF Misreads
    <3> QED BY <1>0, <2>1, <2>3, <3>2
  <2> QED BY <1>6, <2>2, <2>3 DEF Misled
<1>2. CASE ReadDelimiter
  <2>1. port # << >> /\ port' = Tail(port) /\ last = Filler /\ ~draining /\ ~overrun
        /\ misread = 0
    BY <1>0, <1>2 DEF ReadDelimiter, Woken, Reading
  <2>2. CASE port[1][2] = 1 /\ last' = port[1] /\ UNCHANGED << misread, overrun, draining, delivered >>
    BY <1>0, <2>1, <2>2 DEF Keeps
  <2>3. CASE Misled(2)
    BY <1>6, <2>1, <2>3
  <2>4. CASE UNCHANGED readVars
    BY <1>0, <2>1, <2>4 DEF readVars
  <2> QED BY <1>0, <1>2, <2>1, <2>2, <2>3, <2>4 DEF ReadDelimiter
<1>3. ASSUME NEW b \in Byte \cup {Filler}, Reading, Take(b), port' = port \/ port # << >>,
             b # Filler => port # << >> /\ b = port[1] /\ port' = Tail(port)
      PROVE  /\ draining' \in BOOLEAN /\ overrun' \in BOOLEAN /\ misread' \in 0 .. MaxRead
             /\ \/ last' = Filler /\ delivered' = delivered
                \/ port # << >> /\ port' = Tail(port) /\ Keeps
                \/ port # << >> /\ port' = Tail(port) /\ HandsOver
  <2>0. /\ last # Filler => last \in Byte /\ misread = 0 /\ last[2] < Size /\ ~draining
                            /\ ~overrun
        /\ last = Filler => misread > 0
    BY <1>3 DEF LinkTypes, Reading
  <2>1. CASE last # Filler /\ b = << last[1], last[2] + 1 >>
    <3>1. b # Filler /\ b[2] = last[2] + 1 /\ b[1] = last[1]
      BY <1>0, <2>0, <2>1 DEF Filler
    <3>2. b \in Byte /\ b[2] \in 1 .. Size
      BY <1>0, <3>1
    <3>3. UNCHANGED << misread, overrun, draining >>
      BY <1>3, <2>1 DEF Take
    <3>4. CASE b[2] = Size
      BY <1>0, <1>3, <2>0, <2>1, <3>1, <3>3, <3>4 DEF Take, HandsOver
    <3>5. CASE b[2] # Size
      <4>1. last' = b /\ delivered' = delivered
        BY <1>3, <2>1, <3>5 DEF Take
      <4>2. last' # Filler /\ last'[2] < Size
        BY <1>0, <3>1, <3>2, <3>5, <4>1
      <4>3. misread' = 0 /\ ~draining' /\ ~overrun'
        BY <2>0, <2>1, <3>3
      <4> QED BY <1>0, <1>3, <2>0, <3>1, <3>3, <4>1, <4>2, <4>3 DEF Keeps
    <3> QED BY <3>4, <3>5
  <2>2. CASE last # Filler /\ b # << last[1], last[2] + 1 >>
    <3>1. CASE last[2] = Size - 1
      BY <1>0, <1>3, <2>2, <3>1 DEF Take
    <3>2. CASE last[2] # Size - 1
      <4>1. Misled(0)
        BY <1>3, <2>2, <3>2 DEF Take
      <4> QED BY <1>6, <4>1
    <3> QED BY <3>1, <3>2
  <2>3. CASE last = Filler
    BY <1>0, <1>3, <2>0, <2>3 DEF Take, Misreads
  <2> QED BY <2>1, <2>2, <2>3
<1>4. CASE ReadByte
  <2>1. CASE port # << >>
    BY <1>0, <1>3, <1>4, <2>1 DEF ReadByte, InFrame
  <2>2. CASE port = << >>
    BY <1>3, <1>4, <2>2 DEF ReadByte, InFrame
  <2> QED BY <2>1, <2>2
<1>5. CASE Drain
  <2>1. draining = TRUE /\ last = Filler
    BY <1>5 DEF Drain, Drains, LinkTypes
  <2> QED BY <1>0, <1>5, <2>1 DEF Drain
<1> QED BY <1>2, <1>4, <1>5 DEF Receive

LEMMA LinkInvInit == LinkInit => LinkInv
<1> SUFFICES ASSUME LinkInit PROVE LinkInv
  OBVIOUS
<1> USE BytesAre DEF LinkInit
<1>1. port \in Seq(Byte) /\ delivered \in Seq(1 .. MaxFrames)
  OBVIOUS
<1>2. misread \in 0 .. MaxRead /\ losses \in 0 .. MaxLost /\ frames \in 0 .. MaxFrames
  OBVIOUS
<1>3. LinkTypes
  BY <1>1, <1>2 DEF LinkTypes
<1>4. KeepsToFrames
  BY DEF KeepsToFrames, InStep, Due, Coming
<1> QED BY <1>3, <1>4 DEF LinkInv, InOrder, Behind, Increasing, AloneComes

(* The bytes that are left come in the order of the frames.                 *)
LEMMA InOrderStep ==
  ASSUME LinkTypes, InOrder, [LinkStep]_linkVars
  PROVE  InOrder'
<1> USE DEF LinkTypes, InOrder
<1>0. Size \in Nat /\ Size > 4 /\ MaxFrames \in Nat
  BY BytesAre
<1>1. ASSUME Receive, UNCHANGED << frames, arriving >> PROVE InOrder'
  <2>1. CASE port' = port
    BY <1>1, <2>1
  <2>2. CASE port # << >> /\ port' = Tail(port)
    <3>1. /\ Len(port) \in Nat \ {0} /\ DOMAIN port' = 1 .. Len(port) - 1
          /\ \A i \in 1 .. Len(port) - 1 : port'[i] = port[i + 1]
      BY <2>2, TailIs
    <3>2. \A i \in DOMAIN port' : i + 1 \in DOMAIN port
      BY <3>1
    <3>3. \A i, j \in DOMAIN port' : i < j => Before(port'[i], port'[j])
      <4> TAKE i, j \in DOMAIN port'
      <4> HAVE i < j
      <4>1. i + 1 < j + 1 /\ port'[i] = port[i + 1] /\ port'[j] = port[j + 1]
        BY <3>1
      <4> QED BY <3>2, <4>1
    <3> QED BY <1>1, <3>1, <3>2, <3>3
  <2> QED BY <1>1, <2>1, <2>2, ReceiveCases
<1>2. ASSUME ByteArrives PROVE InOrder'
  <2>1. PICK first \in BOOLEAN :
          /\ IF first THEN arriving = 0 /\ frames < MaxFrames ELSE arriving # 0
          /\ frames' = IF first THEN frames + 1 ELSE frames
          /\ LET place == IF first THEN 1 ELSE arriving
             IN  /\ arriving' = IF place = Size THEN 0 ELSE place + 1
                 /\ port' \in {port, Append(port, << frames', place >>)}
    BY <1>0, <1>2 DEF ByteArrives
  <2>2. PICK place \in 1 .. Size :
          /\ place = IF first THEN 1 ELSE arriving
          /\ arriving' = IF place = Size THEN 0 ELSE place + 1
          /\ port' \in {port, Append(port, << frames', place >>)}
    BY <1>0, <2>1
  <2>3. PICK f \in 1 .. MaxFrames : f = frames'
    BY <1>0, <2>1
  <2>0. /\ \A i \in DOMAIN port : port[i][1] \in 1 .. MaxFrames /\ port[i][2] \in 1 .. Size
        /\ DOMAIN port = 1 .. Len(port) /\ Len(port) \in Nat
    BY BytesAre
  <2>4. \A i \in DOMAIN port : port[i][1] <= f /\ (port[i][1] = f => port[i][2] < place)
    <3>1. CASE first
      BY <2>0, <1>0, <2>1, <2>2, <2>3, <3>1
    <3>2. CASE ~first
      BY <2>0, <1>0, <2>1, <2>2, <2>3, <3>2
    <3> QED BY <3>1, <3>2
  <2>5. CASE port' = port
    <3>1. \A i \in DOMAIN port : port[i][1] = f /\ arriving' # 0 => port[i][2] < arriving'
      BY <1>0, <2>0, <2>2, <2>4
    <3> QED BY <2>3, <2>4, <2>5, <3>1
  <2>6. CASE port' = Append(port, << f, place >>)
    <3>1. /\ DOMAIN port' = 1 .. Len(port) + 1 /\ DOMAIN port = 1 .. Len(port)
          /\ Len(port) \in Nat
          /\ \A i \in 1 .. Len(port) : port'[i] = port[i]
          /\ port'[Len(port) + 1] = << f, place >>
      BY <2>6
    <3>2. \A i \in DOMAIN port :
            Before(port[i], << f, place >>)
      BY <2>0, <2>3, <2>4 DEF Before
    <3>3. \A i, j \in DOMAIN port' : i < j => Before(port'[i], port'[j])
      <4> TAKE i, j \in DOMAIN port'
      <4> HAVE i < j
      <4>0. i \in 1 .. Len(port) + 1 /\ j \in 1 .. Len(port) + 1
        BY <3>1
      <4>1. i \in DOMAIN port /\ port'[i] = port[i]
        BY <3>1, <4>0
      <4>2. CASE j = Len(port) + 1
        BY <3>1, <3>2, <4>1, <4>2
      <4>3. CASE j # Len(port) + 1
        <5>1. j \in DOMAIN port /\ port'[j] = port[j]
          BY <3>1, <4>0, <4>3
        <5> QED BY <4>1, <5>1
      <4> QED BY <4>2, <4>3
    <3>4. \A i \in DOMAIN port' :
            /\ port'[i][1] <= frames'
            /\ port'[i][1] = frames' /\ arriving' # 0 => port'[i][2] < arriving'
      <4> TAKE i \in DOMAIN port'
      <4>1. CASE i = Len(port) + 1
        <5>1. port'[i][1] = frames' /\ port'[i][2] = place /\ frames' \in Nat
          BY <1>0, <2>3, <3>1, <4>1
        <5> QED BY <1>0, <2>2, <5>1
      <4>2. CASE i # Len(port) + 1
        <5>0. frames' \in Nat
          BY <1>0, <2>3
        <5>1. i \in DOMAIN port /\ port'[i] = port[i]
          BY <3>1, <4>2
        <5>2. port[i][2] \in 1 .. Size /\ port[i][1] \in 1 .. MaxFrames
          BY <2>0, <5>1
        <5>3. port[i][1] <= frames' /\ (port[i][1] = frames' => port[i][2] < place)
          BY <2>3, <2>4, <5>1, <5>2
        <5> QED BY <1>0, <2>2, <5>0, <5>1, <5>2, <5>3
      <4> QED BY <4>1, <4>2
    <3> HIDE DEF LinkTypes
    <3> QED BY <3>3, <3>4
  <2> QED BY <2>2, <2>3, <2>5, <2>6
<1>3. CASE UNCHANGED linkVars
  BY <1>3 DEF linkVars, readVars
<1> QED BY <1>1, <1>2, <1>3 DEF LinkStep

(* A byte that arrives, at its place, or is lost.                           *)
Arrives(first, place) ==
  /\ place = IF first THEN 1 ELSE arriving
  /\ arriving' = IF place = Size THEN 0 ELSE place + 1
  /\ IF first THEN arriving = 0 /\ frames < MaxFrames ELSE arriving # 0
  /\ frames' = IF first THEN frames + 1 ELSE frames
  /\ alone' = IF first /\ ~Busy THEN alone \cup {frames'} ELSE alone
  /\ \/ port' = Append(port, << frames', place >>) /\ UNCHANGED << losses, damaged >>
     \/ /\ losses < MaxLost /\ losses' = losses + 1
        /\ damaged' = damaged \cup {frames'} /\ port' = port
  /\ UNCHANGED readVars

LEMMA ArrivalIs ==
  ASSUME LinkTypes, ByteArrives
  PROVE  /\ \E first \in BOOLEAN, place \in 1 .. Size : Arrives(first, place)
         /\ frames' \in 1 .. MaxFrames /\ arriving' \in {0} \cup 2 .. Size
         /\ frames <= frames' /\ UNCHANGED readVars
<1>1. arriving \in {0} \cup 2 .. Size /\ frames \in 0 .. MaxFrames /\ Size \in Nat
      /\ Size > 4 /\ (arriving # 0 => frames > 0) /\ MaxFrames \in Nat
  BY BytesAre DEF LinkTypes
<1>2. PICK first \in BOOLEAN, place \in 1 .. Size : Arrives(first, place)
  <2>1. PICK first \in BOOLEAN :
    /\ IF first THEN arriving = 0 /\ frames < MaxFrames ELSE arriving # 0
    /\ frames' = IF first THEN frames + 1 ELSE frames
    /\ alone' = IF first /\ ~Busy THEN alone \cup {frames'} ELSE alone
    /\ LET place == IF first THEN 1 ELSE arriving
       IN  /\ arriving' = IF place = Size THEN 0 ELSE place + 1
           /\ \/ port' = Append(port, << frames', place >>)
                 /\ UNCHANGED << losses, damaged >>
              \/ /\ losses < MaxLost /\ losses' = losses + 1
                 /\ damaged' = damaged \cup {frames'}
                 /\ UNCHANGED port
    /\ UNCHANGED readVars
    BY DEF ByteArrives
  <2>2. PICK place \in 1 .. Size : place = IF first THEN 1 ELSE arriving
    BY <1>1, <2>1
  <2>3. Arrives(first, place)
    BY <2>1, <2>2 DEF Arrives
  <2> QED BY <2>3
<1>3. frames' \in 1 .. MaxFrames /\ arriving' \in {0} \cup 2 .. Size /\ frames <= frames'
  BY <1>1, <1>2 DEF Arrives
<1>4. UNCHANGED readVars
  BY <1>2 DEF Arrives
<1> QED BY <1>2, <1>3, <1>4

LEMMA LinkTypesStep ==
  ASSUME LinkTypes, [LinkStep]_linkVars
  PROVE  LinkTypes'
<1>0. /\ Size \in Nat /\ Size > 4 /\ MaxFrames \in Nat /\ MaxLost \in Nat
      /\ \A b \in Byte : b[1] \in 1 .. MaxFrames
  BY BytesAre
<1>1. ASSUME Receive, UNCHANGED << frames, arriving, losses, damaged, alone >>
      PROVE  LinkTypes'
  <2>1. port' \in Seq(Byte) /\ (port # << >> => port[1] \in Byte)
    BY <1>1, ReceiveCases, TailIs DEF LinkTypes
  <2>2. delivered \in Seq(1 .. MaxFrames) /\ last \in Byte \cup {Filler}
    BY DEF LinkTypes
  <2>3. /\ last' \in Byte \cup {Filler} /\ delivered' \in Seq(1 .. MaxFrames)
        /\ last' # Filler => misread' = 0 /\ last'[2] < Size /\ ~draining' /\ ~overrun'
    <3>1. CASE last' = Filler /\ delivered' = delivered
      BY <2>2, <3>1
    <3>2. CASE port # << >> /\ Keeps
      BY <2>1, <2>2, <3>2 DEF Keeps
    <3>3. CASE HandsOver
      <4>1. last[1] \in 1 .. MaxFrames
        BY <1>0, <2>2, <3>3 DEF HandsOver
      <4> QED BY <2>2, <3>3, <4>1 DEF HandsOver
    <3> QED BY <1>1, <3>1, <3>2, <3>3, ReceiveCases
  <2> QED BY <1>1, <2>1, <2>3, ReceiveCases DEF LinkTypes
<1>2. ASSUME ByteArrives PROVE LinkTypes'
  <2>1. PICK first \in BOOLEAN, place \in 1 .. Size : Arrives(first, place)
    BY <1>2, ArrivalIs
  <2>2. PICK f \in 1 .. MaxFrames : f = frames' /\ frames <= f
    BY <1>2, ArrivalIs
  <2>3. port' \in Seq(Byte)
    <3>1. << f, place >> \in Byte
      BY DEF Byte
    <3>2. port' \in {port, Append(port, << f, place >>)}
      BY <2>1, <2>2 DEF Arrives
    <3>3. port \in Seq(Byte)
      BY DEF LinkTypes
    <3> QED BY <3>1, <3>2, <3>3
  <2>4. damaged' \subseteq 1 .. f /\ alone' \subseteq 1 .. f
    <3>1. 1 .. frames \subseteq 1 .. f /\ f \in 1 .. f
      BY <1>0, <2>2 DEF LinkTypes
    <3>2. damaged' \subseteq damaged \cup {f} /\ alone' \subseteq alone \cup {f}
      BY <2>1, <2>2 DEF Arrives
    <3>3. damaged \subseteq 1 .. frames /\ alone \subseteq 1 .. frames
      BY DEF LinkTypes
    <3> QED BY <3>1, <3>2, <3>3
  <2>5. losses' \in 0 .. MaxLost
    BY <1>0, <2>1 DEF Arrives, LinkTypes
  <2> QED BY <1>2, <2>2, <2>3, <2>4, <2>5, ArrivalIs DEF LinkTypes, readVars
<1>3. CASE UNCHANGED linkVars
  BY <1>3 DEF linkVars, readVars, LinkTypes
<1> QED BY <1>1, <1>2, <1>3 DEF LinkStep

(* What is delivered is behind all that is left to read.                    *)
LEMMA BehindStep ==
  ASSUME LinkTypes, InOrder, Behind, Increasing, [LinkStep]_linkVars
  PROVE  Behind' /\ Increasing'
<1>0. Size \in Nat /\ Size > 4 /\ MaxFrames \in Nat
  BY BytesAre
<1>4. /\ \A j \in DOMAIN port : port[j] \in Byte /\ port[j][1] \in 1 .. MaxFrames
                              /\ port[j][2] \in 1 .. Size
      /\ \A i \in DOMAIN delivered : delivered[i] \in 1 .. MaxFrames
      /\ DOMAIN port = 1 .. Len(port) /\ Len(port) \in Nat
      /\ last # Filler => last[1] \in 1 .. MaxFrames
      /\ DOMAIN delivered = 1 .. Len(delivered) /\ Len(delivered) \in Nat
      /\ frames \in Nat
  BY BytesAre DEF LinkTypes
<1>1. ASSUME Receive, UNCHANGED << frames, arriving >> PROVE Behind' /\ Increasing'
  <2>1. \A j \in DOMAIN port' : \E k \in DOMAIN port : port'[j] = port[k]
    <3>1. CASE port' = port
      BY <3>1
    <3>2. CASE port # << >> /\ port' = Tail(port)
      <4>1. DOMAIN port' = 1 .. Len(port) - 1
            /\ \A i \in 1 .. Len(port) - 1 : port'[i] = port[i + 1]
        BY <3>2, TailIs DEF LinkTypes
      <4>2. \A j \in DOMAIN port' : j + 1 \in DOMAIN port
        BY <1>4, <4>1
      <4> QED BY <4>1, <4>2
    <3> QED BY <1>1, <3>1, <3>2, ReceiveCases
  <2>2. port # << >> => 1 \in DOMAIN port
    BY <1>4, EmptySeq DEF LinkTypes
  <2>3. CASE last' = Filler /\ delivered' = delivered
    BY <1>1, <2>1, <2>3 DEF Behind, Increasing
  <2>5. CASE port # << >> /\ port' = Tail(port) /\ Keeps
    <3>1. delivered' = delivered /\ last' = port[1]
      BY <2>5 DEF Keeps
    <3> QED BY <1>1, <2>1, <2>2, <2>5, <3>1 DEF Behind, Increasing
  <2>4. CASE port # << >> /\ port' = Tail(port) /\ HandsOver
    <3>1. PICK f \in 1 .. MaxFrames : f = last[1]
      BY <1>4, <2>4 DEF HandsOver
    <3>2. delivered' = Append(delivered, f) /\ last' = Filler
      BY <2>4, <3>1 DEF HandsOver
    <3>3. port[1] = << f, Size >>
      BY <2>4, <3>1 DEF HandsOver
    <3>4. \A i \in DOMAIN delivered : delivered[i] < f
      BY <2>4, <3>1 DEF Behind, HandsOver
    <3>5. \A k \in DOMAIN port : k # 1 => f < port[k][1]
      <4> TAKE k \in DOMAIN port
      <4> HAVE k # 1
      <4>1. Before(port[1], port[k])
        BY <1>4, <2>2, <2>4 DEF InOrder
      <4>2. port[k][2] \in 1 .. Size /\ port[1][1] = f /\ port[1][2] = Size
            /\ port[k][1] \in 1 .. MaxFrames
        BY <1>4, <3>3
      <4> QED BY <1>0, <4>1, <4>2 DEF Before
    <3>6. \A j \in DOMAIN port' : f < port'[j][1]
      <4>1. DOMAIN port' = 1 .. Len(port) - 1
            /\ \A i \in 1 .. Len(port) - 1 : port'[i] = port[i + 1]
        BY <2>4, TailIs DEF LinkTypes
      <4>2. \A j \in DOMAIN port' : j + 1 \in DOMAIN port /\ j + 1 # 1
        BY <1>4, <4>1
      <4> QED BY <3>5, <4>1, <4>2
    <3>7. f <= frames /\ (arriving # 0 => f < frames)
      <4>1. /\ port[1][1] <= frames /\ port[1][1] = f /\ port[1][2] = Size
            /\ (port[1][1] = frames /\ arriving # 0 => port[1][2] < arriving)
        BY <2>2, <2>4, <3>3 DEF InOrder
      <4>2. arriving # 0 => arriving \in 2 .. Size
        BY DEF LinkTypes
      <4> QED BY <1>0, <1>4, <4>1, <4>2
    <3>8. /\ DOMAIN delivered' = 1 .. Len(delivered) + 1
          /\ \A i \in DOMAIN delivered : delivered'[i] = delivered[i]
          /\ delivered'[Len(delivered) + 1] = f
      BY <3>2 DEF LinkTypes
    <3>9. \A i \in DOMAIN delivered' :
            (i \in DOMAIN delivered /\ delivered'[i] = delivered[i])
              \/ (i = Len(delivered) + 1 /\ delivered'[i] = f)
      BY <1>4, <3>8
    <3>10. \A i \in DOMAIN delivered' : delivered'[i] <= f
      BY <1>4, <3>4, <3>9
    <3>11. Behind'
      <4> SUFFICES ASSUME NEW i \in DOMAIN delivered'
                   PROVE  /\ \A j \in DOMAIN port' : delivered'[i] < port'[j][1]
                          /\ delivered'[i] <= frames'
                          /\ arriving' # 0 => delivered'[i] < frames'
        BY <3>2 DEF Behind
      <4>1. PICK d \in 1 .. MaxFrames : d = delivered'[i] /\ d <= f
        BY <1>4, <3>9, <3>10
      <4>2. \A j \in DOMAIN port' : port'[j][1] \in 1 .. MaxFrames
        BY <1>4, <2>1
      <4>3. \A j \in DOMAIN port' : d < port'[j][1]
        BY <3>6, <4>1, <4>2
      <4> QED BY <1>1, <1>4, <3>7, <4>1, <4>3
    <3>12. Increasing'
      <4> SUFFICES ASSUME NEW i \in DOMAIN delivered', NEW j \in DOMAIN delivered', i < j
                   PROVE  delivered'[i] < delivered'[j]
        BY DEF Increasing
      <4>0. i \in 1 .. Len(delivered) + 1 /\ j \in 1 .. Len(delivered) + 1
        BY <3>8
      <4>1. i \in DOMAIN delivered /\ delivered'[i] = delivered[i]
        BY <1>4, <3>9, <4>0
      <4> QED BY <1>4, <3>4, <3>9, <4>0, <4>1 DEF Increasing
    <3> QED BY <3>11, <3>12
  <2> QED BY <1>1, <2>3, <2>4, <2>5, ReceiveCases
<1>2. ASSUME ByteArrives PROVE Behind' /\ Increasing'
  <2>1. PICK first \in BOOLEAN, place \in 1 .. Size : Arrives(first, place)
    BY <1>2, ArrivalIs
  <2>2. PICK f \in 1 .. MaxFrames : f = frames' /\ frames <= f
    BY <1>2, ArrivalIs
  <2>3. UNCHANGED << last, delivered >>
    BY <1>2, ArrivalIs DEF readVars
  <2>4. \A i \in DOMAIN delivered : delivered[i] < f
    <3>1. CASE first
      BY <1>4, <2>1, <2>2, <3>1 DEF Arrives, Behind
    <3>2. CASE ~first
      BY <1>4, <2>1, <2>2, <3>2 DEF Arrives, Behind
    <3> QED BY <3>1, <3>2
  <2>5. \A j \in DOMAIN port' :
          (j \in DOMAIN port /\ port'[j] = port[j]) \/ port'[j] = << f, place >>
    <3>1. CASE port' = port
      BY <3>1
    <3>2. CASE port' = Append(port, << f, place >>)
      <4>1. /\ DOMAIN port' = 1 .. Len(port) + 1 /\ port'[Len(port) + 1] = << f, place >>
            /\ \A j \in 1 .. Len(port) : port'[j] = port[j]
        BY <1>4, <3>2 DEF LinkTypes
      <4> QED BY <1>4, <4>1
    <3> QED BY <2>1, <2>2, <3>1, <3>2 DEF Arrives
  <2>6. \A i \in DOMAIN delivered, j \in DOMAIN port' : delivered[i] < port'[j][1]
    BY <2>4, <2>5 DEF Behind
  <2> QED BY <1>4, <2>2, <2>3, <2>4, <2>6 DEF Behind, Increasing
<1>3. CASE UNCHANGED linkVars
  BY <1>3 DEF linkVars, readVars, Behind, Increasing
<1> QED BY <1>1, <1>2, <1>3 DEF LinkStep

(* A frame under way is never caught by a pause, and the last of its bytes  *)
(* completes it.                                                            *)
LEMMA UnderWayReceives ==
  ASSUME LinkTypes, NEW f \in 1 .. MaxFrames, UnderWay(f), Receive,
         UNCHANGED << frames, arriving >>
  PROVE  Delivered(f)' \/ UnderWay(f)'
<1>0. /\ Size \in Nat /\ Size > 4
      /\ port \in Seq(Byte) /\ last \in Byte \cup {Filler} /\ Filler \notin Byte
      /\ Len(port) \in Nat /\ DOMAIN port = 1 .. Len(port)
      /\ f \in Nat
  BY BytesAre DEF LinkTypes
<1>1. PICK p \in 0 .. Size - 1 : Read(f, p) /\ Ahead(f, p)
  BY DEF UnderWay
<1>2. /\ ~draining /\ ~overrun /\ misread = 0
      /\ IF p = 0 THEN last = Filler ELSE last = << f, p >> /\ last # Filler
  BY <1>0, <1>1 DEF Read, Filler
<1>3. port # << >>
  <2> SUFFICES ASSUME port = << >> PROVE FALSE
    OBVIOUS
  <2>1. Len(port) = 0
    OBVIOUS
  <2>2. arriving # 0
    BY <1>0, <1>1, <2>1 DEF Ahead
  <2> QED BY <1>2, <2>2 DEF Receive, ReadDelimiter, ReadByte, Drain, Woken, InFrame, Drains
<1>4. Len(port) > 0 /\ 1 \in DOMAIN port
  BY <1>0, <1>3, EmptySeq
<1>5. port[1] = << f, p + 1 >> /\ Head(port) = port[1]
  BY <1>0, <1>1, <1>3, <1>4, TailIs DEF Ahead
<1>6. port' = Tail(port)
  BY <1>2, <1>3 DEF Receive, ReadDelimiter, ReadByte, Drain, InFrame, Drains
<1>7. p + 1 < Size => Ahead(f, p + 1)'
  <2>1. /\ Len(port') = Len(port) - 1 /\ DOMAIN port' = 1 .. Len(port) - 1
        /\ \A i \in 1 .. Len(port) - 1 : port'[i] = port[i + 1]
    BY <1>0, <1>3, <1>6, TailIs
  <2>2. CASE f = frames /\ arriving # 0
    <3>1. Len(port) = arriving - 1 - p /\ \A i \in DOMAIN port : port[i] = << f, p + i >>
      BY <1>1, <2>2 DEF Ahead
    <3>2. arriving \in Nat
      BY <1>0, <2>2 DEF LinkTypes
    <3>3. \A i \in 1 .. Len(port) - 1 : i + 1 \in DOMAIN port /\ p + (i + 1) = (p + 1) + i
      BY <1>0
    <3>4. \A i \in DOMAIN port' : port'[i] = << f, (p + 1) + i >>
      BY <2>1, <3>1, <3>3
    <3>5. Len(port') = arriving - 1 - (p + 1)
      BY <1>0, <2>1, <3>1, <3>2
    <3> QED BY <2>2, <3>4, <3>5 DEF Ahead
  <2>3. CASE ~(f = frames /\ arriving # 0)
    <3>1. Len(port) >= Size - p /\ \A i \in 1 .. Size - p : port[i] = << f, p + i >>
      BY <1>1, <2>3 DEF Ahead
    <3>2. \A i \in 1 .. Size - (p + 1) : /\ i + 1 \in 1 .. Size - p /\ i \in 1 .. Len(port) - 1
                                       /\ p + (i + 1) = (p + 1) + i
      BY <1>0, <3>1
    <3>3. \A i \in 1 .. Size - (p + 1) : port'[i] = << f, (p + 1) + i >>
      BY <2>1, <3>1, <3>2
    <3>4. Len(port') >= Size - (p + 1)
      BY <1>0, <2>1, <3>1
    <3> QED BY <2>3, <3>3, <3>4 DEF Ahead
  <2> QED BY <2>2, <2>3
<1>8. ASSUME p + 1 < Size, last' = port[1], UNCHANGED << misread, overrun, draining >>
      PROVE  UnderWay(f)'
  <2>1. PICK q \in 0 .. Size - 1 : q = p + 1
    BY <1>0, <1>8
  <2>2. Ahead(f, q)'
    BY <1>7, <1>8, <2>1 DEF Ahead
  <2>3. Read(f, q)'
    BY <1>2, <1>5, <1>8, <2>1 DEF Read
  <2> QED BY <2>2, <2>3 DEF UnderWay
<1>9. CASE p = 0
  <2>0. ~Reading
    BY <1>2, <1>9 DEF Reading
  <2>1. ReadDelimiter
    BY <1>2, <2>0 DEF Receive, ReadByte, Drain, InFrame, Drains
  <2>2. port[1][2] = 1 /\ 1 \notin Lookalike
    BY <1>5, <1>9, BytesAre
  <2>3. last' = port[1] /\ UNCHANGED << misread, overrun, draining >>
    BY <1>5, <2>1, <2>2 DEF ReadDelimiter
  <2> QED BY <1>0, <1>8, <1>9, <2>3
<1>10. CASE p # 0
  <2>1. Take(port[1]) /\ last = << f, p >> /\ last # Filler
    BY <1>2, <1>3, <1>5, <1>10
    DEF Receive, ReadDelimiter, ReadByte, Drain, Woken, Drains, Reading
  <2>2. /\ port[1] = << last[1], last[2] + 1 >> /\ port[1][1] = f /\ port[1][2] = p + 1
        /\ UNCHANGED << misread, overrun, draining >>
        /\ IF p + 1 = Size THEN delivered' = Append(delivered, f) ELSE last' = port[1]
    BY <1>5, <2>1 DEF Take
  <2>3. CASE p + 1 = Size
    <3>1. Len(delivered) + 1 \in DOMAIN delivered' /\ delivered'[Len(delivered) + 1] = f
      BY <2>2, <2>3 DEF LinkTypes
    <3> QED BY <3>1 DEF Delivered
  <2>4. CASE p + 1 # Size
    BY <1>0, <1>8, <2>2, <2>4
  <2> QED BY <2>3, <2>4
<1> QED BY <1>9, <1>10

LEMMA UnderWayArrival ==
  ASSUME LinkTypes, NEW f \in 1 .. frames, UnderWay(f), ByteArrives, f \notin damaged'
  PROVE  UnderWay(f)'
<1>0. /\ Size \in Nat /\ Size > 4 /\ MaxFrames \in Nat /\ frames \in 0 .. MaxFrames
      /\ port \in Seq(Byte) /\ Len(port) \in Nat /\ DOMAIN port = 1 .. Len(port)
      /\ arriving \in {0} \cup 2 .. Size
  BY BytesAre DEF LinkTypes
<1>1. PICK p \in 0 .. Size - 1 : Read(f, p) /\ Ahead(f, p)
  BY DEF UnderWay
<1>2. PICK first \in BOOLEAN, place \in 1 .. Size : Arrives(first, place)
  BY ArrivalIs
<1>3. PICK g \in 1 .. MaxFrames : g = frames'
  BY ArrivalIs
<1>4. << g, place >> \in Byte
  BY DEF Byte
<1>5. Read(f, p)'
  BY <1>1, ArrivalIs DEF Read, readVars
<1>6. Ahead(f, p)'
  <2>1. CASE f = frames /\ arriving # 0
    <3>1. /\ ~first /\ g = f /\ place = arriving /\ frames' = f
          /\ arriving' = IF place = Size THEN 0 ELSE place + 1
      BY <1>2, <1>3, <2>1 DEF Arrives
    <3>2. port' = Append(port, << f, place >>)
      BY <1>2, <3>1 DEF Arrives
    <3>3. Len(port) = place - 1 - p /\ \A i \in DOMAIN port : port[i] = << f, p + i >>
      BY <1>1, <2>1, <3>1 DEF Ahead
    <3>4. /\ DOMAIN port' = 1 .. Len(port) + 1 /\ Len(port') = Len(port) + 1
          /\ \A i \in 1 .. Len(port) : port'[i] = port[i]
          /\ port'[Len(port) + 1] = << f, place >>
      BY <1>0, <1>4, <3>1, <3>2
    <3>5. p + (Len(port) + 1) = place /\ Len(port') = place - p
      BY <1>0, <3>3, <3>4
    <3>6. \A i \in 1 .. Len(port) + 1 : port'[i] = << f, p + i >>
      <4> TAKE i \in 1 .. Len(port) + 1
      <4>1. CASE i = Len(port) + 1
        BY <3>4, <3>5, <4>1
      <4>2. CASE i # Len(port) + 1
        <5>1. i \in 1 .. Len(port)
          BY <1>0, <4>2
        <5> QED BY <1>0, <3>3, <3>4, <5>1
      <4> QED BY <4>1, <4>2
    <3>7. CASE place = Size
      <4>1. arriving' = 0 /\ Len(port') = Size - p /\ Len(port) + 1 = Size - p
        BY <1>0, <3>1, <3>5, <3>7
      <4> QED BY <3>6, <4>1 DEF Ahead
    <3>8. CASE place # Size
      <4>1. arriving' = place + 1 /\ arriving' # 0 /\ Len(port') = arriving' - 1 - p
        BY <1>0, <3>1, <3>5, <3>8
      <4> QED BY <3>1, <3>4, <3>6, <4>1 DEF Ahead
    <3> QED BY <3>7, <3>8
  <2>2. CASE ~(f = frames /\ arriving # 0)
    <3>1. Len(port) >= Size - p /\ \A i \in 1 .. Size - p : port[i] = << f, p + i >>
      BY <1>1, <2>2 DEF Ahead
    <3>2. f # frames'
      BY <1>0, <1>2, <2>2 DEF Arrives
    <3>3. port' \in {port, Append(port, << g, place >>)}
      BY <1>2, <1>3 DEF Arrives
    <3>4. Len(port') >= Len(port) /\ \A i \in 1 .. Len(port) : port'[i] = port[i]
      BY <1>0, <1>4, <3>3
    <3>5. Len(port') >= Size - p
      BY <1>0, <1>4, <3>1, <3>3
    <3>6. \A i \in 1 .. Size - p : i \in 1 .. Len(port)
      BY <1>0, <3>1
    <3> QED BY <3>1, <3>2, <3>4, <3>5, <3>6 DEF Ahead
  <2> QED BY <2>1, <2>2
<1> QED BY <1>5, <1>6 DEF UnderWay

LEMMA AloneStarts ==
  ASSUME LinkTypes, NEW f \in 1 .. MaxFrames, ByteArrives, f \in alone', f \notin alone,
         f \notin damaged'
  PROVE  UnderWay(f)'
<1>0. /\ Size \in Nat /\ Size > 4
      /\ port \in Seq(Byte) /\ misread \in Nat
  BY BytesAre DEF LinkTypes
<1>1. PICK first \in BOOLEAN, place \in 1 .. Size : Arrives(first, place)
  BY ArrivalIs
<1>2. first /\ f = frames' /\ ~Busy /\ arriving = 0 /\ place = 1
  BY <1>1 DEF Arrives
<1>3. last = Filler /\ misread = 0 /\ ~draining /\ ~overrun /\ port = << >>
  BY <1>0, <1>2 DEF Busy, Woken, InFrame, Drains, Reading
<1>4. port' = Append(port, << f, 1 >>) /\ arriving' = 2
  BY <1>0, <1>1, <1>2 DEF Arrives
<1>5. port' = << << f, 1 >> >>
  BY <1>3, <1>4
<1>6. Read(f, 0)'
  <2>1. last' = Filler /\ misread' = 0 /\ ~draining' /\ ~overrun'
    BY <1>1, <1>3 DEF Arrives, readVars
  <2> QED BY <2>1 DEF Read
<1>7. Ahead(f, 0)'
  <2>1. Len(port') = 1 /\ DOMAIN port' = 1 .. 1 /\ port'[1] = << f, 1 >>
    BY <1>5
  <2>2. Len(port') = arriving' - 1 - 0 /\ arriving' # 0
    BY <1>4, <2>1
  <2>3. \A i \in DOMAIN port' : port'[i] = << f, 0 + i >>
    BY <2>1
  <2> QED BY <1>2, <2>2, <2>3 DEF Ahead
<1>8. PICK p \in 0 .. Size - 1 : p = 0
  BY <1>0
<1> QED BY <1>6, <1>7, <1>8 DEF UnderWay

LEMMA AloneComesStep ==
  ASSUME LinkTypes, AloneComes, [LinkStep]_linkVars
  PROVE  AloneComes'
<1> SUFFICES ASSUME NEW f \in alone' \ damaged' PROVE Delivered(f)' \/ UnderWay(f)'
  BY DEF AloneComes
<1>0. alone \subseteq 1 .. frames /\ frames \in 0 .. MaxFrames /\ MaxFrames \in Nat
      /\ delivered \in Seq(1 .. MaxFrames)
  BY BytesAre DEF LinkTypes
<1>1. CASE Receive /\ UNCHANGED << frames, arriving, losses, damaged, alone >>
  <2>1. f \in alone \ damaged /\ f \in 1 .. MaxFrames
    BY <1>0, <1>1
  <2>2. CASE Delivered(f)
    <3>1. PICK i \in DOMAIN delivered : delivered[i] = f
      BY <2>2 DEF Delivered
    <3>2. delivered' = delivered \/ (last # Filler /\ delivered' = Append(delivered, last[1]))
      BY <1>1, ReceiveCases DEF Keeps, HandsOver
    <3>3. i \in DOMAIN delivered' /\ delivered'[i] = f
      <4>1. CASE delivered' = delivered
        BY <3>1, <4>1
      <4>2. CASE last # Filler /\ delivered' = Append(delivered, last[1])
        <5>1. last[1] \in 1 .. MaxFrames
          BY <4>2, BytesAre DEF LinkTypes
        <5> QED BY <1>0, <3>1, <4>2, <5>1
      <4> QED BY <3>2, <4>1, <4>2
    <3> QED BY <3>3 DEF Delivered
  <2>3. CASE UnderWay(f)
    BY <1>1, <2>1, <2>3, UnderWayReceives
  <2> QED BY <2>1, <2>2, <2>3 DEF AloneComes
<1>2. CASE ByteArrives
  <2>0. PICK first \in BOOLEAN, place \in 1 .. Size : Arrives(first, place)
    BY <1>2, ArrivalIs
  <2>4. damaged \subseteq damaged' /\ delivered' = delivered
        /\ alone' \subseteq alone \cup {frames'}
    BY <2>0 DEF Arrives, readVars
  <2>1. CASE f \in alone /\ Delivered(f)
    BY <2>1, <2>4 DEF Delivered
  <2>2. CASE f \in alone /\ UnderWay(f)
    BY <1>0, <1>2, <2>2, UnderWayArrival
  <2>3. CASE f \notin alone
    <3>1. f \in 1 .. MaxFrames
      BY <1>2, <2>3, <2>4, ArrivalIs
    <3> QED BY <1>2, <2>3, <3>1, AloneStarts
  <2> QED BY <2>1, <2>2, <2>3, <2>4 DEF AloneComes
<1>3. CASE UNCHANGED linkVars
  BY <1>3 DEF linkVars, readVars, AloneComes, Delivered, UnderWay, Read, Ahead
<1> QED BY <1>1, <1>2, <1>3 DEF LinkStep

(* Without losses the byte to be read is the one that is due, so the        *)
(* receiver stays in the frame and the frame stays whole.                   *)
LEMMA KeepsToFramesStep ==
  ASSUME LinkTypes, KeepsToFrames, [LinkStep]_linkVars
  PROVE  KeepsToFrames'
<1>0. /\ Size \in Nat /\ Size > 4 /\ port \in Seq(Byte) /\ Len(port) \in Nat
      /\ DOMAIN port = 1 .. Len(port) /\ frames \in Nat
      /\ delivered \in Seq(1 .. MaxFrames) /\ DOMAIN delivered = 1 .. Len(delivered)
      /\ Len(delivered) \in Nat /\ arriving \in {0} \cup 2 .. Size
      /\ last # Filler => last[2] \in 1 .. Size - 1 /\ last[1] \in 1 .. MaxFrames
      /\ MaxFrames \in Nat
  BY BytesAre DEF LinkTypes
<1>1. ASSUME InStep, Receive, UNCHANGED << frames, arriving >> PROVE InStep'
  <2>0. misread = 0 /\ ~overrun /\ ~draining
    BY <1>1 DEF InStep
  <2>1. port # << >>
    <3> SUFFICES ASSUME port = << >> PROVE FALSE
      OBVIOUS
    <3>1. last # Filler /\ arriving = 0 /\ Due = Coming
      BY <1>1, <2>0 DEF InStep, Receive, ReadDelimiter, ReadByte, Drain, Woken, InFrame,
                        Drains, Reading
    <3>2. << last[1], last[2] + 1 >> = << frames + 1, 1 >>
      BY <1>0, <3>1 DEF Due, Coming, Follows
    <3> QED BY <1>0, <3>1, <3>2
  <2>2. /\ port[1] = Due /\ Follows(port[Len(port)]) = Coming /\ Len(port) \in Nat \ {0}
        /\ Head(port) = port[1]
    BY <1>1, <2>1, TailIs, <1>0 DEF InStep
  <2>3. /\ UNCHANGED << misread, overrun, draining >> /\ port' = Tail(port)
        /\ IF last # Filler /\ last[2] + 1 = Size
           THEN last' = Filler /\ delivered' = Append(delivered, last[1])
           ELSE last' = port[1] /\ last' # Filler /\ delivered' = delivered
    <3>0. Filler[1] = 0 /\ Filler[2] = 0
      BY BytesAre
    <3>1. CASE last = Filler
      <4>0. ~Reading
        BY <2>0, <3>1 DEF Reading
      <4>1. ReadDelimiter
        BY <1>1, <2>0, <4>0 DEF Receive, ReadByte, Drain, InFrame, Drains
      <4>2. port[1][2] = 1 /\ 1 \notin Lookalike
        BY <2>2, <3>1, BytesAre DEF Due
      <4>3. last' = port[1] /\ UNCHANGED << misread, overrun, draining, delivered >>
        BY <2>2, <4>1, <4>2 DEF ReadDelimiter
      <4>4. port' = Tail(port)
        BY <4>1 DEF ReadDelimiter
      <4> QED BY <3>0, <3>1, <4>2, <4>3, <4>4
    <3>2. CASE last # Filler
      <4>1. port[1] = << last[1], last[2] + 1 >> /\ port[1][2] = last[2] + 1
            /\ port[1][1] = last[1]
        BY <1>0, <2>2, <3>2 DEF Due, Follows
      <4>2. Take(port[1]) /\ port' = Tail(port)
        BY <1>1, <2>0, <2>1, <2>2, <3>2
        DEF Receive, ReadDelimiter, ReadByte, Drain, Woken, Drains, Reading
      <4>3. port[1] # Filler
        BY <1>0, <3>0, <3>2, <4>1
      <4> QED BY <3>2, <4>1, <4>2, <4>3 DEF Take
    <3> QED BY <3>1, <3>2
  <2>4. /\ Len(port') = Len(port) - 1 /\ DOMAIN port' = 1 .. Len(port) - 1
        /\ \A i \in 1 .. Len(port) - 1 : port'[i] = port[i + 1]
        /\ port' \in Seq(Byte)
    BY <1>0, <2>1, <2>3, TailIs
  <2>5. Due' = Follows(port[1]) /\ Coming' = Coming
    <3>1. CASE last # Filler /\ last[2] + 1 = Size
      <4>1. port[1] = << last[1], last[2] + 1 >> /\ last[1] = Len(delivered) + 1
        BY <1>0, <1>1, <2>2, <3>1 DEF Due, Follows, InStep
      <4>2. Len(delivered') = Len(delivered) + 1 /\ last' = Filler
        BY <1>0, <2>3, <3>1
      <4>3. Follows(port[1]) = << Len(delivered) + 1 + 1, 1 >>
        BY <3>1, <4>1 DEF Follows
      <4> QED BY <1>1, <4>2, <4>3 DEF Due, Coming
    <3>2. CASE ~(last # Filler /\ last[2] + 1 = Size)
      BY <1>1, <2>3, <3>2 DEF Due, Coming, Follows
    <3> QED BY <3>1, <3>2
  <2>6. \A i \in 1 .. Len(port') - 1 : port'[i + 1] = Follows(port'[i])
    <3> TAKE i \in 1 .. Len(port') - 1
    <3>1. /\ i \in 1 .. Len(port) - 1 /\ i + 1 \in 1 .. Len(port) - 1
          /\ port'[i] = port[i + 1] /\ port'[i + 1] = port[(i + 1) + 1]
      BY <2>2, <2>4
    <3>2. port[(i + 1) + 1] = Follows(port[i + 1])
      BY <1>1, <3>1 DEF InStep
    <3> QED BY <3>1, <3>2
  <2>7. IF port' = << >> THEN Due' = Coming'
        ELSE port'[1] = Due' /\ Follows(port'[Len(port')]) = Coming'
    <3>1. CASE Len(port) = 1
      <4>1. port' = << >>
        BY <2>4, <3>1, EmptySeq
      <4> QED BY <2>2, <2>5, <3>1, <4>1
    <3>2. CASE Len(port) # 1
      <4>1. /\ port' # << >> /\ 1 \in 1 .. Len(port) - 1
            /\ Len(port') \in 1 .. Len(port) - 1 /\ Len(port') + 1 = Len(port)
        BY <2>2, <2>4, <3>2, EmptySeq
      <4>2. port[1 + 1] = Follows(port[1]) /\ port'[1] = port[1 + 1]
        BY <1>1, <2>4, <4>1 DEF InStep
      <4>3. port'[Len(port')] = port[Len(port)]
        BY <2>4, <4>1
      <4> QED BY <2>2, <2>5, <4>1, <4>2, <4>3
    <3> QED BY <3>1, <3>2
  <2>8. last' # Filler => last'[1] = Len(delivered') + 1
    <3>1. CASE last = Filler
      <4>1. port[1][1] = Len(delivered) + 1
        BY <2>2, <3>1 DEF Due
      <4> QED BY <2>3, <3>1, <4>1
    <3>2. CASE last # Filler
      <4>1. port[1][1] = last[1] /\ last[1] = Len(delivered) + 1
        BY <1>0, <1>1, <2>2, <3>2 DEF Due, Follows, InStep
      <4> QED BY <2>3, <4>1
    <3> QED BY <3>1, <3>2
  <2>9. \A k \in DOMAIN delivered' : delivered'[k] = k
    <3>1. CASE delivered' = delivered
      BY <1>1, <3>1 DEF InStep
    <3>2. CASE last # Filler /\ delivered' = Append(delivered, last[1])
      <4>1. last[1] = Len(delivered) + 1 /\ last[1] \in 1 .. MaxFrames
        BY <1>0, <1>1, <3>2 DEF InStep
      <4>2. /\ DOMAIN delivered' = 1 .. Len(delivered) + 1
            /\ \A k \in 1 .. Len(delivered) : delivered'[k] = delivered[k]
            /\ delivered'[Len(delivered) + 1] = Len(delivered) + 1
        BY <1>0, <3>2, <4>1
      <4>3. \A k \in 1 .. Len(delivered) : delivered[k] = k
        BY <1>0, <1>1 DEF InStep
      <4> QED BY <1>0, <4>2, <4>3
    <3> QED BY <2>3, <3>1, <3>2
  <2> QED BY <2>0, <2>3, <2>6, <2>7, <2>8, <2>9 DEF InStep
<1>2. ASSUME InStep, ByteArrives, damaged' = {} PROVE InStep'
  <2>1. PICK first \in BOOLEAN, place \in 1 .. Size : Arrives(first, place)
    BY <1>2, ArrivalIs
  <2>2. PICK f \in 1 .. MaxFrames : f = frames'
    BY <1>2, ArrivalIs
  <2>3. Coming = << f, place >> /\ port' = Append(port, Coming)
    BY <1>0, <1>2, <2>1, <2>2 DEF Arrives, Coming
  <2>4. Coming' = Follows(Coming)
    <3>1. arriving' = IF place = Size THEN 0 ELSE place + 1
      BY <2>1 DEF Arrives
    <3>2. CASE place = Size
      <4>1. Coming' = << f + 1, 1 >>
        BY <2>2, <3>1, <3>2 DEF Coming
      <4>2. Follows(<< f, place >>) = << f + 1, 1 >>
        BY <3>2 DEF Follows
      <4> QED BY <2>3, <4>1, <4>2
    <3>3. CASE place # Size
      <4>1. Coming' = << f, place + 1 >>
        BY <2>2, <3>1, <3>3 DEF Coming
      <4>2. Follows(<< f, place >>) = << f, place + 1 >>
        BY <3>3 DEF Follows
      <4> QED BY <2>3, <4>1, <4>2
    <3> QED BY <3>2, <3>3
  <2>5. Due' = Due /\ UNCHANGED readVars
    BY <1>2, ArrivalIs DEF Due, readVars
  <2>6. /\ << f, place >> \in Byte /\ Len(port') = Len(port) + 1 /\ port' # << >>
        /\ \A i \in 1 .. Len(port) : port'[i] = port[i]
        /\ port'[Len(port) + 1] = Coming
    <3>1. << f, place >> \in Byte
      BY DEF Byte
    <3>2. /\ Len(port') = Len(port) + 1 /\ port'[Len(port) + 1] = Coming
          /\ \A i \in 1 .. Len(port) : port'[i] = port[i]
      BY <1>0, <2>3, <3>1
    <3> QED BY <1>0, <3>1, <3>2, EmptySeq
  <2>7. IF port = << >> THEN Due = Coming
        ELSE port[1] = Due /\ Follows(port[Len(port)]) = Coming
    BY <1>2 DEF InStep
  <2>8. \A i \in 1 .. Len(port') - 1 : port'[i + 1] = Follows(port'[i])
    <3> TAKE i \in 1 .. Len(port') - 1
    <3>1. CASE i = Len(port)
      <4>1. port # << >> /\ i \in 1 .. Len(port)
        BY <1>0, <2>6, <3>1, EmptySeq
      <4> QED BY <2>6, <2>7, <3>1, <4>1
    <3>2. CASE i # Len(port)
      <4>0. i \in 1 .. (Len(port) + 1) - 1
        BY <2>6
      <4>1. /\ i \in 1 .. Len(port) - 1 /\ i + 1 \in 1 .. Len(port)
            /\ i \in 1 .. Len(port)
        <5>1. Len(port) \in Nat
          BY <1>0
        <5> QED BY <3>2, <4>0, <5>1
      <4>2. port[i + 1] = Follows(port[i])
        BY <1>2, <4>1 DEF InStep
      <4> QED BY <2>6, <4>1, <4>2
    <3> QED BY <3>1, <3>2
  <2>9. port'[1] = Due' /\ Follows(port'[Len(port')]) = Coming'
    <3>1. CASE port = << >>
      <4>1. Len(port) = 0 /\ 0 + 1 = 1
        BY <3>1
      <4>2. port'[1] = Coming /\ Len(port') = 1
        BY <2>6, <4>1
      <4> QED BY <2>4, <2>5, <2>7, <3>1, <4>2
    <3>2. CASE port # << >>
      <4>1. 1 \in 1 .. Len(port)
        BY <1>0, <3>2, EmptySeq
      <4> QED BY <2>4, <2>5, <2>6, <2>7, <3>2, <4>1
    <3> QED BY <3>1, <3>2
  <2> QED BY <1>2, <2>5, <2>6, <2>8, <2>9 DEF InStep, readVars
<1>3. ASSUME UNCHANGED linkVars, InStep PROVE InStep'
  BY <1>3 DEF linkVars, readVars, InStep, Due, Coming, Follows
<1>4. ASSUME ByteArrives, damaged' = {} PROVE damaged = {}
  <2>1. PICK first \in BOOLEAN, place \in 1 .. Size : Arrives(first, place)
    BY <1>4, ArrivalIs
  <2> QED BY <1>4, <2>1 DEF Arrives
<1> QED BY <1>1, <1>2, <1>3, <1>4 DEF LinkStep, KeepsToFrames, linkVars

LEMMA LinkInvStep == LinkInv /\ [LinkStep]_linkVars => LinkInv'
BY LinkTypesStep, InOrderStep, BehindStep, AloneComesStep, KeepsToFramesStep DEF LinkInv

LEMMA LinkTypeHolds == LinkInv => LinkTypeOK
<1> SUFFICES ASSUME LinkInv PROVE LinkTypeOK
  OBVIOUS
<1>1. delivered \in Seq(1 .. frames)
  <2>1. delivered \in Seq(1 .. MaxFrames) /\ frames \in Nat /\ MaxFrames \in Nat
    BY BytesAre DEF LinkInv, LinkTypes
  <2>2. \A i \in 1 .. Len(delivered) : delivered[i] \in 1 .. frames
    BY <2>1 DEF LinkInv, Behind
  <2> QED BY <2>1, <2>2
<1> QED BY <1>1 DEF LinkInv, LinkTypes, LinkTypeOK

(* Without losses every frame is delivered and the receiver stays within    *)
(* its buffer.  Whatever was lost, as long as that did not lead it out of   *)
(* its buffer, a frame that comes whole to a receiver with nothing left to  *)
(* do is delivered; and none is delivered twice or out of order.  This      *)
(* holds for any length of frames, any bytes in them that look like a       *)
(* delimiter, any number of frames and losses (recv, rcpt_frame, read).     *)
THEOREM ReceiverDelivers == LinkSpec => []LinkDelivers
<1>1. LinkInv => LinkDelivers
  <2> SUFFICES ASSUME LinkInv PROVE LinkDelivers
    OBVIOUS
  <2>1. ASSUME Quiet, NEW f \in alone \ damaged PROVE Delivered(f)
    <3> SUFFICES ASSUME UnderWay(f) PROVE FALSE
      BY DEF LinkInv, AloneComes
    <3>1. PICK p \in 0 .. Size - 1 : Read(f, p) /\ Ahead(f, p)
      BY DEF UnderWay
    <3>2. Len(port) = 0 /\ arriving = 0 /\ Size \in Nat
      BY <2>1, BytesAre DEF Quiet
    <3> QED BY <3>1, <3>2 DEF Ahead
  <2>2. ASSUME Quiet, damaged = {}, NEW f \in 1 .. frames PROVE Delivered(f)
    <3>1. /\ last = Filler /\ << Len(delivered) + 1, 1 >> = << frames + 1, 1 >>
          /\ \A k \in DOMAIN delivered : delivered[k] = k
      BY <2>2 DEF Quiet, Reading, LinkInv, KeepsToFrames, InStep, Due, Coming
    <3>2. DOMAIN delivered = 1 .. Len(delivered) /\ Len(delivered) \in Nat /\ frames \in Nat
      BY BytesAre DEF LinkInv, LinkTypes
    <3>3. f \in DOMAIN delivered /\ delivered[f] = f
      BY <3>1, <3>2
    <3> QED BY <3>3 DEF Delivered
  <2>3. damaged = {} => ~overrun
    BY DEF LinkInv, KeepsToFrames, InStep
  <2> QED BY <2>1, <2>2, <2>3 DEF LinkDelivers, LinkInv, Increasing
<1> QED BY <1>1, LinkInvInit, LinkInvStep, PTL DEF LinkSpec

-----------------------------------------------------------------------------
(* The push to the datastores.                                              *)

Entry == {"measure", "latitude", "longitude", "altitude"} \X Int
OfRound == {k \in DOMAIN values_list : values_list[k] = << "measure", round >>}
PerRound == MaxMeasures + Len(Location)
Served(i) == \E j \in Index : j < i /\ Turn(j)
Emptied == ~calibrating \/ \E j \in Index : Turn(j)

PushTypes ==
  /\ activated \in [Index -> Switch] /\ altitude \in BOOLEAN /\ calibrating \in BOOLEAN
  /\ installed \in SUBSET Index /\ led \in {"none", "GREEN", "RED"}
  /\ round \in 0 .. MaxRounds /\ store_it \in 0 .. Len(Name) + 1
  /\ values_list \in Seq(Entry) /\ given \in [Index -> Seq(Nat \X Seq(Entry))]
  /\ pending \in BOOLEAN /\ faulty \in BOOLEAN /\ (pending => faulty)
  /\ store_it # 0 => round < MaxRounds
  /\ values_list # << >> => MaxRounds > 0

(* Where the values are cleared, the list holds this round's, and during a  *)
(* push the location behind them, unless the calibrator has served one      *)
(* datastore: then it is empty.                                             *)
ListOfThisRound ==
  Emptied =>
    /\ store_it = 0 => \E n \in 0 .. MaxMeasures : values_list = Measured(round, n)
    /\ store_it # 0 => IF calibrating /\ Served(store_it) THEN values_list = << >>
                       ELSE IsRound(values_list, round)

(* A calibrator with no datastore activated keeps the values of all rounds. *)
ListOfAllRounds ==
  ~Emptied =>
    /\ store_it = 0 => \/ Len(values_list) <= PerRound * round
                       \/ /\ round < MaxRounds
                          /\ Cardinality(OfRound) <= MaxMeasures
                          /\ Len(values_list) <= PerRound * round + Cardinality(OfRound)
    /\ store_it # 0 => Len(values_list) <= PerRound * (round + 1)

(* EachGetsEachRound, how many calls there are, for which rounds, and what  *)
(* they hold.                                                               *)
Done(i) == IF i < store_it THEN round + 1 ELSE round
Counted ==
  \A i \in Index :
    /\ ~Turn(i) \/ i \notin installed => given[i] = << >>
    /\ Len(given[i]) <= Done(i)
    /\ Turn(i) /\ i \in installed /\ ~faulty => Len(given[i]) = Done(i)
Ordered ==
  \A i \in Index :
    /\ \A k \in DOMAIN given[i] : given[i][k][1] < Done(i)
    /\ \A k, l \in DOMAIN given[i] : k < l => given[i][k][1] < given[i][l][1]
RightList(i, list, r) ==
  IF calibrating /\ Served(i) THEN list = << >> ELSE IsRound(list, r)
Contents ==
  \A i \in Index : \A k \in DOMAIN given[i] : RightList(i, given[i][k][2], given[i][k][1])

PushInv ==
  PushTypes /\ ListOfThisRound /\ ListOfAllRounds /\ Counted /\ Ordered /\ Contents

LEMMA LocationIs ==
  ASSUME altitude \in BOOLEAN
  PROVE  Location \in Seq(Entry) /\ Len(Location) \in Nat
BY DEF Location, Entry

LEMMA MeasuredIs ==
  ASSUME NEW n \in Nat, NEW r \in Nat
  PROVE  /\ Measured(r, n) \in Seq(Entry) /\ Len(Measured(r, n)) = n
         /\ Append(Measured(r, n), << "measure", r >>) = Measured(r, n + 1)
         /\ DOMAIN Measured(r, n) = 1 .. n
<1>1. << "measure", r >> \in Entry
  BY DEF Entry
<1>2. Measured(r, n) \in Seq(Entry) /\ Len(Measured(r, n)) = n /\ DOMAIN Measured(r, n) = 1 .. n
  BY <1>1 DEF Measured
<1>3. Append(Measured(r, n), << "measure", r >>) = Measured(r, n + 1)
  BY <1>1, <1>2 DEF Measured
<1> QED BY <1>2, <1>3

LEMMA OfRoundIsFinite ==
  ASSUME values_list \in Seq(Entry)
  PROVE  IsFiniteSet(OfRound) /\ Cardinality(OfRound) \in Nat
<1>1. IsFiniteSet(1 .. Len(values_list))
  BY FS_Interval
<1>2. OfRound \subseteq 1 .. Len(values_list)
  BY DEF OfRound
<1> QED BY <1>1, <1>2, FS_Subset, FS_CardinalityType

(* A measure stored while the list holds n of its round.                    *)
LEMMA RoomForOne ==
  ASSUME NEW n \in Nat, round \in Nat, values_list = Measured(round, n),
         Cardinality(OfRound) < MaxMeasures
  PROVE  n < MaxMeasures
<1>1. OfRound = 1 .. n
  BY MeasuredIs DEF OfRound, Measured
<1>2. Cardinality(1 .. n) = n
  BY FS_Interval
<1> QED BY <1>1, <1>2

LEMMA OneMoreOfRound ==
  ASSUME values_list \in Seq(Entry), round \in Nat,
         values_list' = Append(values_list, << "measure", round >>), round' = round
  PROVE  Cardinality(OfRound') = Cardinality(OfRound) + 1
<1>1. OfRound' = OfRound \cup {Len(values_list) + 1}
  <2>1. << "measure", round >> \in Entry
    BY DEF Entry
  <2> QED BY <2>1 DEF OfRound
<1>2. Len(values_list) + 1 \notin OfRound
  BY DEF OfRound
<1> QED BY <1>1, <1>2, OfRoundIsFinite, FS_AddElement

LEMMA PushInvInit == PushInit => PushInv
<1> SUFFICES ASSUME PushInit PROVE PushInv
  OBVIOUS
<1>1. PushTypes
  <2>1. values_list \in Seq(Entry) /\ values_list = << >>
    BY DEF PushInit
  <2>2. given \in [Index -> Seq(Nat \X Seq(Entry))]
    BY DEF PushInit
  <2>3. round \in 0 .. MaxRounds /\ store_it \in 0 .. Len(Name) + 1 /\ store_it = 0
    BY DatastoresAssumption DEF PushInit
  <2>4. /\ activated \in [Index -> Switch] /\ altitude \in BOOLEAN
        /\ calibrating \in BOOLEAN /\ installed \in SUBSET Index
        /\ led \in {"none", "GREEN", "RED"}
    BY DEF PushInit
  <2>5. pending \in BOOLEAN /\ faulty \in BOOLEAN /\ (pending => faulty)
    BY DEF PushInit
  <2> QED BY <2>1, <2>2, <2>3, <2>4, <2>5 DEF PushTypes
<1>2. ListOfThisRound
  <2>1. Measured(round, 0) = << >>
    BY DEF Measured
  <2> QED BY <2>1, DatastoresAssumption DEF PushInit, ListOfThisRound
<1>3. ListOfAllRounds
  <2>1. PerRound * 0 = 0
    BY LocationIs, DatastoresAssumption DEF PushInit, PerRound
  <2> QED BY <2>1 DEF PushInit, ListOfAllRounds
<1>4. Counted /\ Ordered /\ Contents
  BY DatastoresAssumption DEF PushInit, Counted, Ordered, Contents, Done, Index
<1> QED BY <1>1, <1>2, <1>3, <1>4 DEF PushInv

(* What stays when the settings do.                                         *)
LEMMA SettingsStay ==
  ASSUME UNCHANGED settings
  PROVE  /\ activated' = activated /\ altitude' = altitude /\ calibrating' = calibrating
         /\ installed' = installed /\ Location' = Location /\ PerRound' = PerRound
         /\ (Emptied' <=> Emptied) /\ \A i \in Index : Turn(i)' <=> Turn(i)
BY DEF settings, Location, PerRound, Emptied, Turn

LEMMA PushTypesStep ==
  ASSUME PushTypes, [PushStep]_pushVars
  PROVE  PushTypes'
<1> USE DatastoresAssumption DEF PushTypes
<1>0. Location \in Seq(Entry)
  BY LocationIs
<1>1. CASE StoreMeasure
  <2>1. << "measure", round >> \in Entry
    BY DEF Entry
  <2> QED BY <1>1, <2>1 DEF StoreMeasure, settings, python
<1>2. CASE PushBegins
  BY <1>0, <1>2 DEF PushBegins, settings, python, Index
<1>3. CASE Push
  <2>1. AfterTurn \in Seq(Entry) /\ (AfterTurn # << >> => values_list # << >>)
    BY DEF AfterTurn
  <2>2. led' \in {"none", "GREEN", "RED"}
    BY <1>3 DEF Push
  <2>3. given' \in [Index -> Seq(Nat \X Seq(Entry))]
    <3>1. << round, values_list >> \in Nat \X Seq(Entry)
      OBVIOUS
    <3>2. \/ given' = given
          \/ given' = [given EXCEPT ![store_it] = Append(@, << round, values_list >>)]
      BY <1>3 DEF Push, python
    <3>3. ASSUME given' = [given EXCEPT ![store_it] = Append(@, << round, values_list >>)]
          PROVE  given' \in [Index -> Seq(Nat \X Seq(Entry))]
      <4>1. store_it \in Index
        BY <1>3 DEF Push
      <4>2. Append(given[store_it], << round, values_list >>) \in Seq(Nat \X Seq(Entry))
        BY <3>1, <4>1
      <4> QED BY <3>3, <4>2
    <3> QED BY <3>2, <3>3
  <2>5. pending' \in BOOLEAN /\ faulty' \in BOOLEAN /\ (pending' => faulty')
    <3>1. CASE UNCHANGED python
      BY <3>1 DEF python
    <3>2. ASSUME NEW answer \in Answers(store_it), pending' \in Leaves(answer),
                 faulty' = (faulty \/ pending')
          PROVE  pending' \in BOOLEAN /\ faulty' \in BOOLEAN /\ (pending' => faulty')
      BY <3>2 DEF Leaves
    <3> QED BY <1>3, <3>1, <3>2 DEF Push
  <2>4. store_it' \in 0 .. Len(Name) + 1 /\ store_it # 0
    BY <1>3 DEF Push, Index
  <2> QED BY <1>3, <2>1, <2>2, <2>3, <2>4, <2>5 DEF Push, settings
<1>4. CASE PushEnds
  BY <1>4 DEF PushEnds, settings, python
<1>5. CASE UNCHANGED pushVars
  BY <1>5 DEF pushVars, settings, python
<1> QED BY <1>1, <1>2, <1>3, <1>4, <1>5 DEF PushStep

LEMMA ThisRoundStep ==
  ASSUME PushTypes, ListOfThisRound, [PushStep]_pushVars
  PROVE  ListOfThisRound'
<1> USE DatastoresAssumption DEF PushTypes, ListOfThisRound
<1>0. UNCHANGED settings
  BY DEF PushStep, StoreMeasure, PushBegins, Push, PushEnds, pushVars
<1> SUFFICES ASSUME Emptied PROVE ListOfThisRound'
  BY <1>0, SettingsStay
<1>1. CASE StoreMeasure
  <2>1. PICK n \in 0 .. MaxMeasures : values_list = Measured(round, n)
    BY <1>1 DEF StoreMeasure
  <2>0. n \in Nat /\ round \in Nat /\ Cardinality(OfRound) < MaxMeasures
    BY <1>1 DEF StoreMeasure, OfRound
  <2>2. n < MaxMeasures
    BY <2>0, <2>1, RoomForOne
  <2>3. values_list' = Measured(round, n + 1)
    BY <1>1, <2>0, <2>1, MeasuredIs DEF StoreMeasure
  <2>4. n + 1 \in 0 .. MaxMeasures
    BY <2>0, <2>2
  <2> QED BY <1>1, <2>3, <2>4 DEF StoreMeasure
<1>2. CASE PushBegins
  <2>1. PICK n \in 0 .. MaxMeasures : values_list = Measured(round, n)
    BY <1>2 DEF PushBegins
  <2>2. values_list' = Measured(round, n) \o Location
    BY <1>2, <2>1 DEF PushBegins
  <2>3. IsRound(values_list, round)'
    BY <1>0, <1>2, <2>2, SettingsStay DEF PushBegins, IsRound
  <2>4. ~Served(store_it)'
    BY <1>2 DEF PushBegins, Served, Index
  <2>5. store_it' = 1
    BY <1>2 DEF PushBegins
  <2> QED BY <2>3, <2>4, <2>5
<1>3. CASE Push
  <2>1. store_it \in Index /\ store_it' = store_it + 1 /\ round' = round
    BY <1>3 DEF Push
  <2>2. Served(store_it)' <=> Served(store_it) \/ Turn(store_it)
    BY <1>0, <2>1, SettingsStay DEF Served, Index
  <2>3. CASE calibrating /\ (Served(store_it) \/ Turn(store_it))
    <3>1. values_list' = << >>
      BY <1>3, <2>1, <2>3 DEF Push, AfterTurn, Index
    <3> QED BY <1>0, <2>1, <2>2, <2>3, <3>1, SettingsStay DEF Index
  <2>4. CASE ~(calibrating /\ (Served(store_it) \/ Turn(store_it)))
    <3>1. values_list' = values_list /\ IsRound(values_list, round)
      BY <1>3, <2>1, <2>4 DEF Push, AfterTurn, Index
    <3>2. IsRound(values_list, round)'
      BY <1>0, <2>1, <3>1, SettingsStay DEF IsRound
    <3> QED BY <1>0, <2>1, <2>2, <2>4, <3>2, SettingsStay DEF Index
  <2> QED BY <2>3, <2>4
<1>4. CASE PushEnds
  <2>1. store_it = Len(Name) + 1 /\ store_it' = 0
    BY <1>4 DEF PushEnds
  <2>2. values_list' = << >>
    <3>1. calibrating => Served(store_it)
      BY <2>1 DEF Emptied, Served, Index
    <3> QED BY <1>4, <2>1, <3>1 DEF PushEnds
  <2>3. Measured(round', 0) = << >>
    BY DEF Measured
  <2>4. 0 \in 0 .. MaxMeasures
    OBVIOUS
  <2> QED BY <2>1, <2>2, <2>3, <2>4
<1>5. CASE UNCHANGED pushVars
  <2>1. UNCHANGED << values_list, round, store_it >>
    BY <1>5 DEF pushVars
  <2>2. Served(store_it)' <=> Served(store_it)
    BY <1>0, <2>1, SettingsStay DEF Served
  <2>3. IsRound(values_list, round)' <=> IsRound(values_list, round)
    BY <1>0, <2>1, SettingsStay DEF IsRound
  <2> QED BY <1>0, <2>1, <2>2, <2>3, SettingsStay
<1> QED BY <1>1, <1>2, <1>3, <1>4, <1>5 DEF PushStep

LEMMA AllRoundsStep ==
  ASSUME PushTypes, ListOfAllRounds, [PushStep]_pushVars
  PROVE  ListOfAllRounds'
<1> USE DatastoresAssumption DEF PushTypes, ListOfAllRounds
<1>0. UNCHANGED settings
  BY DEF PushStep, StoreMeasure, PushBegins, Push, PushEnds, pushVars
<1> SUFFICES ASSUME ~Emptied PROVE ListOfAllRounds'
  BY <1>0, SettingsStay
<1>6. PICK p : p = PerRound
  OBVIOUS
<1>7. /\ p = MaxMeasures + Len(Location) /\ p \in Nat /\ PerRound' = p
      /\ Location \in Seq(Entry) /\ Len(Location) \in Nat
  BY <1>0, <1>6, LocationIs, SettingsStay DEF PerRound
<1>8. p * round \in Nat /\ p * (round + 1) = p * round + p
  BY <1>7
<1>9. Cardinality(OfRound) \in Nat
  BY OfRoundIsFinite
<1>10. store_it = 0 => Len(values_list) <= p * round + MaxMeasures
  <2> SUFFICES ASSUME store_it = 0 PROVE Len(values_list) <= p * round + MaxMeasures
    OBVIOUS
  <2>1. CASE Len(values_list) <= PerRound * round
    BY <1>6, <1>8, <2>1
  <2>2. CASE Cardinality(OfRound) <= MaxMeasures
             /\ Len(values_list) <= PerRound * round + Cardinality(OfRound)
    BY <1>6, <1>8, <1>9, <2>2
  <2> QED BY <2>1, <2>2
<1>1. CASE StoreMeasure
  <2>1. Cardinality(OfRound') = Cardinality(OfRound) + 1
    BY <1>1, OneMoreOfRound DEF StoreMeasure
  <2>2. Cardinality(OfRound) < MaxMeasures /\ store_it = 0 /\ store_it' = 0
        /\ round < MaxRounds /\ round' = round
    BY <1>1 DEF StoreMeasure, OfRound
  <2>3. Len(values_list') = Len(values_list) + 1
    BY <1>1 DEF StoreMeasure, Entry
  <2>4. Len(values_list) <= p * round + Cardinality(OfRound)
    BY <1>6, <1>8, <1>9, <2>2
  <2>5. Cardinality(OfRound)' <= MaxMeasures
    BY <1>9, <2>1, <2>2
  <2>6. Len(values_list') <= p * round + Cardinality(OfRound')
    BY <1>8, <1>9, <2>1, <2>3, <2>4
  <2> QED BY <1>7, <2>2, <2>5, <2>6
<1>2. CASE PushBegins
  <2>1. Len(values_list') = Len(values_list) + Len(Location)
    BY <1>2, <1>7 DEF PushBegins
  <2>2. store_it = 0 /\ store_it' = 1 /\ round' = round
    BY <1>2 DEF PushBegins
  <2>3. Len(values_list') <= p * (round + 1)
    BY <1>7, <1>8, <1>10, <2>1, <2>2
  <2> QED BY <1>7, <2>2, <2>3
<1>3. CASE Push
  <2>1. store_it \in Index /\ store_it' = store_it + 1 /\ round' = round
    BY <1>3 DEF Push
  <2>2. values_list' = values_list
    BY <1>3, <2>1 DEF Push, AfterTurn, Emptied
  <2> QED BY <1>6, <1>7, <2>1, <2>2 DEF Index
<1>4. CASE PushEnds
  <2>1. /\ store_it # 0 /\ store_it' = 0 /\ round' = round + 1
        /\ values_list' = values_list
    BY <1>4 DEF PushEnds, Emptied
  <2> QED BY <1>6, <1>7, <2>1
<1>5. CASE UNCHANGED pushVars
  BY <1>6, <1>7, <1>5 DEF pushVars, OfRound
<1> QED BY <1>1, <1>2, <1>3, <1>4, <1>5 DEF PushStep

LEMMA EachIs == Counted /\ Ordered /\ Contents => EachGetsEachRound
BY DEF EachGetsEachRound, Counted, Ordered, Contents, Done, RightList, Served

LEMMA RightStays ==
  ASSUME UNCHANGED settings, NEW i \in Index, NEW list, NEW r
  PROVE  RightList(i, list, r)' <=> RightList(i, list, r)
<1>1. Served(i)' <=> Served(i)
  BY SettingsStay DEF Served
<1>2. IsRound(list, r)' <=> IsRound(list, r)
  BY SettingsStay DEF IsRound
<1> QED BY <1>1, <1>2, SettingsStay DEF RightList

(* A step calls one plugin or none; it calls that of an activated datastore *)
(* if no error has been left.                                               *)
Called(i) ==
  /\ Push /\ i = store_it /\ Turn(i) /\ i \in installed
  /\ given'[i] = Append(given[i], << round, values_list >>)

LEMMA CallsAre ==
  ASSUME PushTypes, [PushStep]_pushVars, NEW i \in Index
  PROVE  /\ given'[i] = given[i] \/ Called(i)
         /\ Push /\ i = store_it /\ Turn(i) /\ i \in installed /\ ~faulty' => Called(i)
<1> USE DEF PushTypes
<1>1. ASSUME ~Push PROVE given'[i] = given[i]
  BY <1>1 DEF PushStep, StoreMeasure, PushBegins, PushEnds, pushVars
<1>2. ASSUME Push, ~Turn(store_it) PROVE given'[i] = given[i]
  BY <1>2 DEF Push
<1>3. ASSUME Push, Turn(store_it)
      PROVE  /\ given'[i] = given[i] \/ Called(i)
             /\ i = store_it /\ i \in installed /\ ~faulty' => Called(i)
  <2>1. PICK answer \in Answers(store_it) :
          /\ pending' \in Leaves(answer) /\ faulty' = (faulty \/ pending')
          /\ given' = IF answer = "missing" THEN given
                      ELSE [given EXCEPT ![store_it] = Append(@, << round, values_list >>)]
    BY <1>3 DEF Push
  <2>2. CASE answer = "missing"
    <3>1. given' = given
      BY <2>1, <2>2
    <3>2. pending' /\ faulty'
      BY <2>1, <2>2 DEF Leaves
    <3> QED BY <3>1, <3>2
  <2>3. CASE answer # "missing"
    <3>1. store_it \in installed
      BY <2>3 DEF Answers
    <3>2. given'[i] = IF i = store_it THEN Append(given[i], << round, values_list >>)
                      ELSE given[i]
      BY <2>1, <2>3
    <3> QED BY <1>3, <3>1, <3>2 DEF Called
  <2> QED BY <2>2, <2>3
<1> QED BY <1>1, <1>2, <1>3

LEMMA CallIs ==
  ASSUME PushTypes, NEW i \in Index, Called(i)
  PROVE  /\ Len(given'[i]) = Len(given[i]) + 1 /\ Len(given[i]) \in Nat
         /\ DOMAIN given'[i] = 1 .. Len(given[i]) + 1 /\ DOMAIN given[i] = 1 .. Len(given[i])
         /\ \A k \in 1 .. Len(given[i]) : given'[i][k] = given[i][k]
         /\ given'[i][Len(given[i]) + 1] = << round, values_list >>
<1>1. << round, values_list >> \in Nat \X Seq(Entry) /\ given[i] \in Seq(Nat \X Seq(Entry))
  BY DatastoresAssumption DEF PushTypes
<1> QED BY <1>1 DEF Called

LEMMA DoneIs ==
  ASSUME PushTypes, [PushStep]_pushVars, NEW i \in Index
  PROVE  /\ Done(i) \in Nat /\ Done(i)' \in Nat
         /\ IF Push /\ i = store_it THEN Done(i) = round /\ Done(i)' = round + 1
            ELSE Done(i)' = Done(i)
<1> USE DatastoresAssumption DEF PushTypes, Done
<1>1. CASE PushBegins
  <2>1. store_it = 0 /\ store_it' = 1 /\ round' = round /\ ~(i < 1) /\ ~(i < 0) /\ i # 0
    BY <1>1 DEF PushBegins, Index
  <2> QED BY <2>1
<1>2. CASE PushEnds
  <2>1. /\ store_it = Len(Name) + 1 /\ store_it' = 0 /\ round' = round + 1
        /\ i < store_it /\ ~(i < store_it') /\ ~(i = store_it)
    BY <1>2 DEF PushEnds, Index
  <2> QED BY <2>1
<1>3. CASE Push
  <2>1. store_it \in Index /\ store_it' = store_it + 1 /\ round' = round
    BY <1>3 DEF Push
  <2>2. i \in Nat /\ store_it \in Nat
    BY <2>1 DEF Index
  <2>3. IF i = store_it THEN ~(i < store_it) /\ i < store_it' ELSE i < store_it' <=> i < store_it
    BY <2>1, <2>2
  <2> QED BY <1>3, <2>1, <2>3
<1>4. CASE StoreMeasure \/ UNCHANGED pushVars
  <2>1. store_it' = store_it /\ round' = round /\ ~(Push /\ i = store_it)
    <3>1. store_it' = store_it /\ round' = round
      BY <1>4 DEF StoreMeasure, pushVars
    <3>2. Push => store_it' = store_it + 1 /\ store_it \in Nat
      BY DEF Push, Index
    <3> QED BY <3>1, <3>2
  <2> QED BY <2>1
<1> QED BY <1>1, <1>2, <1>3, <1>4 DEF PushStep

LEMMA CountedStep ==
  ASSUME PushTypes, Counted, [PushStep]_pushVars
  PROVE  Counted'
<1>0. UNCHANGED settings /\ (faulty => faulty')
  <2>1. UNCHANGED settings
    BY DEF PushStep, StoreMeasure, PushBegins, Push, PushEnds, pushVars
  <2>2. UNCHANGED python => (faulty => faulty')
    BY DEF python
  <2>3. Push => UNCHANGED python \/ faulty' = (faulty \/ pending')
    BY DEF Push
  <2>4. ~Push => UNCHANGED python
    BY DEF PushStep, StoreMeasure, PushBegins, PushEnds, pushVars
  <2>5. faulty' = (faulty \/ pending') => (faulty => faulty')
    BY Zenon
  <2> QED BY <2>1, <2>2, <2>3, <2>4, <2>5
<1> SUFFICES ASSUME NEW i \in Index
             PROVE  /\ ~Turn(i) \/ i \notin installed => given'[i] = << >>
                    /\ Len(given'[i]) <= Done(i)'
                    /\ Turn(i) /\ i \in installed /\ ~faulty' => Len(given'[i]) = Done(i)'
  BY <1>0, SettingsStay DEF Counted
<1>1. /\ ~Turn(i) \/ i \notin installed => given[i] = << >>
      /\ Len(given[i]) <= Done(i)
      /\ Turn(i) /\ i \in installed /\ ~faulty => Len(given[i]) = Done(i)
      /\ Len(given[i]) \in Nat
  BY DEF Counted, PushTypes
<1>2. CASE Called(i)
  <2>1. Len(given'[i]) = Len(given[i]) + 1 /\ Turn(i) /\ i \in installed
    BY <1>2, CallIs DEF Called
  <2>2. Done(i) \in Nat /\ Done(i)' = Done(i) + 1
    <3>1. Done(i) \in Nat /\ Done(i) = round /\ Done(i)' = round + 1
      BY <1>2, DoneIs DEF Called
    <3> QED BY <3>1
  <2>3. Len(given'[i]) <= Done(i)'
    BY <1>1, <2>1, <2>2
  <2>4. Len(given[i]) = Done(i) => Len(given'[i]) = Done(i)'
    BY <2>1, <2>2
  <2> QED BY <1>0, <1>1, <2>1, <2>3, <2>4
<1>3. CASE ~Called(i)
  <2>1. given'[i] = given[i]
    BY <1>3, CallsAre
  <2>2. Done(i) \in Nat /\ Done(i)' \in Nat /\ Done(i) <= Done(i)'
    <3>1. CASE Push /\ i = store_it
      <4>1. Done(i) \in Nat /\ Done(i) = round /\ Done(i)' = round + 1
        BY <3>1, DoneIs
      <4> QED BY <4>1
    <3>2. CASE ~(Push /\ i = store_it)
      <4>1. Done(i) \in Nat /\ Done(i)' = Done(i)
        BY <3>2, DoneIs
      <4> QED BY <4>1
    <3> QED BY <3>1, <3>2
  <2>3. Turn(i) /\ i \in installed /\ ~faulty' => Done(i)' = Done(i)
    BY <1>3, CallsAre, DoneIs
  <2>4. Len(given'[i]) <= Done(i)'
    BY <1>1, <2>1, <2>2
  <2> QED BY <1>0, <1>1, <2>1, <2>3, <2>4
<1> QED BY <1>2, <1>3

LEMMA OrderedStep ==
  ASSUME PushTypes, Ordered, [PushStep]_pushVars
  PROVE  Ordered'
<1> SUFFICES ASSUME NEW i \in Index
             PROVE  /\ \A k \in DOMAIN given'[i] : given'[i][k][1] < Done(i)'
                    /\ \A k, l \in DOMAIN given'[i] :
                         k < l => given'[i][k][1] < given'[i][l][1]
  BY DEF Ordered
<1>1. /\ \A k \in DOMAIN given[i] : given[i][k][1] < Done(i) /\ given[i][k][1] \in Nat
      /\ \A k, l \in DOMAIN given[i] : k < l => given[i][k][1] < given[i][l][1]
  BY DEF Ordered, PushTypes
<1>2. CASE Called(i)
  <2>1. Done(i) = round /\ Done(i)' = round + 1 /\ round \in Nat
    BY <1>2, DoneIs DEF Called
  <2>2. /\ DOMAIN given'[i] = 1 .. Len(given[i]) + 1 /\ DOMAIN given[i] = 1 .. Len(given[i])
        /\ \A k \in 1 .. Len(given[i]) : given'[i][k] = given[i][k]
        /\ given'[i][Len(given[i]) + 1][1] = round /\ Len(given[i]) \in Nat
    BY <1>2, CallIs
  <2>3. \A k \in DOMAIN given'[i] :
          \/ k \in DOMAIN given[i] /\ given'[i][k] = given[i][k] /\ k <= Len(given[i])
          \/ k = Len(given[i]) + 1
    BY <2>2
  <2>4. \A k \in DOMAIN given'[i] : given'[i][k][1] < Done(i)'
    <3> TAKE k \in DOMAIN given'[i]
    <3>1. CASE k = Len(given[i]) + 1
      BY <2>1, <2>2, <3>1
    <3>2. CASE k \in DOMAIN given[i] /\ given'[i][k] = given[i][k]
      <4>1. given[i][k][1] < round /\ given[i][k][1] \in Nat
        BY <1>1, <2>1, <3>2
      <4> QED BY <2>1, <3>2, <4>1
    <3> QED BY <2>3, <3>1, <3>2
  <2>5. \A k, l \in DOMAIN given'[i] : k < l => given'[i][k][1] < given'[i][l][1]
    <3> TAKE k, l \in DOMAIN given'[i]
    <3> HAVE k < l
    <3>0. k \in 1 .. Len(given[i]) + 1 /\ l \in 1 .. Len(given[i]) + 1
      BY <2>2
    <3>1. k \in DOMAIN given[i] /\ given'[i][k] = given[i][k]
      BY <2>2, <3>0
    <3>2. CASE l = Len(given[i]) + 1
      BY <1>1, <2>1, <2>2, <3>1, <3>2
    <3>3. CASE l # Len(given[i]) + 1
      <4>1. l \in DOMAIN given[i] /\ given'[i][l] = given[i][l]
        BY <2>2, <3>0, <3>3
      <4> QED BY <1>1, <3>1, <4>1
    <3> QED BY <3>2, <3>3
  <2> QED BY <2>4, <2>5
<1>3. CASE ~Called(i)
  <2>1. given'[i] = given[i]
    BY <1>3, CallsAre
  <2>2. Done(i) \in Nat /\ Done(i)' \in Nat /\ Done(i) <= Done(i)'
    <3>1. CASE Push /\ i = store_it
      <4>1. Done(i) \in Nat /\ Done(i) = round /\ Done(i)' = round + 1
        BY <3>1, DoneIs
      <4> QED BY <4>1
    <3>2. CASE ~(Push /\ i = store_it)
      <4>1. Done(i) \in Nat /\ Done(i)' = Done(i)
        BY <3>2, DoneIs
      <4> QED BY <4>1
    <3> QED BY <3>1, <3>2
  <2>3. \A k \in DOMAIN given[i] : given[i][k][1] < Done(i)'
    BY <1>1, <2>2
  <2> QED BY <1>1, <2>1, <2>3
<1> QED BY <1>2, <1>3

LEMMA ContentsStep ==
  ASSUME PushTypes, ListOfThisRound, Contents, [PushStep]_pushVars
  PROVE  Contents'
<1>0. UNCHANGED settings
  BY DEF PushStep, StoreMeasure, PushBegins, Push, PushEnds, pushVars
<1> SUFFICES ASSUME NEW i \in Index, NEW k \in DOMAIN given'[i]
             PROVE  RightList(i, given[i][k][2], given[i][k][1])'
  BY DEF Contents
<1>1. PICK list, r : list = given'[i][k][2] /\ r = given'[i][k][1]
  OBVIOUS
<1>2. SUFFICES RightList(i, list, r)
  <2>1. RightList(i, list, r)'
    BY <1>0, <1>2, RightStays
  <2> QED BY <1>1, <2>1 DEF RightList, IsRound
<1>3. CASE given'[i] = given[i]
  BY <1>1, <1>3 DEF Contents
<1>4. CASE Called(i)
  <2>1. /\ k \in DOMAIN given[i] /\ given'[i][k] = given[i][k]
        \/ given'[i][k] = << round, values_list >>
    BY <1>4, CallIs
  <2>2. CASE k \in DOMAIN given[i] /\ given'[i][k] = given[i][k]
    BY <1>1, <2>2 DEF Contents
  <2>3. CASE given'[i][k] = << round, values_list >>
    <3>1. list = values_list /\ r = round
      BY <1>1, <2>3
    <3>2. Emptied /\ store_it # 0 /\ i = store_it
      BY <1>4, DatastoresAssumption DEF Called, Emptied, Index
    <3> QED BY <3>1, <3>2 DEF ListOfThisRound, RightList
  <2> QED BY <2>1, <2>2, <2>3
<1> QED BY <1>3, <1>4, CallsAre

LEMMA TimesGrows == ASSUME NEW p \in Nat, NEW a \in Nat, NEW b \in Nat, a <= b
                    PROVE  p * a <= p * b
<1>1. PICK d \in Nat : b = a + d
  <2>1. b - a \in Nat /\ b = a + (b - a)
    OBVIOUS
  <2> QED BY <2>1
<1>2. p * b = p * a + p * d /\ p * d \in Nat /\ p * a \in Nat
  BY <1>1
<1> QED BY <1>2

LEMMA PushTypeHolds == PushInv => PushTypeOK
<1> SUFFICES ASSUME PushInv PROVE PushTypeOK
  OBVIOUS
<1> USE DatastoresAssumption DEF PushInv, PushTypes
<1>1. Location \in Seq(Entry) /\ Len(Location) \in Nat
  BY LocationIs
<1>2. PICK p : p = PerRound
  OBVIOUS
<1>3. p \in Nat /\ p = MaxMeasures + Len(Location)
  BY <1>1, <1>2 DEF PerRound
<1>4. ASSUME NEW a \in Nat, NEW b \in Nat, a <= b PROVE p * a <= p * b
  BY <1>3, <1>4, TimesGrows
<1>5. Len(values_list) <= p * IF calibrating THEN MaxRounds ELSE 1
  <2>1. CASE Emptied
    <3>1. Len(values_list) <= p
      <4>1. ASSUME NEW n \in 0 .. MaxMeasures, values_list = Measured(round, n)
            PROVE  Len(values_list) <= p
        <5>1. n \in Nat /\ round \in Nat /\ n <= MaxMeasures
          OBVIOUS
        <5>2. Len(values_list) = n
          BY <4>1, <5>1, MeasuredIs
        <5> QED BY <1>1, <1>3, <5>1, <5>2
      <4>2. ASSUME NEW n \in 0 .. MaxMeasures, values_list = Measured(round, n) \o Location
            PROVE  Len(values_list) <= p
        <5>1. n \in Nat /\ round \in Nat /\ n <= MaxMeasures
          OBVIOUS
        <5>2. Measured(round, n) \in Seq(Entry) /\ Len(Measured(round, n)) = n
          BY <5>1, MeasuredIs
        <5>3. Len(values_list) = n + Len(Location)
          BY <1>1, <4>2, <5>2, ConcatProperties
        <5> QED BY <1>1, <1>3, <5>1, <5>3
      <4>3. Len(<< >>) = 0
        OBVIOUS
      <4>4. store_it = 0 => Len(values_list) <= p
        BY <2>1, <4>1 DEF ListOfThisRound
      <4>5. IsRound(values_list, round) => Len(values_list) <= p
        BY <4>2 DEF IsRound
      <4>6. values_list = << >> => Len(values_list) <= p
        BY <1>3, <4>3
      <4> QED BY <2>1, <4>4, <4>5, <4>6 DEF ListOfThisRound
    <3>2. values_list = << >> => Len(values_list) = 0
      OBVIOUS
    <3>3. MaxRounds > 0 => p * 1 <= p * MaxRounds
      BY <1>4
    <3>4. p * MaxRounds \in Nat /\ p * 1 = p
      BY <1>3
    <3>5. MaxRounds > 0 \/ Len(values_list) = 0
      BY <3>2
    <3>6. Len(values_list) \in Nat
      OBVIOUS
    <3>7. CASE calibrating
      BY <1>3, <3>1, <3>3, <3>4, <3>5, <3>6, <3>7
    <3>8. CASE ~calibrating
      BY <1>3, <3>1, <3>4, <3>8
    <3> QED BY <3>7, <3>8
  <2>2. CASE ~Emptied
    <3>1. calibrating /\ Cardinality(OfRound) \in Nat
      BY <2>2, OfRoundIsFinite DEF Emptied
    <3>2. p * round <= p * MaxRounds
      BY <1>4
    <3>3. round < MaxRounds => p * (round + 1) <= p * MaxRounds
      BY <1>4
    <3>4. p * (round + 1) = p * round + p /\ p * round \in Nat /\ p * MaxRounds \in Nat
      BY <1>3
    <3> QED BY <1>1, <1>2, <1>3, <2>2, <3>1, <3>2, <3>3, <3>4 DEF ListOfAllRounds
  <2> QED BY <2>1, <2>2
<1>6. \A i \in Index : Len(given[i]) <= MaxRounds
  <2> SUFFICES ASSUME NEW i \in Index PROVE Len(given[i]) <= MaxRounds
    OBVIOUS
  <2>1. Len(given[i]) <= Done(i) /\ given[i] \in Seq(Nat \X Seq(Entry))
    BY DEF Counted
  <2>2. i < store_it => store_it # 0
    BY DEF Index
  <2> QED BY <2>1, <2>2 DEF Done
<1> QED BY <1>2, <1>5, <1>6 DEF PushTypeOK, PerRound

LEMMA PushInvStep == PushInv /\ [PushStep]_pushVars => PushInv'
<1> SUFFICES ASSUME PushInv, [PushStep]_pushVars PROVE PushInv'
  OBVIOUS
<1>1. PushTypes' /\ ListOfThisRound' /\ ListOfAllRounds'
  BY PushTypesStep, ThisRoundStep, AllRoundsStep DEF PushInv
<1>2. Counted' /\ Ordered' /\ Contents'
  BY CountedStep, OrderedStep, ContentsStep DEF PushInv
<1> QED BY <1>1, <1>2 DEF PushInv

(* An activated datastore is given the rounds in order, none twice, each    *)
(* with its own values and the location; and all of them as long as no      *)
(* plugin was missing or answered None.  This holds for any number of       *)
(* datastores, rounds and measures; of the calibrator it is so of the first *)
(* one activated (push_data, push_to_datastore).                            *)
THEOREM DatastoresGetRounds == PushSpec => []EachGetsEachRound
<1>1. PushInv => EachGetsEachRound
  BY EachIs DEF PushInv
<1> QED BY <1>1, PushInvInit, PushInvStep, PTL DEF PushSpec

-----------------------------------------------------------------------------
(* All of them, as the run checks them: one runs, the others wait.          *)

ServicesInv == ServiceInv /\ LinkInv /\ PushInv

(* Every variable of the services keeps its type, for all values of the     *)
(* constants: the list of values stays within its bound, and nothing that   *)
(* was not asked for gets into the configuration.                           *)
THEOREM ServicesKeepTypes == ServicesSpec => []ServicesTypeOK
<1>1. ServicesInit => ServicesInv
  BY ServiceInvInit, LinkInvInit, PushInvInit DEF ServicesInit, ServicesInv
<1>2. ServicesInv /\ [ServicesNext]_servicesVars => ServicesInv'
  <2> SUFFICES ASSUME ServicesInv, [ServicesNext]_servicesVars PROVE ServicesInv'
    OBVIOUS
  <2>1. [ServiceStep]_serviceVars /\ [LinkStep]_linkVars /\ [PushStep]_pushVars
    BY DEF ServicesNext, Runs, servicesVars
  <2> QED BY <2>1, ServiceInvStep, LinkInvStep, PushInvStep DEF ServicesInv
<1>3. ServicesInv => ServicesTypeOK
  BY LinkTypeHolds, PushTypeHolds DEF ServicesInv, ServiceInv, ServicesTypeOK
<1> QED BY <1>1, <1>2, <1>3, PTL DEF ServicesSpec
=============================================================================
