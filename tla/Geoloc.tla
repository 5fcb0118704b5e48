------------------------------- MODULE Geoloc -------------------------------
(***************************************************************************)
(* The geolocalisation form of the datastores page (geoloc_osm.js): the    *)
(* address, the two coordinates, the lock on them and the place the map is *)
(* centred on.  Questions go to /geoloc/<address> asynchronously; nothing  *)
(* ties an answer to the address that is on the form when it comes, and an *)
(* answer that fails is not handled at all.                                *)
(***************************************************************************)
EXTENDS Alerts, Naturals, FiniteSets

CONSTANTS Address,   \* what a user may ask for
          MaxAsked   \* bound: questions sent

None == "none"
Saved == "saved"     \* the coordinates the configuration file holds
Typed == "typed"     \* typed by hand
Place == Address \cup {None, Saved, Typed}

ASSUME GeolocAssumption ==
  MaxAsked \in Nat /\ {None, Saved, Typed} \cap Address = {}

VARIABLES ready,      \* the ready handlers have run
          osm,        \* OpenLayers, served by another site, was loaded
          lat, lon,   \* the two fields: the place they belong to
          locked,     \* both are read-only, the button says Change/Reset
          position,   \* the place the map is centred on: <<lon, lat>>
          asking,     \* questions on their way: <<number, address>>
          asked,      \* how many were sent
          told        \* an error was shown once the page's alerts had faded

formVars == << lat, lon, locked, position >>
geolocVars == << ready, osm, formVars, asking, asked, told >>
pageVars == << support, alertVars, geolocVars >>

GeolocTypeOK ==
  /\ AlertsTypeOK
  /\ ready \in BOOLEAN /\ osm \in BOOLEAN /\ locked \in BOOLEAN
  /\ lat \in Place /\ lon \in Place
  /\ position \in Place \X Place
  /\ asking \in SUBSET ((1 .. MaxAsked) \X Address)
  /\ asked \in 0 .. MaxAsked
  /\ told \in BOOLEAN

(* A file may hold one coordinate, both, or none.                           *)
GeolocInit ==
  /\ ready = FALSE /\ osm \in BOOLEAN
  /\ lat \in {None, Saved} /\ lon \in {None, Saved}
  /\ locked = FALSE
  /\ position = << None, None >>
  /\ asking = {} /\ asked = 0
  /\ told = FALSE

DocumentReady_Either ==  \* mutant: one coordinate is enough to lock both
  /\ ~ready /\ ready' = TRUE
  /\ IF osm
     THEN /\ position' = << lon, lat >>
          /\ locked' = (lat # None \/ lon # None)
     ELSE UNCHANGED << position, locked >>
  /\ UNCHANGED << osm, lat, lon, asking, asked, told, alertVars >>

(* The two ready handlers.  Where OpenLayers is missing the first one       *)
(* raises, and jQuery runs none of those behind it.                         *)
DocumentReady ==
  /\ ~ready /\ ready' = TRUE
  /\ IF osm
     THEN /\ position' = << lon, lat >>
          /\ locked' = (lat # None /\ lon # None)
     ELSE UNCHANGED << position, locked >>
  /\ UNCHANGED << osm, lat, lon, asking, asked, told, alertVars >>

(* The user edits a coordinate; a read-only field takes no key.             *)
TypeCoordinate ==
  /\ ready /\ ~locked
  /\ \/ lat' \in {None, Typed} /\ UNCHANGED lon
     \/ lon' \in {None, Typed} /\ UNCHANGED lat
  /\ UNCHANGED << ready, osm, locked, position, asking, asked, told, alertVars >>

(* getCoordinates with an empty address.                                    *)
ResetCoordinates ==
  /\ ready
  /\ lat' = None /\ lon' = None /\ locked' = FALSE
  /\ UNCHANGED << ready, osm, position, asking, asked, told, alertVars >>

(* getCoordinates with an address.                                          *)
AskCoordinates(a) ==
  /\ ready /\ asked < MaxAsked
  /\ asked' = asked + 1
  /\ asking' = asking \cup {<< asked + 1, a >>}
  /\ UNCHANGED << ready, osm, formVars, told, alertVars >>

(* The answer names one place: the fields are filled and locked before the  *)
(* map is touched, which raises where OpenLayers is missing.                *)
AnswerOne(q) ==
  /\ q \in asking /\ asking' = asking \ {q}
  /\ lat' = q[2] /\ lon' = q[2] /\ locked' = TRUE
  /\ position' = IF osm THEN << q[2], q[2] >> ELSE position
  /\ UNCHANGED << ready, osm, asked, told, alertVars >>

(* The answer names no place or several.                                    *)
AnswerUnclear(q) ==
  /\ q \in asking /\ asking' = asking \ {q}
  /\ ShowError
  /\ told' = (told \/ (fadeTimer = "fired" /\ Err \notin fading))
  /\ UNCHANGED << ready, osm, formVars, asked >>

(* No answer, or one that is not JSON: there is no error handler.           *)
AnswerFails(q) ==
  /\ q \in asking /\ asking' = asking \ {q}
  /\ UNCHANGED << ready, osm, formVars, asked, told, alertVars >>

Answer(q) == AnswerOne(q) \/ AnswerUnclear(q) \/ AnswerFails(q)

GeolocStep ==
  \/ DocumentReady \/ TypeCoordinate \/ ResetCoordinates
  \/ \E a \in Address : AskCoordinates(a)
  \/ \E q \in asking : Answer(q)

PageInit == SupportInit /\ AlertsInit /\ GeolocInit

(* The timer of custom.js is set by the ready event, too.                   *)
PageNext ==
  /\ UNCHANGED support
  /\ \/ GeolocStep
     \/ ready /\ AlertStep /\ UNCHANGED geolocVars

PageSpec == PageInit /\ [][PageNext]_pageVars

-----------------------------------------------------------------------------
(* However late and in whatever order answers come (getCoordinates has no   *)
(* guard against it), locked coordinates are complete, belong to one place  *)
(* and are where the map is.  It need not be the place asked for last, and  *)
(* fields that are not locked may be typed one by one (setCoordinates,      *)
(* resetCoordinates).                                                       *)
LockedTogether ==
  locked =>
    /\ lat # None /\ lat = lon
    /\ osm => position = << lon, lat >>

(* An error that comes once the alerts of the page have faded (custom.js)   *)
(* stays on screen until the user closes it (showError, Alert.close).       *)
ErrorStays == told /\ Err \in present /\ Err \in opaque => Err \in displayed
=============================================================================
