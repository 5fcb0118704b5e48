------------------------------ MODULE MCServices ------------------------------
(***************************************************************************)
(* The services round the polling process, for TLC: the configuration tool *)
(* with the start of the gateway, the receiving end of the radio link, and *)
(* the push to the datastores.  They share no state here, so a behaviour   *)
(* runs one of them.                                                       *)
(***************************************************************************)
EXTENDS GatewayStart, XBeeLink, Datastores

VARIABLE running_service

ShippedNames == << "citypulse", "local", "pachube" >>

SampleValue(stores, place) == [active |-> stores, lat |-> place, lon |-> place]
ShippedValue == SampleValue({"local", "citypulse"}, "CKAB")
SampleForms == {SampleValue({"local"}, "home")}

Idle(s) == running_service # s

ServicesInit ==
  /\ running_service \in {"configuration", "link", "push"}
  /\ ServiceInit /\ (child = "polling" <=> Idle("configuration"))
  /\ LinkInit
  /\ PushInit
  /\ Idle("push") => /\ altitude /\ ~calibrating /\ installed = {}
                     /\ \A i \in Index : activated[i] = "true"

Runs(s) ==
  /\ running_service = s /\ UNCHANGED running_service
  /\ IF s = "configuration" THEN TRUE ELSE UNCHANGED serviceVars
  /\ IF s = "link" THEN TRUE ELSE UNCHANGED linkVars
  /\ IF s = "push" THEN TRUE ELSE UNCHANGED pushVars

ServicesNext ==
  \/ ServiceStep /\ Runs("configuration")
  \/ LinkStep /\ Runs("link")
  \/ PushStep /\ Runs("push")

servicesVars == << running_service, serviceVars, linkVars, pushVars >>

(* The fairness of ServiceSpec: a process that can go on does.              *)
ServicesSpec ==
  /\ ServicesInit /\ [][ServicesNext]_servicesVars
  /\ WF_servicesVars(LoadSection /\ Runs("configuration"))
  /\ WF_servicesVars(ParentReaps /\ Runs("configuration"))

(* Every variable of the services keeps its type.                           *)
ServicesTypeOK == WebTypeOK /\ GatewayTypeOK /\ LinkTypeOK /\ PushTypeOK
=============================================================================
