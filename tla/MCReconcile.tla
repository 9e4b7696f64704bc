---------------------------- MODULE MCReconcile ----------------------------
(* Part of catalog/services-v1.yaml for checking Reconcile: the gateway, the *)
(* mandatory services, one optional service with a database and a secret it  *)
(* shares with a mandatory one, and one with two units on a private network. *)
EXTENDS Reconcile

CServiceOrder == <<"tor", "schlussel", "schloss", "glocke", "wachter">>
CUnitOrder == <<"gateway", "schlussel", "schloss", "glocke-backend", "wachter-agent", "wachter">>
CServiceOf ==
  [gateway |-> "tor", schlussel |-> "schlussel", schloss |-> "schloss"]
    @@ "glocke-backend" :> "glocke" @@ "wachter-agent" :> "wachter" @@ "wachter" :> "wachter"
CDependsOn ==
  [tor |-> {}, schlussel |-> {"tor"}, schloss |-> {"tor", "schlussel"},
   glocke |-> {"tor", "schlussel"}, wachter |-> {"schloss"}]
CMandatory == {"tor", "schlussel", "schloss"}
CDbUnit == [schlussel |-> "schlussel", glocke |-> "glocke-backend"]
CWithVolume == {"tor", "schlussel", "glocke"}
CIsolated == {"wachter"}
CConsumers == [glocke |-> {"schlussel", "glocke-backend"}, wachter |-> {"wachter-agent", "wachter"}]
CRouted == {"schlussel", "schloss", "glocke"}
CSees ==
  [u \in {"gateway", "schlussel", "schloss", "glocke-backend", "wachter-agent", "wachter"} |->
     CASE u = "schlussel" -> {"glocke"}
       [] u = "schloss" -> {"glocke", "wachter"}
       [] OTHER -> {}]
CConfigured == {"glocke-backend"}
CUnitNeeds ==
  [u \in {"gateway", "schlussel", "schloss", "glocke-backend", "wachter-agent", "wachter"} |->
     IF u = "wachter" THEN {"wachter-agent"} ELSE {}]
CSchema ==
  [r1 |-> [schlussel |-> [from |-> 1, to |-> 1], glocke |-> [from |-> 1, to |-> 1]],
   r2 |-> [schlussel |-> [from |-> 1, to |-> 2], glocke |-> [from |-> 1, to |-> 1]]]

\* services.yml: first glocke only; then with wachter, another setting, another
\* release, glocke disabled with and without leave, or much of this at once.
CFirstManifest ==
  [enabled |-> {"glocke"}, retain |-> {}, setting |-> "a", backup |-> "daily", release |-> "r1"]
CManifests ==
  {CFirstManifest,
   [CFirstManifest EXCEPT !.enabled = {"glocke", "wachter"}],
   [CFirstManifest EXCEPT !.setting = "b"],
   [CFirstManifest EXCEPT !.release = "r2"],
   [CFirstManifest EXCEPT !.enabled = {}],
   [CFirstManifest EXCEPT !.enabled = {}, !.retain = {"glocke"}],
   [CFirstManifest EXCEPT !.enabled = {"wachter"}, !.retain = {"glocke"}, !.backup = "weekly"]}
=============================================================================
