------------------------- MODULE MCBackupOperation -------------------------
(* A proposed operation is reviewed; an unedited or lightly edited plan is   *)
(* then carried out.  The recovery kit lives in files of its own, so its     *)
(* publication is explored by itself.                                        *)
EXTENDS OperationV2, RecoveryKit, TLC

CUnits == <<"u1", "u2">>
CDestinationNames == <<"d1", "d2">>
CVolumes == <<"v1", "v2">>
CNetworkNames == <<"hof-hof">>
CSubs == {"u1", "d2", "v1", "x"}
CBogus == <<"bogus", "x">>

CBase ==
  [operation |-> "o1", installation |-> "i1", generation |-> 1, policy |-> "daily",
   sequence |-> 1, toolLock |-> "t1", release |-> "r1", kit |-> "k1", host |-> "h1",
   outcome |-> "succeeded"]

\* A retry of the same plan, and operations that differ in one respect.
COthers ==
  {[CBase EXCEPT !.operation = "o2"],
   [CBase EXCEPT !.operation = "o2", !.outcome = "abandoned"],
   [CBase EXCEPT !.outcome = "abandoned"], [CBase EXCEPT !.outcome = "failed"],
   [CBase EXCEPT !.installation = "i2"], [CBase EXCEPT !.generation = 2],
   [CBase EXCEPT !.policy = "weekly"], [CBase EXCEPT !.sequence = 2],
   [CBase EXCEPT !.toolLock = "t2"], [CBase EXCEPT !.release = "r2"],
   [CBase EXCEPT !.kit = "k2"], [CBase EXCEPT !.host = "h2"]}

CManifestOf ==
  <<[services |-> {"glocke"}, tls |-> "supplied", host |-> "h1"],
    [services |-> {"glocke", "wachter"}, tls |-> "supplied", host |-> "h1"],
    [services |-> {"glocke"}, tls |-> "acme", host |-> "h1"]>>
CReleaseLockOf == <<"r1", "r2", "r2">>
CNeeds == [glocke |-> {"glocke-to-schlussel-hmac-secret"}, wachter |-> {"wachter-agent-token"}]
CStores ==
  {{}, {"glocke-to-schlussel-hmac-secret"},
   {"glocke-to-schlussel-hmac-secret", "wachter-agent-token", "herold-credential-encryption-key"}}
CDestinations == <<[secretRef |-> "s1", type |-> "local"], [secretRef |-> "s2", type |-> "s3"]>>

CLocal == [type |-> "local", fields |-> {"resticPassword"}]
CS3 == [type |-> "s3", fields |-> {"resticPassword", "accessKeyId", "secretAccessKey"}]
CCredentialStores ==
  {[s1 |-> CLocal], [s1 |-> CLocal, s2 |-> CLocal], [s1 |-> CLocal, s2 |-> CS3],
   [s1 |-> CLocal, s2 |-> CS3, s3 |-> CS3],
   [s1 |-> CLocal, s2 |-> [CS3 EXCEPT !.fields = {"resticPassword"}]]}
CIdentityOf == [age1 |-> "identity"]

CallSymmetry == Permutations(Call) \cup Permutations(Publisher) \cup Permutations(Op)

MCInit == ReviewInit /\ OpInit /\ KitInit

NoKit == kitFile = None /\ \A p \in Publisher : kitOffer[p] = None

MCNext ==
  \/ NoKit /\ ReviewNext /\ UNCHANGED <<opVars, kitVars>>
  \/ stage = "approved" /\ OpNext /\ UNCHANGED <<reviewVars, kitVars>>
  \/ stage = "review" /\ edits = 0 /\ mix = Unmixed /\ KitNext /\ UNCHANGED <<reviewVars, opVars>>

MCSpec == MCInit /\ [][MCNext]_<<reviewVars, opVars, kitVars>>
=============================================================================
