---------------------------- MODULE SigningAdmin ----------------------------
(***************************************************************************)
(* The project's CA: the tool that creates it, signs gateways' requests    *)
(* and replaces it (SigningAdmin), the script that makes a gateway's key   *)
(* and request, and the operators who use both in the order that           *)
(* SigningAdmin/README.md gives.  Every file is written by itself, and the *)
(* tool may be interrupted between two writes or within one.  A CA or a    *)
(* gateway key is a number, none is 0; a certificate bundle is the set of  *)
(* its CAs.  Expiry, names and the review of a request are left out.       *)
(***************************************************************************)
EXTENDS Naturals, FiniteSets

CONSTANTS Gateways, MaxCrashes, MaxRepeats

VARIABLES
  made,       \* keys made so far, by which new ones are numbered
  issuer,     \* project-ca.crt and project-ca.key of the old and the new root
  created,    \* the tool has reported the new CA as created
  trust,      \* the App's trust path in the source tree
  published,  \* the trust of the newest App
  gateway,    \* a gateway's key, request and certificate
  issued,     \* the certificate signed for it last
  job,        \* what is being written
  outdated,   \* history: gateways whose key is newer than their certificate
  torn,       \* history: gateways whose last generation was interrupted
  repeats,    \* how often a key or a certificate was made again without need
  crashes

vars == <<made, issuer, created, trust, published, gateway, issued, job, outdated, torn, repeats, crashes>>
history == <<outdated, torn, repeats>>

Roots   == {"old", "new"}
NoCert  == [key |-> 0, issuer |-> 0, signer |-> 0]
Quiet   == [writes |-> "nothing"]
NewCA   == issuer["new"].cert
Rotates == issuer["old"].cert # 0

(* A first CA for a project that has none, or the rotation of one that is  *)
(* deployed on every gateway.  Gateways' keys are only compared with their *)
(* own requests and certificates: at first one number stands for all.      *)
Init ==
  /\ created = FALSE /\ job = Quiet /\ outdated = {} /\ torn = {} /\ repeats = 0 /\ crashes = 0
  /\ \/ /\ made = 0 /\ trust = {} /\ published = {}
        /\ issuer = [r \in Roots |-> [cert |-> 0, key |-> 0]]
        /\ gateway = [g \in Gateways |-> [key |-> 0, csr |-> 0, cert |-> NoCert]]
        /\ issued = [g \in Gateways |-> NoCert]
     \/ /\ made = 2 /\ trust = {1} /\ published = {1}
        /\ issuer = [r \in Roots |-> IF r = "old" THEN [cert |-> 1, key |-> 1] ELSE [cert |-> 0, key |-> 0]]
        /\ LET cert == [key |-> 2, issuer |-> 1, signer |-> 1] IN
             /\ gateway = [g \in Gateways |-> [key |-> 2, csr |-> 2, cert |-> cert]]
             /\ issued = [g \in Gateways |-> cert]

-----------------------------------------------------------------------------
(* Seeded fault: what is there is never replaced, confirmed or not. *)
AvailableNever(overwrite) == issuer["new"] = [cert |-> 0, key |-> 0] /\ (Rotates \/ trust = {})

(* _require_output_available, for the three files.  In a rotation the      *)
(* App's copy goes to another path first.                                  *)
Available(overwrite) ==
  overwrite \/ (issuer["new"] = [cert |-> 0, key |-> 0] /\ (Rotates \/ trust = {}))

(* initialize_project_ca: the certificate, its key, the App's copy.        *)
WriteCertificate(overwrite) ==
  /\ job = Quiet /\ ~created /\ Available(overwrite)
  /\ made' = made + 1 /\ issuer' = [issuer EXCEPT !["new"].cert = made + 1]
  /\ job' = [writes |-> "CA key"]
  /\ UNCHANGED <<created, trust, published, gateway, issued, history, crashes>>

WriteKey ==
  /\ job.writes = "CA key"
  /\ issuer' = [issuer EXCEPT !["new"].key = issuer["new"].cert]
  /\ job' = [writes |-> "App CA"]
  /\ UNCHANGED <<made, created, trust, published, gateway, issued, history, crashes>>

WriteAppCA ==
  /\ job.writes = "App CA" /\ job' = Quiet /\ created' = TRUE
  /\ trust' = IF Rotates THEN trust ELSE {NewCA}
  /\ UNCHANGED <<made, issuer, published, gateway, issued, history, crashes>>

-----------------------------------------------------------------------------
Bundle(cas) ==
  /\ trust' = {} /\ job' = [writes |-> "bundle", cas |-> cas]
  /\ UNCHANGED <<made, issuer, created, published, gateway, issued, history, crashes>>

(* Seeded fault: the transition bundle is the new root alone. *)
StageAlone ==
  /\ job = Quiet /\ created /\ Rotates /\ trust # {} /\ NewCA \notin trust
  /\ Bundle({NewCA})

(* stage_root_ca_rotation; a bundle without a certificate is refused.      *)
Stage ==
  /\ job = Quiet /\ created /\ Rotates /\ trust # {} /\ NewCA \notin trust
  /\ Bundle(trust \cup {NewCA})

Renewed == \A g \in Gateways : gateway[g].cert.issuer = NewCA

(* finalize_root_ca_rotation, when all gateways have new certificates.     *)
Finalize ==
  /\ job = Quiet /\ created /\ NewCA \in trust /\ trust # {NewCA} /\ Renewed
  /\ Bundle({NewCA})

WriteBundle ==
  /\ job.writes = "bundle" /\ trust' = job.cas /\ job' = Quiet
  /\ UNCHANGED <<made, issuer, created, published, gateway, issued, history, crashes>>

(* A bundle that has been cut off is taken from the repository again.      *)
Restore ==
  /\ job = Quiet /\ trust = {} /\ published # {} /\ trust' = published
  /\ UNCHANGED <<made, issuer, created, published, gateway, issued, job, history, crashes>>

Publish ==
  /\ job = Quiet /\ trust # {} /\ trust # published /\ published' = trust
  /\ UNCHANGED <<made, issuer, created, trust, gateway, issued, job, history, crashes>>

-----------------------------------------------------------------------------
Again(repeat) ==
  /\ repeat => repeats < MaxRepeats
  /\ repeats' = IF repeat THEN repeats + 1 ELSE repeats

(* generate_gateway_csr: the key, then the request.  What is there is      *)
(* replaced with --force, whether it was interrupted or its owner wants a  *)
(* new key.                                                                *)
Generate(g, force) ==
  /\ job = Quiet
  /\ force \/ (gateway[g].key = 0 /\ gateway[g].csr = 0)
  /\ Again(gateway[g].csr # 0)
  /\ made' = made + 1 /\ gateway' = [gateway EXCEPT ![g].key = made + 1]
  /\ job' = [writes |-> "CSR", gateway |-> g]
  /\ outdated' = IF issued[g] = NoCert THEN outdated ELSE outdated \cup {g}
  /\ UNCHANGED <<issuer, created, trust, published, issued, torn, crashes>>

WriteCSR ==
  /\ job.writes = "CSR" /\ job' = Quiet
  /\ gateway' = [gateway EXCEPT ![job.gateway].csr = gateway[job.gateway].key]
  /\ torn' = torn \ {job.gateway}
  /\ UNCHANGED <<made, issuer, created, trust, published, issued, outdated, repeats, crashes>>

Certified(g, ca, key) == [key |-> gateway[g].csr, issuer |-> issuer[ca].cert, signer |-> issuer[key].key]

(* The file is opened, which empties it, and then written. *)
Opens(g, cert) ==
  /\ Again(issued[g] = cert)
  /\ issued' = [issued EXCEPT ![g] = NoCert]
  /\ job' = [writes |-> "certificate", gateway |-> g, cert |-> cert]
  /\ UNCHANGED <<made, issuer, created, trust, published, gateway, outdated, torn, crashes>>

(* Seeded fault: the key is not compared with the certificate. *)
SignUnpaired(g, ca, key, overwrite) ==
  /\ job = Quiet /\ created /\ (Rotates => NewCA \in published) /\ ca = "new"
  /\ gateway[g].csr # 0 /\ issuer[key].key # 0
  /\ overwrite \/ issued[g] = NoCert
  /\ Opens(g, Certified(g, ca, key))

(* sign_gateway_csr, once the CA is created and, in a rotation, an App     *)
(* that trusts it is published.  The operator may name the wrong key.      *)
Sign(g, ca, key, overwrite) ==
  /\ job = Quiet /\ created /\ (Rotates => NewCA \in published) /\ ca = "new"
  /\ gateway[g].csr # 0 /\ issuer[ca].cert # 0 /\ issuer[key].key = issuer[ca].cert
  /\ overwrite \/ issued[g] = NoCert
  /\ Opens(g, Certified(g, ca, key))

WriteSigned ==
  /\ job.writes = "certificate" /\ job' = Quiet
  /\ issued' = [issued EXCEPT ![job.gateway] = job.cert]
  /\ outdated' = outdated \ {job.gateway}
  /\ UNCHANGED <<made, issuer, created, trust, published, gateway, torn, repeats, crashes>>

(* The certificate is downloaded and put beside the gateway's key. *)
Deploy(g) ==
  /\ issued[g] # NoCert /\ gateway[g].cert # issued[g]
  /\ gateway' = [gateway EXCEPT ![g].cert = issued[g]]
  /\ UNCHANGED <<made, issuer, created, trust, published, issued, job, history, crashes>>

(* A bundle that is cut off keeps the certificates that came first; a key, *)
(* a request or a certificate cannot be read.                              *)
Interrupted ==
  /\ job # Quiet /\ crashes < MaxCrashes /\ crashes' = crashes + 1 /\ job' = Quiet
  /\ trust' \in IF job.writes = "bundle" THEN {{}, job.cas \ {NewCA}} ELSE {trust}
  /\ IF job.writes = "CSR"
     THEN /\ torn' = torn \cup {job.gateway}
          /\ LET old == gateway[job.gateway] IN
               gateway' \in {[gateway EXCEPT ![job.gateway] = new] :
                             new \in {old, [old EXCEPT !.key = 0], [old EXCEPT !.csr = 0]}}
     ELSE UNCHANGED <<torn, gateway>>
  /\ UNCHANGED <<made, issuer, created, published, issued, outdated, repeats>>

Work ==
  \/ \E overwrite \in BOOLEAN : WriteCertificate(overwrite)
  \/ WriteKey \/ WriteAppCA \/ Stage \/ Finalize \/ WriteBundle \/ Restore \/ Publish \/ WriteCSR
  \/ WriteSigned
  \/ \E g \in Gateways :
       \/ Deploy(g) \/ \E force \in BOOLEAN : Generate(g, force)
       \/ \E ca, key \in Roots, overwrite \in BOOLEAN : Sign(g, ca, key, overwrite)

Next == Work \/ Interrupted

Spec == Init /\ [][Next]_vars

(* The operators go on until there is nothing left to do.                  *)
FairSpec == Spec /\ WF_vars(Work)

-----------------------------------------------------------------------------
Cert == [key : 0 .. made, issuer : 0 .. made, signer : 0 .. made]

TypeOK ==
  /\ made \in Nat /\ crashes \in Nat /\ created \in BOOLEAN
  /\ outdated \subseteq Gateways /\ torn \subseteq Gateways /\ repeats \in Nat
  /\ issuer \in [Roots -> [cert : 0 .. made, key : 0 .. made]]
  /\ trust \subseteq 1 .. made /\ published \subseteq 1 .. made
  /\ gateway \in [Gateways -> [key : 0 .. made, csr : 0 .. made, cert : Cert]]
  /\ issued \in [Gateways -> Cert]
  /\ job \in [writes : {"nothing", "CA key", "App CA"}]
             \cup [writes : {"bundle"}, cas : SUBSET (1 .. made)]
             \cup [writes : {"CSR"}, gateway : Gateways]
             \cup [writes : {"certificate"}, gateway : Gateways, cert : Cert]

(* The newest App trusts the certificate of every gateway, at any moment   *)
(* of a first deployment or a rotation and whatever write was interrupted. *)
TrustKept == \A g \in Gateways :
  gateway[g].cert # NoCert /\ published # {} => gateway[g].cert.signer \in published

(* A certificate names the CA whose key signed it.  It fits the key that   *)
(* its gateway holds if that key is not newer and its generation was not   *)
(* interrupted, however often both tools were interrupted and run again.   *)
CertificatesFit == \A g \in Gateways : issued[g] # NoCert =>
  /\ issued[g].issuer = issued[g].signer
  /\ g \notin outdated \cup torn => issued[g].key = gateway[g].key

(* Not true of the code: a certificate that is newer than the gateway's    *)
(* key fits it.  generate_gateway_csr --force that ends between its writes *)
(* leaves the old request beside the new key, and that is what is signed.  *)
NewCertificatesFit == \A g \in Gateways :
  issued[g] # NoCert /\ g \notin outdated => issued[g].key = gateway[g].key

(* In the end every gateway has a certificate of the new CA, and the App   *)
(* trusts that CA alone.                                                   *)
RolloutEnds == <>(Renewed /\ NewCA # 0 /\ published = {NewCA})
-----------------------------------------------------------------------------
(* What makes TrustKept and CertificatesFit inductive.                     *)
OldCA == issuer["old"].cert

(* The key of a CA is the one its certificate was written with, once there *)
(* is a key to sign with; nothing makes a CA again after it is created.    *)
CAPaired ==
  /\ issuer["old"].cert = issuer["old"].key
  /\ created \/ job.writes = "App CA" => NewCA # 0 /\ issuer["new"].key = NewCA
  /\ job.writes = "CA key" => ~created /\ NewCA # 0
  /\ job.writes = "App CA" => ~created

(* A request that was not interrupted is of the gateway's key, and so is   *)
(* the certificate that is made of it.                                     *)
Writing(what, g) == job.writes = what /\ job.gateway = g

KeyPaired(g) ==
  /\ gateway[g].csr # 0 /\ g \notin torn /\ ~Writing("CSR", g) => gateway[g].csr = gateway[g].key
  /\ issued[g] # NoCert /\ g \notin outdated => issued[g].key = gateway[g].csr /\ gateway[g].csr # 0
  /\ issued[g] # NoCert /\ Writing("CSR", g) => g \in outdated
  /\ Writing("certificate", g) => job.cert.key = gateway[g].csr /\ gateway[g].csr # 0

(* A certificate is of the old CA, or of the new one when Apps trust that. *)
ByNew(c) == created /\ c.signer = NewCA /\ (Rotates => NewCA \in published)
Signed(c) == c.issuer = c.signer /\ (c # NoCert => ByNew(c) \/ (Rotates /\ c.signer = OldCA))

CertsSigned(g) ==
  /\ Signed(gateway[g].cert) /\ Signed(issued[g])
  /\ gateway[g].cert # NoCert /\ issued[g] # NoCert =>
       (created /\ gateway[g].cert.signer = NewCA => issued[g].signer = NewCA)
  /\ Writing("certificate", g) => Signed(job.cert) /\ ByNew(job.cert) /\ NewCA # 0

(* The App trusts the old CA until all gateways are renewed, and the new   *)
(* one from its first release on; trust follows when it is not cut off.    *)
Backed(cas) == cas \subseteq {OldCA, NewCA} /\ (OldCA \in cas \/ Renewed)

TrustFollows ==
  /\ ~created => trust = published /\ published = IF Rotates THEN {OldCA} ELSE {}
  /\ created /\ ~Rotates => trust = {NewCA} /\ published \subseteq {NewCA}
  /\ created /\ Rotates => published # {} /\ Backed(published)
  /\ created /\ Rotates /\ trust # {} => Backed(trust) /\ (NewCA \in published => NewCA \in trust)

BundleFollows ==
  job.writes = "bundle" =>
    /\ created /\ Rotates /\ trust = {} /\ NewCA \in job.cas /\ Backed(job.cas)
    /\ NewCA \in published => job.cas = {NewCA}

RolloutInv ==
  /\ CAPaired /\ (\A g \in Gateways : KeyPaired(g) /\ CertsSigned(g))
  /\ TrustFollows /\ BundleFollows
=============================================================================
