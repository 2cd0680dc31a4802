------------------------- MODULE SigningAdminProofs -------------------------
(***************************************************************************)
(* Proofs about SigningAdmin, for any number of gateways and any number of *)
(* interruptions: the newest App trusts every deployed certificate, and    *)
(* every certificate fits.                                                 *)
(***************************************************************************)
EXTENDS SigningAdmin, TLAPS

Jobs == [writes : {"nothing", "CA key", "App CA"}]
        \cup [writes : {"bundle"}, cas : SUBSET (1 .. made)]
        \cup [writes : {"CSR"}, gateway : Gateways]
        \cup [writes : {"certificate"}, gateway : Gateways, cert : Cert]

LEMMA InitTypes == Init => TypeOK
  <1> SUFFICES ASSUME Init PROVE TypeOK
    OBVIOUS
  <1>0. made \in Nat /\ crashes \in Nat /\ created \in BOOLEAN /\ job \in Jobs
        /\ outdated \subseteq Gateways /\ torn \subseteq Gateways /\ repeats \in Nat
    <2>1. job \in Jobs
      BY DEF Init, Jobs, Quiet
    <2>2. /\ made \in Nat /\ crashes \in Nat
          /\ outdated \subseteq Gateways /\ torn \subseteq Gateways /\ repeats \in Nat
      BY DEF Init
    <2> QED
      BY <2>1, <2>2 DEF Init
  <1>1. trust \subseteq 1 .. made /\ published \subseteq 1 .. made
    BY DEF Init
  <1>2. issuer \in [Roots -> [cert : 0 .. made, key : 0 .. made]]
    BY DEF Init, Roots
  <1>3. /\ gateway \in [Gateways -> [key : 0 .. made, csr : 0 .. made, cert : Cert]]
        /\ issued \in [Gateways -> Cert]
    <2>1. CASE made = 0
      BY <2>1 DEF Init, Cert, NoCert
    <2>2. CASE made = 2
      BY <2>2 DEF Init, Cert, NoCert
    <2> QED
      BY <2>1, <2>2 DEF Init
  <1> QED
    BY <1>0, <1>1, <1>2, <1>3 DEF TypeOK, Jobs

(* A new key leaves all numbers numbers. *)
LEMMA Made ==
  ASSUME TypeOK, made' = made + 1
  PROVE  /\ made' \in Nat /\ 0 .. made \subseteq 0 .. made' /\ 1 .. made \subseteq 1 .. made'
         /\ made + 1 \in 0 .. made' /\ Cert \subseteq Cert'
  <1>1. made \in Nat
    BY DEF TypeOK
  <1>2. made' \in Nat /\ made + 1 \in 0 .. made'
    BY <1>1
  <1>3. 0 .. made \subseteq 0 .. made' /\ 1 .. made \subseteq 1 .. made'
    BY <1>1
  <1> QED
    BY <1>2, <1>3 DEF Cert

(* Repeats are counted. *)
LEMMA AgainTypes ==
  ASSUME repeats \in Nat, NEW repeat, Again(repeat)
  PROVE  repeats' \in Nat
  BY DEF Again

(* A key or a request that was cut off cannot be read; the rest stays.     *)
LEMMA CutTypes ==
  ASSUME TypeOK, Interrupted, job.writes = "CSR"
  PROVE  /\ job.gateway \in Gateways /\ torn' = torn \cup {job.gateway}
         /\ gateway' \in [Gateways -> [key : 0 .. made, csr : 0 .. made, cert : Cert]]
         /\ \A g \in Gateways : g # job.gateway => gateway'[g] = gateway[g]
         /\ \A g \in Gateways : gateway'[g].cert = gateway[g].cert
  <1>1. job.gateway \in Gateways /\ made \in Nat
    BY DEF TypeOK
  <1>2. PICK old : old = gateway[job.gateway]
    OBVIOUS
  <1>3. old \in [key : 0 .. made, csr : 0 .. made, cert : Cert]
    BY <1>1, <1>2 DEF TypeOK
  <1>4. PICK new \in {old, [old EXCEPT !.key = 0], [old EXCEPT !.csr = 0]} :
          gateway' = [gateway EXCEPT ![job.gateway] = new]
    BY <1>2 DEF Interrupted
  <1>5. new \in [key : 0 .. made, csr : 0 .. made, cert : Cert] /\ new.cert = old.cert
    BY <1>1, <1>3, <1>4
  <1>6. /\ gateway'[job.gateway] = new
        /\ \A g \in Gateways : g # job.gateway => gateway'[g] = gateway[g]
    BY <1>1, <1>4 DEF TypeOK
  <1>7. gateway' \in [Gateways -> [key : 0 .. made, csr : 0 .. made, cert : Cert]]
    BY <1>4, <1>5 DEF TypeOK
  <1> QED
    BY <1>1, <1>2, <1>5, <1>6, <1>7 DEF Interrupted

LEMMA Types == TypeOK /\ CAPaired /\ [Next]_vars => TypeOK'
  <1> SUFFICES ASSUME TypeOK, CAPaired, [Next]_vars PROVE TypeOK'
    OBVIOUS
  <1>0. NewCA \in 0 .. made /\ (created \/ job.writes = "App CA" => NewCA \in 1 .. made)
    <2>1. made \in Nat /\ NewCA \in 0 .. made
      BY DEF TypeOK, NewCA, Roots
    <2>2. created \/ job.writes = "App CA" => NewCA # 0
      BY DEF CAPaired
    <2>3. ASSUME created \/ job.writes = "App CA" PROVE NewCA \in 1 .. made
      <3>1. NewCA # 0
        BY <2>2, <2>3
      <3> QED
        BY <2>1, <3>1
    <2> QED
      BY <2>1, <2>3
  <1>1. ASSUME NEW overwrite \in BOOLEAN, WriteCertificate(overwrite) PROVE TypeOK'
    <2>1. made' = made + 1 /\ issuer' = [issuer EXCEPT !["new"].cert = made + 1]
      BY <1>1 DEF WriteCertificate
    <2>2. issuer' \in [Roots -> [cert : 0 .. made', key : 0 .. made']]
      BY <2>1, Made DEF TypeOK, Roots
    <2>3. /\ trust' \subseteq 1 .. made' /\ published' \subseteq 1 .. made'
          /\ gateway' \in [Gateways -> [key : 0 .. made', csr : 0 .. made', cert : Cert']]
          /\ issued' \in [Gateways -> Cert']
      BY <1>1, <2>1, Made DEF TypeOK, WriteCertificate
    <2>4. /\ job' \in Jobs' /\ made' \in Nat /\ crashes' \in Nat /\ created' \in BOOLEAN
          /\ outdated' \subseteq Gateways /\ torn' \subseteq Gateways /\ repeats' \in Nat
      BY <1>1, <2>1, Made DEF TypeOK, WriteCertificate, Jobs, history
    <2> QED
      BY <2>2, <2>3, <2>4 DEF TypeOK, Jobs
  <1>2. CASE WriteKey
    <2>1. issuer' \in [Roots -> [cert : 0 .. made, key : 0 .. made]]
      BY <1>2 DEF TypeOK, WriteKey, Roots
    <2> QED
      BY <1>2, <2>1 DEF TypeOK, WriteKey, Cert, history
  <1>3. CASE WriteAppCA
    <2>1. trust' \subseteq 1 .. made
      BY <1>0, <1>3 DEF TypeOK, WriteAppCA
    <2> QED
      BY <1>3, <2>1 DEF TypeOK, WriteAppCA, Cert, Quiet, history
  <1>4. ASSUME NEW cas \in SUBSET (1 .. made), Bundle(cas) PROVE TypeOK'
    BY <1>4 DEF TypeOK, Bundle, Cert, history
  <1>5. CASE Stage
    <2>1. trust \cup {NewCA} \in SUBSET (1 .. made)
      BY <1>0, <1>5 DEF TypeOK, Stage
    <2> QED
      BY <1>4, <1>5, <2>1 DEF Stage
  <1>6. CASE Finalize
    <2>1. NewCA \in trust /\ trust \subseteq 1 .. made
      BY <1>6 DEF TypeOK, Finalize
    <2>2. {NewCA} \in SUBSET (1 .. made)
      BY <2>1
    <2> QED
      BY <1>4, <1>6, <2>2 DEF Finalize
  <1>7. CASE WriteBundle
    BY <1>7 DEF TypeOK, WriteBundle, Cert, Quiet, history
  <1>8. CASE Restore
    BY <1>8 DEF TypeOK, Restore, Cert, history
  <1>9. CASE Publish
    BY <1>9 DEF TypeOK, Publish, Cert, history
  <1>10. CASE WriteCSR
    <2>1. gateway' \in [Gateways -> [key : 0 .. made, csr : 0 .. made, cert : Cert]]
      BY <1>10 DEF TypeOK, WriteCSR
    <2> QED
      BY <1>10, <2>1 DEF TypeOK, WriteCSR, Cert, Quiet
  <1>11. ASSUME NEW g \in Gateways, NEW force \in BOOLEAN, Generate(g, force) PROVE TypeOK'
    <2>1. made' = made + 1 /\ gateway' = [gateway EXCEPT ![g].key = made + 1]
      BY <1>11 DEF Generate
    <2>2. gateway' \in [Gateways -> [key : 0 .. made', csr : 0 .. made', cert : Cert']]
      BY <2>1, Made DEF TypeOK
    <2>3. /\ trust' \subseteq 1 .. made' /\ published' \subseteq 1 .. made'
          /\ issuer' \in [Roots -> [cert : 0 .. made', key : 0 .. made']]
          /\ issued' \in [Gateways -> Cert']
      BY <1>11, <2>1, Made DEF TypeOK, Generate
    <2>4. job' \in Jobs' /\ made' \in Nat /\ crashes' \in Nat /\ created' \in BOOLEAN
      BY <1>11, <2>1, Made DEF TypeOK, Generate, Jobs
    <2>5. outdated' \subseteq Gateways /\ torn' \subseteq Gateways /\ repeats' \in Nat
      BY <1>11, AgainTypes DEF TypeOK, Generate
    <2> QED
      BY <2>2, <2>3, <2>4, <2>5 DEF TypeOK, Jobs
  <1>12. ASSUME NEW g \in Gateways, Deploy(g) PROVE TypeOK'
    <2>1. gateway' \in [Gateways -> [key : 0 .. made, csr : 0 .. made, cert : Cert]]
      BY <1>12 DEF TypeOK, Deploy
    <2> QED
      BY <1>12, <2>1 DEF TypeOK, Deploy, Cert, history
  <1>13. ASSUME NEW g \in Gateways, NEW ca \in Roots, NEW key \in Roots, NEW overwrite \in BOOLEAN,
                Sign(g, ca, key, overwrite)
         PROVE  TypeOK'
    <2>1. Certified(g, ca, key) \in Cert /\ NoCert \in Cert
      <3>1. Certified(g, ca, key) \in Cert
        BY DEF TypeOK, Certified, Cert
      <3>2. made \in Nat
        BY DEF TypeOK
      <3>3. 0 \in 0 .. made
        BY <3>2
      <3> QED
        BY <3>1, <3>3 DEF NoCert, Cert
    <2>2. Opens(g, Certified(g, ca, key))
      BY <1>13 DEF Sign
    <2>3. issued' \in [Gateways -> Cert]
      BY <2>1, <2>2 DEF TypeOK, Opens
    <2>4. job' \in Jobs
      BY <2>1, <2>2 DEF Opens, Jobs
    <2>5. repeats' \in Nat
      BY <2>2, AgainTypes DEF TypeOK, Opens
    <2> QED
      BY <2>2, <2>3, <2>4, <2>5 DEF TypeOK, Opens, Cert, Jobs
  <1>14. CASE Interrupted
    <2>1. job.writes = "bundle" => job.cas \subseteq 1 .. made
      BY DEF TypeOK
    <2>2. trust' \subseteq 1 .. made
      BY <1>14, <2>1 DEF TypeOK, Interrupted
    <2>3. crashes' \in Nat
      <3>1. crashes \in Nat /\ crashes' = crashes + 1
        BY <1>14 DEF TypeOK, Interrupted
      <3> QED
        BY <3>1
    <2>4. /\ torn' \subseteq Gateways
          /\ gateway' \in [Gateways -> [key : 0 .. made, csr : 0 .. made, cert : Cert]]
      BY <1>14, CutTypes DEF Interrupted, TypeOK
    <2> QED
      BY <1>14, <2>2, <2>3, <2>4 DEF TypeOK, Interrupted, Cert, Quiet
  <1>16. CASE WriteSigned
    <2>1. job.gateway \in Gateways /\ job.cert \in Cert
      BY <1>16 DEF TypeOK, WriteSigned
    <2>2. issued' \in [Gateways -> Cert]
      BY <1>16, <2>1 DEF TypeOK, WriteSigned
    <2> QED
      BY <1>16, <2>2 DEF TypeOK, WriteSigned, Cert, Quiet
  <1>15. CASE UNCHANGED vars
    BY <1>15 DEF TypeOK, vars, Cert
  <1> QED
    BY <1>1, <1>2, <1>3, <1>5, <1>6, <1>7, <1>8, <1>9, <1>10, <1>11, <1>12, <1>13, <1>14, <1>15, <1>16
       DEF Next, Work

-----------------------------------------------------------------------------
LEMMA InitRollout == Init => RolloutInv
  <1> SUFFICES ASSUME Init PROVE RolloutInv
    OBVIOUS
  <1>1. CAPaired /\ BundleFollows
    BY DEF Init, CAPaired, BundleFollows, Quiet, Roots, NewCA
  <1>2. ASSUME NEW g \in Gateways PROVE KeyPaired(g)
    BY DEF Init, KeyPaired, Writing, Quiet, NoCert
  <1>3. ASSUME NEW g \in Gateways PROVE CertsSigned(g)
    BY DEF Init, CertsSigned, Writing, Quiet, Signed, ByNew, NoCert, Rotates, OldCA, NewCA, Roots
  <1>4. TrustFollows
    BY DEF Init, TrustFollows, Backed, Rotates, OldCA, NewCA, Roots
  <1> QED
    BY <1>1, <1>2, <1>3, <1>4 DEF RolloutInv

(* What a step leaves alone when it writes neither a CA nor the App's      *)
(* trust: the invariant is about keys and certificates then.               *)
LEMMA SameTrust ==
  ASSUME RolloutInv, Renewed => Renewed',
         UNCHANGED <<issuer, created, trust, published>>, job' = Quiet \/ job'.writes \in {"CSR", "certificate"}
  PROVE  CAPaired' /\ TrustFollows' /\ BundleFollows'
  <1>1. NewCA' = NewCA /\ OldCA' = OldCA /\ Rotates' = Rotates
    BY DEF NewCA, OldCA, Rotates
  <1>2. job'.writes \in {"nothing", "CSR", "certificate"}
    BY DEF Quiet
  <1>3. CAPaired'
    BY <1>1, <1>2 DEF RolloutInv, CAPaired
  <1>4. BundleFollows'
    BY <1>2 DEF BundleFollows
  <1>5. TrustFollows'
    BY <1>1 DEF RolloutInv, TrustFollows, Backed
  <1> QED
    BY <1>3, <1>4, <1>5

(* A step that leaves the keys, the certificates and the Apps alone.       *)
LEMMA SameKeys ==
  ASSUME RolloutInv, UNCHANGED <<gateway, issued, outdated, torn>>,
         job.writes \notin {"CSR", "certificate"}, job'.writes \notin {"CSR", "certificate"},
         NEW g \in Gateways
  PROVE  KeyPaired(g)'
  BY DEF RolloutInv, KeyPaired, Writing, NoCert

(* Certificates stay what they are while CAs and Apps do.                  *)
LEMMA StaySigned ==
  ASSUME UNCHANGED <<issuer, created>>, NewCA \in published => NewCA \in published',
         NEW c, NEW d, d = c, Signed(c)
  PROVE  Signed(d)' /\ (ByNew(c) => ByNew(d)')
  <1>1. NewCA' = NewCA /\ OldCA' = OldCA /\ Rotates' = Rotates
    BY DEF NewCA, OldCA, Rotates
  <1> QED
    BY <1>1 DEF Signed, ByNew, NoCert

LEMMA SameCertificates ==
  ASSUME RolloutInv, UNCHANGED <<issued, issuer, created>>, NEW g \in Gateways,
         gateway'[g].cert = gateway[g].cert,
         NewCA \in published => NewCA \in published', job'.writes # "certificate" \/ job' = job
  PROVE  CertsSigned(g)'
  <1>1. NewCA' = NewCA /\ OldCA' = OldCA /\ Rotates' = Rotates
    BY DEF NewCA, OldCA, Rotates
  <1>2. CertsSigned(g)
    BY DEF RolloutInv
  <1>3. Signed(gateway[g].cert)' /\ Signed(issued[g])'
    BY <1>1, <1>2 DEF CertsSigned, Signed, ByNew, NoCert
  <1>4. Writing("certificate", g)' => Signed(job.cert)' /\ ByNew(job.cert)' /\ NewCA' # 0
    BY <1>1, <1>2 DEF CertsSigned, Writing, Signed, ByNew, NoCert
  <1> QED
    BY <1>1, <1>2, <1>3, <1>4 DEF CertsSigned, NoCert

LEMMA SameRenewed ==
  ASSUME UNCHANGED issuer, \A g \in Gateways : gateway'[g].cert = gateway[g].cert
  PROVE  Renewed' = Renewed
  BY DEF Renewed, NewCA
-----------------------------------------------------------------------------
(* The keys and requests of the gateways. *)
LEMMA GenerateKeeps ==
  ASSUME TypeOK, RolloutInv, NEW h \in Gateways, NEW force \in BOOLEAN, Generate(h, force)
  PROVE  RolloutInv'
  <1>1. /\ \A g \in Gateways : gateway'[g].cert = gateway[g].cert /\ gateway'[g].csr = gateway[g].csr
        /\ \A g \in Gateways : g # h => gateway'[g].key = gateway[g].key
    BY DEF TypeOK, Generate
  <1>2. /\ job = Quiet /\ job'.writes = "CSR" /\ job'.gateway = h
        /\ UNCHANGED <<issuer, created, trust, published, issued, torn>>
        /\ outdated \subseteq outdated' /\ outdated' \subseteq outdated \cup {h}
        /\ issued[h] # NoCert => h \in outdated'
    BY DEF Generate
  <1>3. ASSUME NEW g \in Gateways PROVE KeyPaired(g)'
    BY <1>1, <1>2 DEF RolloutInv, KeyPaired, Writing, Quiet, NoCert
  <1>4. Renewed' = Renewed
    BY <1>1, <1>2, SameRenewed
  <1>5. ASSUME NEW g \in Gateways PROVE CertsSigned(g)'
    BY <1>1, <1>2, SameCertificates
  <1> QED
    BY <1>2, <1>3, <1>4, <1>5, SameTrust DEF RolloutInv

LEMMA WriteCSRKeeps ==
  ASSUME TypeOK, RolloutInv, WriteCSR
  PROVE  RolloutInv'
  <1>1. /\ job.writes = "CSR" /\ job.gateway \in Gateways /\ job' = Quiet
        /\ UNCHANGED <<issuer, created, trust, published, issued, outdated>>
        /\ torn' = torn \ {job.gateway}
    BY DEF TypeOK, WriteCSR
  <1>2. /\ \A g \in Gateways : gateway'[g].cert = gateway[g].cert /\ gateway'[g].key = gateway[g].key
        /\ \A g \in Gateways : g # job.gateway => gateway'[g].csr = gateway[g].csr
        /\ gateway'[job.gateway].csr = gateway[job.gateway].key
    BY <1>1 DEF TypeOK, WriteCSR
  <1>3. ASSUME NEW g \in Gateways PROVE KeyPaired(g)'
    BY <1>1, <1>2 DEF RolloutInv, KeyPaired, Writing, NoCert, Quiet
  <1>4. Renewed' = Renewed
    BY <1>1, <1>2, SameRenewed
  <1>5. ASSUME NEW g \in Gateways PROVE CertsSigned(g)'
    BY <1>1, <1>2, SameCertificates DEF Quiet
  <1> QED
    BY <1>1, <1>3, <1>4, <1>5, SameTrust DEF RolloutInv

(* Certificates.  A renewed gateway gets no other certificate than one of  *)
(* the new CA.                                                             *)
LEMMA DeployKeeps ==
  ASSUME TypeOK, RolloutInv, NEW h \in Gateways, Deploy(h)
  PROVE  RolloutInv'
  <1>1. /\ \A g \in Gateways : gateway'[g].csr = gateway[g].csr /\ gateway'[g].key = gateway[g].key
        /\ \A g \in Gateways : g # h => gateway'[g].cert = gateway[g].cert
        /\ gateway'[h].cert = issued[h]
    BY DEF TypeOK, Deploy
  <1>2. /\ issued[h] # NoCert
        /\ UNCHANGED <<issuer, created, trust, published, issued, job, outdated, torn>>
    BY DEF Deploy, history
  <1>3. ASSUME NEW g \in Gateways PROVE KeyPaired(g)'
    BY <1>1, <1>2 DEF RolloutInv, KeyPaired, Writing, NoCert
  <1>4. NewCA' = NewCA /\ OldCA' = OldCA /\ Rotates' = Rotates
    BY <1>2 DEF NewCA, OldCA, Rotates
  <1>5. ASSUME NEW g \in Gateways PROVE CertsSigned(g)'
    <2>1. CASE g # h
      BY <1>1, <1>2, <2>1, SameCertificates
    <2>2. CASE g = h
      <3>1. CertsSigned(h) /\ issued'[h] = issued[h] /\ job' = job
        BY <1>2 DEF RolloutInv
      <3>2. Signed(gateway[h].cert)' /\ Signed(issued[h])'
        BY <1>1, <1>2, <1>4, <3>1 DEF CertsSigned, Signed, ByNew, NoCert
      <3>3. Writing("certificate", h)' => Signed(job.cert)' /\ ByNew(job.cert)' /\ NewCA' # 0
        BY <1>2, <1>4, <3>1 DEF CertsSigned, Writing, Signed, ByNew, NoCert
      <3> QED
        BY <1>1, <2>2, <3>1, <3>2, <3>3 DEF CertsSigned, NoCert
    <2> QED
      BY <2>1, <2>2
  <1>6. created /\ Renewed => Renewed'
    <2>1. ASSUME created, Renewed PROVE issued[h].issuer = NewCA
      <3>1. NewCA # 0 /\ gateway[h].cert.issuer = NewCA /\ CertsSigned(h)
        BY <2>1 DEF RolloutInv, CAPaired, Renewed
      <3>2. gateway[h].cert # NoCert /\ gateway[h].cert.signer = NewCA
        BY <3>1 DEF CertsSigned, Signed, NoCert
      <3> QED
        BY <1>2, <2>1, <3>1, <3>2 DEF CertsSigned, Signed
    <2> QED
      BY <1>1, <1>4, <2>1 DEF Renewed
  <1>7. CAPaired'
    BY <1>2, <1>4 DEF RolloutInv, CAPaired
  <1>8. TrustFollows' /\ BundleFollows'
    BY <1>2, <1>4, <1>6 DEF RolloutInv, TrustFollows, BundleFollows, Backed
  <1> QED
    BY <1>3, <1>5, <1>7, <1>8 DEF RolloutInv

LEMMA SignKeeps ==
  ASSUME TypeOK, RolloutInv, NEW h \in Gateways, NEW ca \in Roots, NEW key \in Roots,
         NEW overwrite \in BOOLEAN, Sign(h, ca, key, overwrite)
  PROVE  RolloutInv'
  <1>1. /\ job = Quiet /\ created /\ (Rotates => NewCA \in published) /\ gateway[h].csr # 0
        /\ NewCA # 0 /\ Opens(h, Certified(h, ca, key))
        /\ issuer[ca].cert = NewCA /\ issuer[key].key = NewCA
    BY DEF Sign, NewCA
  <1>2. PICK cert : cert = Certified(h, ca, key)
    OBVIOUS
  <1>3. cert.key = gateway[h].csr /\ cert.issuer = NewCA /\ cert.signer = NewCA
    BY <1>1, <1>2 DEF Certified
  <1>4. /\ job'.writes = "certificate" /\ job'.gateway = h /\ job'.cert = cert
        /\ UNCHANGED <<issuer, created, trust, published, gateway, outdated, torn>>
        /\ \A g \in Gateways : g # h => issued'[g] = issued[g]
        /\ issued'[h] = NoCert
    BY <1>1, <1>2 DEF TypeOK, Opens
  <1>5. ASSUME NEW g \in Gateways PROVE KeyPaired(g)'
    BY <1>1, <1>3, <1>4 DEF RolloutInv, KeyPaired, Writing, Quiet, NoCert
  <1>6. NewCA' = NewCA /\ OldCA' = OldCA /\ Rotates' = Rotates
    BY <1>4 DEF NewCA, OldCA, Rotates
  <1>7. ASSUME NEW g \in Gateways PROVE CertsSigned(g)'
    <2>1. CertsSigned(g)
      BY DEF RolloutInv
    <2>2. Signed(gateway[g].cert)' /\ Signed(issued[g])'
      <3>1. Signed(NoCert)'
        BY DEF Signed, NoCert
      <3> QED
        BY <1>4, <1>6, <2>1, <3>1 DEF CertsSigned, Signed, ByNew, NoCert
    <2>3. Writing("certificate", g)' => Signed(job.cert)' /\ ByNew(job.cert)' /\ NewCA' # 0
      BY <1>1, <1>3, <1>4, <1>6 DEF Writing, Signed, ByNew
    <2> QED
      BY <1>4, <1>6, <2>1, <2>2, <2>3 DEF CertsSigned, NoCert
  <1>8. Renewed => Renewed'
    BY <1>4, <1>6 DEF Renewed
  <1> QED
    BY <1>4, <1>5, <1>7, <1>8, SameTrust DEF RolloutInv

LEMMA WriteSignedKeeps ==
  ASSUME TypeOK, RolloutInv, WriteSigned
  PROVE  RolloutInv'
  <1>1. /\ job.writes = "certificate" /\ job.gateway \in Gateways /\ job' = Quiet
        /\ UNCHANGED <<issuer, created, trust, published, gateway, torn>>
        /\ outdated' = outdated \ {job.gateway}
        /\ \A g \in Gateways : g # job.gateway => issued'[g] = issued[g]
        /\ issued'[job.gateway] = job.cert
    BY DEF TypeOK, WriteSigned
  <1>2. ASSUME NEW g \in Gateways PROVE KeyPaired(g)'
    BY <1>1 DEF RolloutInv, KeyPaired, Writing, Quiet, NoCert
  <1>3. NewCA' = NewCA /\ OldCA' = OldCA /\ Rotates' = Rotates
    BY <1>1 DEF NewCA, OldCA, Rotates
  <1>4. ASSUME NEW g \in Gateways PROVE CertsSigned(g)'
    <2>1. CertsSigned(g) /\ (g = job.gateway => Signed(job.cert) /\ ByNew(job.cert))
      BY <1>1 DEF RolloutInv, CertsSigned, Writing
    <2>2. Signed(gateway[g].cert)' /\ Signed(issued[g])'
      BY <1>1, <1>3, <2>1 DEF CertsSigned, Signed, ByNew, NoCert
    <2>3. gateway'[g].cert # NoCert /\ issued'[g] # NoCert =>
            (created' /\ gateway'[g].cert.signer = NewCA' => issued'[g].signer = NewCA')
      BY <1>1, <1>3, <2>1 DEF CertsSigned, ByNew
    <2>4. ~Writing("certificate", g)'
      BY <1>1 DEF Writing, Quiet
    <2> QED
      BY <2>2, <2>3, <2>4 DEF CertsSigned, NoCert
  <1>5. Renewed => Renewed'
    BY <1>1, <1>3 DEF Renewed
  <1> QED
    BY <1>1, <1>2, <1>4, <1>5, SameTrust DEF RolloutInv
-----------------------------------------------------------------------------
(* The files of the CA.  Before it is created nothing is signed by it. *)
LEMMA CAKeeps ==
  ASSUME RolloutInv, ~created,
         issuer'["old"] = issuer["old"], UNCHANGED <<published, gateway, issued>>,
         created' /\ ~Rotates => trust' = {NewCA'}, created' => ~Rotates \/ trust' = trust,
         ~created' => trust' = trust,
         UNCHANGED <<outdated, torn>>, job.writes \notin {"CSR", "certificate"},
         job'.writes \notin {"CSR", "certificate", "bundle"}, CAPaired'
  PROVE  RolloutInv'
  <1>1. OldCA' = OldCA /\ Rotates' = Rotates
    BY DEF OldCA, Rotates
  <1>2. ASSUME NEW g \in Gateways PROVE KeyPaired(g)'
    BY SameKeys
  <1>3. ASSUME NEW g \in Gateways PROVE CertsSigned(g)'
    <2>1. CertsSigned(g)
      BY DEF RolloutInv
    <2>2. Signed(gateway[g].cert)' /\ Signed(issued[g])'
      BY <1>1, <2>1 DEF CertsSigned, Signed, ByNew, NoCert
    <2>3. ~Writing("certificate", g)'
      BY DEF Writing
    <2> QED
      BY <2>1, <2>2, <2>3 DEF CertsSigned, Signed, ByNew, NoCert
  <1>4. BundleFollows'
    BY DEF BundleFollows
  <1>5. trust = published /\ published = IF Rotates THEN {OldCA} ELSE {}
    BY DEF RolloutInv, TrustFollows
  <1>6. ASSUME ~created' PROVE TrustFollows'
    BY <1>1, <1>5, <1>6 DEF TrustFollows
  <1>7. ASSUME created' /\ ~Rotates PROVE TrustFollows'
    BY <1>1, <1>5, <1>7 DEF TrustFollows
  <1>8. ASSUME created' /\ Rotates PROVE TrustFollows'
    <2>1. trust' = {OldCA'} /\ published' = {OldCA'}
      BY <1>1, <1>5, <1>8
    <2>2. Backed(trust)' /\ Backed(published)'
      BY <2>1 DEF Backed
    <2> QED
      BY <1>1, <1>8, <2>1, <2>2 DEF TrustFollows
  <1> QED
    BY <1>2, <1>3, <1>4, <1>6, <1>7, <1>8 DEF RolloutInv

LEMMA WriteCertificateKeeps ==
  ASSUME TypeOK, RolloutInv, NEW overwrite \in BOOLEAN, WriteCertificate(overwrite)
  PROVE  RolloutInv'
  <1>1. /\ issuer'["old"] = issuer["old"] /\ NewCA' = made + 1 /\ ~created /\ ~created'
        /\ UNCHANGED <<published, gateway, issued, trust, outdated, torn>> /\ job'.writes = "CA key"
        /\ job.writes = "nothing"
    BY DEF TypeOK, WriteCertificate, NewCA, Roots, history, Quiet
  <1>2. NewCA' # 0
    <2>1. made \in Nat /\ NewCA' = made + 1
      BY <1>1 DEF TypeOK
    <2> QED
      BY <2>1
  <1>3. CAPaired'
    BY <1>1, <1>2 DEF RolloutInv, CAPaired
  <1>4. /\ job.writes \notin {"CSR", "certificate"}
        /\ job'.writes \notin {"CSR", "certificate", "bundle"}
    BY <1>1
  <1> QED
    BY <1>1, <1>3, <1>4, CAKeeps

LEMMA WriteKeyKeeps ==
  ASSUME TypeOK, RolloutInv, WriteKey
  PROVE  RolloutInv'
  <1>1. /\ issuer'["old"] = issuer["old"] /\ NewCA' = NewCA /\ issuer'["new"].key = NewCA
        /\ UNCHANGED <<created, published, gateway, issued, trust, outdated, torn>>
        /\ job'.writes = "App CA" /\ job.writes = "CA key"
    BY DEF TypeOK, WriteKey, NewCA, Roots, history
  <1>2. ~created /\ NewCA # 0
    BY DEF WriteKey, RolloutInv, CAPaired
  <1>3. CAPaired'
    BY <1>1, <1>2 DEF RolloutInv, CAPaired
  <1>4. /\ job.writes \notin {"CSR", "certificate"}
        /\ job'.writes \notin {"CSR", "certificate", "bundle"}
    BY <1>1
  <1>5. ~created'
    BY <1>1, <1>2
  <1> QED
    BY <1>1, <1>2, <1>3, <1>4, <1>5, CAKeeps

LEMMA WriteAppCAKeeps ==
  ASSUME TypeOK, RolloutInv, WriteAppCA
  PROVE  RolloutInv'
  <1>1. /\ issuer' = issuer /\ NewCA' = NewCA /\ created' /\ job'.writes = "nothing"
        /\ UNCHANGED <<published, gateway, issued, outdated, torn>>
        /\ (Rotates => trust' = trust) /\ (~Rotates => trust' = {NewCA})
        /\ job.writes \notin {"CSR", "certificate"}
        /\ job'.writes \notin {"CSR", "certificate", "bundle"}
    BY DEF WriteAppCA, NewCA, Quiet, history
  <1>2. ~created /\ NewCA # 0 /\ issuer["new"].key = NewCA
    BY DEF WriteAppCA, RolloutInv, CAPaired
  <1>3. CAPaired'
    BY <1>1, <1>2 DEF RolloutInv, CAPaired
  <1> QED
    BY <1>1, <1>2, <1>3, CAKeeps

-----------------------------------------------------------------------------
(* The App's trust.  Certificates and keys are left alone. *)
LEMMA TrustKeeps ==
  ASSUME RolloutInv, UNCHANGED <<issuer, created, gateway, issued, outdated, torn>>,
         NewCA \in published => NewCA \in published', job.writes \in {"nothing", "bundle"},
         job'.writes \in {"nothing", "bundle"},
         TrustFollows', BundleFollows'
  PROVE  RolloutInv'
  <1>1. CAPaired'
    BY DEF RolloutInv, CAPaired, NewCA
  <1>2. ASSUME NEW g \in Gateways PROVE KeyPaired(g)' /\ CertsSigned(g)'
    BY SameKeys, SameCertificates
  <1> QED
    BY <1>1, <1>2 DEF RolloutInv

LEMMA SameCAs ==
  ASSUME UNCHANGED <<issuer, gateway>>
  PROVE  /\ NewCA' = NewCA /\ OldCA' = OldCA /\ Rotates' = Rotates /\ Renewed' = Renewed
  BY DEF NewCA, OldCA, Rotates, Renewed

(* The bundle is taken away before it is written again. *)
LEMMA BundleKeeps ==
  ASSUME RolloutInv, NEW cas, Bundle(cas), created, Rotates, NewCA \in cas, Backed(cas),
         NewCA \in published => cas = {NewCA}, job = Quiet
  PROVE  RolloutInv'
  <1>1. /\ trust' = {} /\ job'.writes = "bundle" /\ job'.cas = cas
        /\ UNCHANGED <<issuer, created, published, gateway, issued, outdated, torn>>
    BY DEF Bundle, history
  <1>2. TrustFollows'
    BY <1>1, SameCAs DEF RolloutInv, TrustFollows, Backed
  <1>3. BundleFollows'
    BY <1>1, SameCAs DEF BundleFollows, Backed
  <1> QED
    BY <1>1, <1>2, <1>3, TrustKeeps DEF Quiet

LEMMA StageKeeps == RolloutInv /\ Stage => RolloutInv'
  <1> SUFFICES ASSUME RolloutInv, Stage PROVE RolloutInv'
    OBVIOUS
  <1>1. /\ created /\ Rotates /\ trust # {} /\ NewCA \notin trust /\ Bundle(trust \cup {NewCA})
        /\ job = Quiet
    BY DEF Stage
  <1>2. Backed(trust) /\ NewCA \notin published
    BY <1>1 DEF RolloutInv, TrustFollows
  <1>3. Backed(trust \cup {NewCA})
    BY <1>2 DEF Backed
  <1> QED
    BY <1>1, <1>2, <1>3, BundleKeeps

LEMMA FinalizeKeeps == RolloutInv /\ Finalize => RolloutInv'
  <1> SUFFICES ASSUME RolloutInv, Finalize PROVE RolloutInv'
    OBVIOUS
  <1>1. created /\ NewCA \in trust /\ trust # {NewCA} /\ Renewed /\ Bundle({NewCA}) /\ job = Quiet
    BY DEF Finalize
  <1>2. Rotates
    BY <1>1 DEF RolloutInv, TrustFollows
  <1>3. Backed({NewCA})
    BY <1>1 DEF Backed
  <1> QED
    BY <1>1, <1>2, <1>3, BundleKeeps

LEMMA WriteBundleKeeps == RolloutInv /\ WriteBundle => RolloutInv'
  <1> SUFFICES ASSUME RolloutInv, WriteBundle PROVE RolloutInv'
    OBVIOUS
  <1>1. /\ trust' = job.cas /\ job'.writes = "nothing" /\ job.writes = "bundle"
        /\ UNCHANGED <<issuer, created, published, gateway, issued, outdated, torn>>
    BY DEF WriteBundle, Quiet, history
  <1>2. created /\ Rotates /\ NewCA \in job.cas /\ Backed(job.cas)
    BY DEF WriteBundle, RolloutInv, BundleFollows
  <1>3. TrustFollows'
    BY <1>1, <1>2, SameCAs DEF RolloutInv, TrustFollows, Backed
  <1>4. BundleFollows'
    BY <1>1 DEF BundleFollows
  <1> QED
    BY <1>1, <1>3, <1>4, TrustKeeps

LEMMA RestoreKeeps == RolloutInv /\ Restore => RolloutInv'
  <1> SUFFICES ASSUME RolloutInv, Restore PROVE RolloutInv'
    OBVIOUS
  <1>1. /\ trust' = published /\ job' = job /\ job.writes = "nothing" /\ trust = {} /\ published # {}
        /\ UNCHANGED <<issuer, created, published, gateway, issued, outdated, torn>>
    BY DEF Restore, Quiet, history
  <1>2. created /\ Rotates
    BY <1>1 DEF RolloutInv, TrustFollows
  <1>3. TrustFollows'
    BY <1>1, <1>2, SameCAs DEF RolloutInv, TrustFollows, Backed
  <1>4. BundleFollows'
    BY <1>1 DEF BundleFollows
  <1> QED
    BY <1>1, <1>3, <1>4, TrustKeeps

LEMMA PublishKeeps == RolloutInv /\ Publish => RolloutInv'
  <1> SUFFICES ASSUME RolloutInv, Publish PROVE RolloutInv'
    OBVIOUS
  <1>1. /\ published' = trust /\ job' = job /\ job.writes = "nothing" /\ trust # {}
        /\ UNCHANGED <<issuer, created, trust, gateway, issued, outdated, torn>>
    BY DEF Publish, Quiet, history
  <1>2. TrustFollows'
    BY <1>1, SameCAs DEF RolloutInv, TrustFollows, Backed
  <1>3. BundleFollows'
    BY <1>1 DEF BundleFollows
  <1>4. NewCA \in published => NewCA \in published'
    BY <1>1 DEF RolloutInv, TrustFollows
  <1> QED
    BY <1>1, <1>2, <1>3, <1>4, TrustKeeps

LEMMA BundleCutKeeps == RolloutInv /\ Interrupted /\ job.writes = "bundle" => RolloutInv'
  <1> SUFFICES ASSUME RolloutInv, Interrupted, job.writes = "bundle" PROVE RolloutInv'
    OBVIOUS
  <1>1. /\ job'.writes = "nothing" /\ trust' \in {{}, job.cas \ {NewCA}}
        /\ UNCHANGED <<issuer, created, published, gateway, issued, outdated, torn>>
    BY DEF Interrupted, Quiet
  <1>2. BundleFollows'
    BY <1>1 DEF BundleFollows
  <1>3. /\ created /\ Rotates /\ Backed(job.cas)
        /\ NewCA \in published => job.cas = {NewCA}
    BY DEF RolloutInv, BundleFollows
  <1>4. /\ trust' # {} => OldCA \in trust' /\ NewCA \notin published
        /\ trust' \subseteq {OldCA, NewCA}
    BY <1>1, <1>3 DEF Backed
  <1>5. TrustFollows'
    BY <1>1, <1>3, <1>4, SameCAs DEF RolloutInv, TrustFollows, Backed
  <1> QED
    BY <1>1, <1>2, <1>5, TrustKeeps

(* An interruption elsewhere.  A gateway whose key or request was cut off  *)
(* is known as torn.                                                       *)
LEMMA InterruptedKeeps == TypeOK /\ RolloutInv /\ Interrupted => RolloutInv'
  <1> SUFFICES ASSUME TypeOK, RolloutInv, Interrupted, job.writes # "bundle" PROVE RolloutInv'
    BY BundleCutKeeps
  <1>1. /\ job' = Quiet /\ UNCHANGED <<issuer, created, trust, published, issued, outdated>>
        /\ job.writes # "CSR" => UNCHANGED <<torn, gateway>>
    BY DEF Interrupted
  <1>2. \A g \in Gateways : gateway'[g].cert = gateway[g].cert
    BY <1>1, CutTypes
  <1>3. Renewed' = Renewed
    BY <1>1, <1>2, SameRenewed
  <1>4. ASSUME NEW g \in Gateways PROVE CertsSigned(g)'
    BY <1>1, <1>2, SameCertificates DEF Quiet
  <1>5. ASSUME NEW g \in Gateways PROVE KeyPaired(g)'
    <2>1. KeyPaired(g) /\ issued'[g] = issued[g]
      BY <1>1 DEF RolloutInv
    <2>2. CASE Writing("CSR", g)
      BY <1>1, <2>1, <2>2, CutTypes DEF KeyPaired, Writing, Quiet, NoCert
    <2>3. CASE ~Writing("CSR", g)
      <3>1. gateway'[g] = gateway[g] /\ (g \in torn' <=> g \in torn)
        BY <1>1, <2>3, CutTypes DEF Writing
      <3> QED
        BY <1>1, <2>1, <2>3, <3>1 DEF KeyPaired, Writing, Quiet, NoCert
    <2> QED
      BY <2>2, <2>3
  <1> QED
    BY <1>1, <1>3, <1>4, <1>5, SameTrust DEF RolloutInv

-----------------------------------------------------------------------------
LEMMA Rollout == TypeOK /\ RolloutInv /\ [Next]_vars => RolloutInv'
  <1> SUFFICES ASSUME TypeOK, RolloutInv, [Next]_vars PROVE RolloutInv'
    OBVIOUS
  <1>1. CASE UNCHANGED vars
    BY <1>1 DEF vars, RolloutInv, CAPaired, KeyPaired, Writing, CertsSigned, Signed, ByNew, TrustFollows,
                BundleFollows, Backed, Renewed, NewCA, OldCA, Rotates
  <1> QED
    BY <1>1, WriteCertificateKeeps, WriteKeyKeeps, WriteAppCAKeeps, StageKeeps, FinalizeKeeps,
       WriteBundleKeeps, RestoreKeeps, PublishKeeps, GenerateKeeps, WriteCSRKeeps, DeployKeeps,
       SignKeeps, WriteSignedKeeps, InterruptedKeeps DEF Next, Work

LEMMA Invariance == Spec => [](TypeOK /\ RolloutInv)
  <1>1. Init => TypeOK /\ RolloutInv
    BY InitTypes, InitRollout
  <1>2. TypeOK /\ RolloutInv /\ [Next]_vars => (TypeOK /\ RolloutInv)'
    BY Types, Rollout DEF RolloutInv
  <1> QED
    BY <1>1, <1>2, PTL DEF Spec

(* Whatever is written and wherever a tool is interrupted, keys, requests, *)
(* certificates and bundles are what they are called.                      *)
THEOREM TypeCorrect == Spec => []TypeOK
  BY Invariance, PTL

(* The newest App trusts the certificate of every gateway, for any number  *)
(* of gateways and interruptions (service.py, rotation in two steps).      *)
THEOREM TrustIsKept == Spec => []TrustKept
  <1>1. RolloutInv => TrustKept
    <2> SUFFICES ASSUME RolloutInv, NEW g \in Gateways, gateway[g].cert # NoCert, published # {}
                 PROVE  gateway[g].cert.signer \in published
      BY DEF TrustKept
    <2>1. CertsSigned(g) /\ TrustFollows /\ CAPaired
      BY DEF RolloutInv
    <2>2. ByNew(gateway[g].cert) \/ (Rotates /\ gateway[g].cert.signer = OldCA)
      BY <2>1 DEF CertsSigned, Signed
    <2>3. CASE ~created
      BY <2>1, <2>2, <2>3 DEF TrustFollows, ByNew
    <2>4. CASE created /\ ~Rotates
      BY <2>1, <2>2, <2>4 DEF TrustFollows, ByNew
    <2>5. CASE created /\ Rotates
      <3>1. published \subseteq {OldCA, NewCA} /\ (OldCA \in published \/ Renewed)
        BY <2>1, <2>5 DEF TrustFollows, Backed
      <3>2. CASE gateway[g].cert.signer = NewCA /\ NewCA \in published
        BY <3>2
      <3>3. CASE gateway[g].cert.signer = OldCA /\ OldCA \notin published
        <4>1. gateway[g].cert.signer = NewCA
          BY <2>1, <3>1, <3>3 DEF Renewed, CertsSigned, Signed
        <4> QED
          BY <3>1, <3>3, <4>1
      <3> QED
        BY <2>2, <2>5, <3>2, <3>3 DEF ByNew
    <2> QED
      BY <2>3, <2>4, <2>5
  <1> QED
    BY <1>1, Invariance, PTL

(* A certificate names the CA that signed it, and fits the gateway's key   *)
(* unless that is newer or its generation was interrupted (service.py,     *)
(* generate_gateway_csr.py with and without --force).                      *)
THEOREM CertificatesAlwaysFit == Spec => []CertificatesFit
  <1>1. RolloutInv => CertificatesFit
    BY DEF RolloutInv, CertsSigned, Signed, KeyPaired, CertificatesFit
  <1> QED
    BY <1>1, Invariance, PTL
=============================================================================
