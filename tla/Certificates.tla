---------------------------- MODULE Certificates ----------------------------
(***************************************************************************)
(* CertificateManager: the client certificate in use, and the rotation to  *)
(* a newer one found in the certificate directory. check_rotation takes    *)
(* &self and drops the read lock before it takes the write lock, so checks *)
(* by several callers overlap, with each other and with an operator who    *)
(* puts files into the directory.                                          *)
(***************************************************************************)
EXTENDS Naturals, FiniteSets

CONSTANTS
  Certs,        \* certificates: [org, issuer, notAfter]
  OurOrg,       \* organization_id, in the subject of our certificates
  CaBundle,     \* the subjects in the CA bundle
  Files,        \* the files of cert_dir with the extension pem or crt
  CertPath,     \* cert_path, among them
  Callers,      \* concurrent callers of check_rotation
  NoCert,
  MaxDay        \* bound: the clock, in days

ASSUME CertAssumption ==
  /\ \A c \in Certs : c.notAfter \in Nat
  /\ NoCert \notin Certs /\ CertPath \in Files /\ MaxDay \in Nat

VARIABLES
  certDir,      \* the certificate in each file, or NoCert
  currentCert,
  today,
  listing,      \* the entries a caller has still to look at
  newCert       \* the certificate a caller found to be newer, or NoCert

certVars == <<certDir, currentCert, today, listing, newCert>>

CertInit ==
  /\ certDir \in [Files -> {NoCert}] /\ currentCert = NoCert /\ today = 0
  /\ listing = [p \in Callers |-> {}]
  /\ newCert = [p \in Callers |-> NoCert]

\* load_certificate and validate_against_ca: only the issuer's name is compared.
Acceptable(cert) ==
  /\ cert # NoCert
  /\ cert.org = OurOrg
  /\ today <= cert.notAfter
  /\ cert.issuer \in CaBundle

\* CertificateManager::new
NewManager ==
  /\ currentCert = NoCert /\ Acceptable(certDir[CertPath])
  /\ currentCert' = certDir[CertPath]
  /\ UNCHANGED <<certDir, today, listing, newCert>>

\* An operator installs a certificate that the file did not hold before.
Install(file, cert) ==
  /\ certDir[file] = NoCert
  /\ certDir' = [certDir EXCEPT ![file] = cert]
  /\ UNCHANGED <<currentCert, today, listing, newCert>>

NextDay == today < MaxDay /\ today' = today + 1 /\ UNCHANGED <<certDir, currentCert, listing, newCert>>

\* check_rotation lists the directory; cert_path is skipped whatever it holds now.
CheckRotation(p) ==
  /\ currentCert # NoCert /\ listing[p] = {} /\ newCert[p] = NoCert
  /\ listing' = [listing EXCEPT ![p] = {f \in Files \ {CertPath} : certDir[f] # NoCert}]
  /\ UNCHANGED <<certDir, currentCert, today, newCert>>

Newer_Accepted(cert) == Acceptable(cert)

\* One entry, in the order of the directory; the comparison under the read lock.
Newer(cert) == Acceptable(cert) /\ cert.notAfter > currentCert.notAfter

Examine(p, file) ==
  /\ newCert[p] = NoCert /\ file \in listing[p]
  /\ IF Newer(certDir[file])
     THEN /\ newCert' = [newCert EXCEPT ![p] = certDir[file]]
          /\ listing' = [listing EXCEPT ![p] = {}]
     ELSE /\ listing' = [listing EXCEPT ![p] = @ \ {file}]
          /\ UNCHANGED newCert
  /\ UNCHANGED <<certDir, currentCert, today>>

\* The write lock: without a second comparison.
Rotate(p) ==
  /\ newCert[p] # NoCert
  /\ currentCert' = newCert[p]
  /\ newCert' = [newCert EXCEPT ![p] = NoCert]
  /\ UNCHANGED <<certDir, today, listing>>

CallerStep(p) == CheckRotation(p) \/ Rotate(p) \/ \E f \in Files : Examine(p, f)

CertNext ==
  \/ NewManager
  \/ \E f \in Files, c \in Certs : Install(f, c)
  \/ NextDay
  \/ \E p \in Callers : CallerStep(p)

CertSpec == CertInit /\ [][CertNext]_certVars

-----------------------------------------------------------------------------
(* Type invariant. *)
CertTypeOK ==
  /\ certDir \in [Files -> Certs \cup {NoCert}]
  /\ currentCert \in Certs \cup {NoCert} /\ today \in 0..MaxDay
  /\ listing \in [Callers -> SUBSET Files]
  /\ newCert \in [Callers -> Certs \cup {NoCert}]

(* Whatever the overlaps, the certificate in use is one of this organization from
   a known issuer, and never expires before the one the manager started with. *)
NeverBelowStart ==
  currentCert # NoCert =>
    /\ currentCert.org = OurOrg /\ currentCert.issuer \in CaBundle
    /\ \A p \in Callers : newCert[p] # NoCert =>
         newCert[p].org = OurOrg /\ newCert[p].notAfter > certDir[CertPath].notAfter
    /\ currentCert.notAfter >= certDir[CertPath].notAfter

=============================================================================
