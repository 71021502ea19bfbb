----------------------------- MODULE ServingProofs -----------------------------
(* Type correctness of Serving, and that the memo never comes between a    *)
(* handshake and the Secret it read.                                       *)
EXTENDS Serving, TLAPS

LEMMA InitType == Init => TypeOK
  <1> SUFFICES ASSUME Init PROVE TypeOK
    OBVIOUS
  <1>1. Empty \in Version
    BY DEF Empty, Version
  <1>2. secrets \in [Names -> Version \cup {Missing}]
    BY <1>1 DEF Init
  <1>3. cached \in [rv : Nat, cert : Nat] \cup {NoMemo}
    BY DEF Init
  <1>4. last \in [read : Nat \cup {None}, cert : Nat \cup {None}]
    BY DEF Init
  <1>5. shown \in [Names -> Version \cup {Missing}]
    BY DEF Init
  <1>6. tls \in [Handshakes -> Version \cup {None}]
    BY DEF Init
  <1>7. writes \in 0..MaxWrites /\ crashes \in 0..MaxCrashes
    BY ServingAssumption DEF Init
  <1>8. /\ crds \in BOOLEAN /\ synced \in BOOLEAN /\ endpoint \in BOOLEAN
        /\ announced \subseteq Names
        /\ trusted \in Nat \cup {None}
    BY DEF Init
  <1>9. /\ pc \in {"crds", "auth", "lister", "serverCert", "clientCert", "load", "listening"}
        /\ pc = "listening" <=> trusted # None
    BY DEF Init
  <1> QED
    BY <1>2, <1>3, <1>4, <1>5, <1>6, <1>7, <1>8, <1>9 DEF TypeOK

\* The process ends.
LEMMA ExitType ==
  ASSUME TypeOK, Exit, UNCHANGED <<environment>>, crashes' \in 0..MaxCrashes
  PROVE  TypeOK'
  BY DEF TypeOK, Exit, environment, NoMemo, Names, Version, Running

\* Start-up goes one stage further.
LEMMA StageType ==
  ASSUME TypeOK, NEW stage \in {"auth", "lister", "serverCert", "clientCert", "load"},
         pc # "listening", Enter(stage), shown' \in [Names -> Version \cup {Missing}],
         UNCHANGED <<environment, crashes, announced, trusted>>
  PROVE  TypeOK'
  BY DEF TypeOK, Enter, environment, Names, Version, Running

LEMMA LoadType ==
  ASSUME TypeOK, LoadRootCAs
  PROVE  TypeOK'
  <1>1. CASE Usable(shown["client"])
    <2>1. shown["client"] \in Version
      BY <1>1 DEF TypeOK, Usable, Names
    <2>2. shown["client"].rv \in Nat
      BY <2>1 DEF Version
    <2>3. trusted' \in Nat /\ trusted' # None /\ pc' = "listening"
      BY <1>1, <2>2, ServingAssumption DEF LoadRootCAs, Listen, Enter
    <2> QED
      BY <1>1, <2>3 DEF LoadRootCAs, Listen, Enter, TypeOK, environment, Names, Version, Running
  <1>2. CASE ~ Usable(shown["client"])
    <2>1. Exit /\ UNCHANGED <<environment, crashes>>
      BY <1>2 DEF LoadRootCAs
    <2>2. crashes' \in 0..MaxCrashes
      BY <2>1 DEF TypeOK
    <2> QED
      BY <2>1, <2>2, ExitType
  <1> QED
    BY <1>1, <1>2

LEMMA StartUpType ==
  ASSUME TypeOK, StartUp
  PROVE  TypeOK'
  <1>1. CASE WaitForRequiredCRDs
    BY <1>1, StageType DEF WaitForRequiredCRDs, TypeOK
  <1>2. CASE EnsureClusterTriggerAuthentication
    BY <1>2, StageType DEF EnsureClusterTriggerAuthentication, TypeOK
  <1>3. CASE PrepareResourcesLister
    BY <1>3, StageType DEF PrepareResourcesLister, TypeOK
  <1>4. CASE WaitReady("server", "serverCert", "clientCert")
    BY <1>4, StageType DEF WaitReady, TypeOK
  <1>5. CASE WaitReady("client", "clientCert", "load")
    BY <1>5, StageType DEF WaitReady, TypeOK
  <1>6. CASE LoadRootCAs
    BY <1>6, LoadType
  <1> QED
    BY <1>1, <1>2, <1>3, <1>4, <1>5, <1>6 DEF StartUp

LEMMA ChangeType ==
  ASSUME TypeOK, NEW s \in Names, ChangeSecret(s)
  PROVE  TypeOK'
  <1>1. PICK version \in Version \cup {Missing} : Change(s, version)
    <2>1. writes + 1 \in Nat
      BY ServingAssumption DEF TypeOK
    <2> QED
      BY <2>1 DEF ChangeSecret, Version
  <1>2. writes' \in 0..MaxWrites
    BY <1>1, ServingAssumption DEF Change, TypeOK
  <1>3. secrets' \in [Names -> Version \cup {Missing}]
    BY <1>1 DEF Change, TypeOK
  <1> QED
    BY <1>1, <1>2, <1>3 DEF Change, TypeOK, process, Running

LEMMA HelloType ==
  ASSUME TypeOK, NEW h \in Handshakes, Hello(h)
  PROVE  TypeOK'
  <1>1. tls' \in [Handshakes -> Version \cup {None}]
    BY DEF Hello, TypeOK, Names
  <1>2. last' \in [read : Nat \cup {None}, cert : Nat \cup {None}]
    BY DEF Hello, TypeOK
  <1> QED
    BY <1>1, <1>2 DEF Hello, TypeOK, environment, Running

LEMMA CertificateType ==
  ASSUME TypeOK, NEW h \in Handshakes, GetServerCertificate(h)
  PROVE  TypeOK'
  <1>1. tls[h] \in Version
    BY DEF GetServerCertificate, TypeOK
  <1>2. tls[h].rv \in Nat
    BY <1>1 DEF Version
  <1>3. tls' \in [Handshakes -> Version \cup {None}]
    BY DEF GetServerCertificate, TypeOK
  <1>4. cached' \in [rv : Nat, cert : Nat] \cup {NoMemo}
    BY <1>2 DEF GetServerCertificate, Memo, TypeOK
  <1>5. cached.cert \in Nat \cup {None}
    BY DEF TypeOK, NoMemo
  <1>6. cached'.cert \in Nat \cup {None}
    BY <1>4 DEF NoMemo
  <1>7. last' \in [read : Nat \cup {None}, cert : Nat \cup {None}]
    <2>1. CASE Hit(tls[h])
      BY <2>1, <1>2, <1>5 DEF GetServerCertificate
    <2>2. CASE ~ Hit(tls[h])
      BY <2>2, <1>2, <1>6 DEF GetServerCertificate
    <2> QED
      BY <2>1, <2>2
  <1> QED
    BY <1>3, <1>4, <1>7 DEF GetServerCertificate, TypeOK, environment, Running

LEMMA NextType == TypeOK /\ [Next]_vars => TypeOK'
  <1> SUFFICES ASSUME TypeOK, [Next]_vars PROVE TypeOK'
    OBVIOUS
  <1>1. CASE InstallCRDs
    BY <1>1 DEF InstallCRDs, TypeOK, process, Running
  <1>2. ASSUME NEW s \in Names, ChangeSecret(s) PROVE TypeOK'
    BY <1>2, ChangeType
  <1>3. CASE StartUp
    BY <1>3, StartUpType
  <1>4. ASSUME NEW s \in Names, Deliver(s) PROVE TypeOK'
    BY <1>4 DEF Deliver, TypeOK, environment, Running
  <1>5. ASSUME NEW s \in Names, Announce(s) PROVE TypeOK'
    BY <1>5 DEF Announce, TypeOK, environment, Running
  <1>6. CASE SyncCache
    BY <1>6 DEF SyncCache, TypeOK, environment, Running
  <1>7. CASE Probe
    BY <1>7 DEF Probe, Ready, TypeOK, environment, Running
  <1>8. ASSUME NEW h \in Handshakes, Hello(h) PROVE TypeOK'
    BY <1>8, HelloType
  <1>9. ASSUME NEW h \in Handshakes, GetServerCertificate(h) PROVE TypeOK'
    BY <1>9, CertificateType
  <1>10. CASE Crash
    <2>1. crashes' \in 0..MaxCrashes
      BY <1>10, ServingAssumption DEF Crash, TypeOK
    <2> QED
      BY <1>10, <2>1, ExitType DEF Crash
  <1>11. CASE UNCHANGED vars
    BY <1>11 DEF vars, process, TypeOK, Running
  <1> QED
    BY <1>1, <1>2, <1>3, <1>4, <1>5, <1>6, <1>7, <1>8, <1>9, <1>10, <1>11 DEF Next

\* Every variable has its type in every reachable state, and a server that listens has
\* client CAs to check KEDA's certificate against (runner.go:79-88).
THEOREM TypeCorrect == Spec => []TypeOK
  BY InitType, NextType, PTL DEF Spec

-----------------------------------------------------------------------------
\* A certificate in the memo is the one of the version the memo is marked with.
MemoIsSound == cached.cert # None => cached.cert = cached.rv

Sound == MemoIsSound /\ ServesWhatItRead

LEMMA InitSound == Init => Sound
  BY DEF Init, Sound, MemoIsSound, ServesWhatItRead, NoMemo

LEMMA ExitSound ==
  ASSUME Exit
  PROVE  Sound'
  BY DEF Exit, Sound, MemoIsSound, ServesWhatItRead, NoMemo

LEMMA CertificateSound ==
  ASSUME Sound, NEW h \in Handshakes, GetServerCertificate(h)
  PROVE  Sound'
  <1>1. CASE Hit(tls[h])
    <2>1. last'.cert = cached.cert /\ last'.read = cached.rv
      BY <1>1 DEF GetServerCertificate, Hit
    <2> QED
      BY <1>1, <2>1 DEF GetServerCertificate, Sound, MemoIsSound, ServesWhatItRead
  <1>2. CASE ~ Hit(tls[h]) /\ tls[h].usable
    <2>1. cached' = [rv |-> tls[h].rv, cert |-> tls[h].rv]
      BY <1>2 DEF GetServerCertificate, Memo
    <2>2. last' = [read |-> tls[h].rv, cert |-> cached'.cert]
      BY <1>2 DEF GetServerCertificate
    <2> QED
      BY <2>1, <2>2 DEF Sound, MemoIsSound, ServesWhatItRead
  <1>3. CASE ~ Hit(tls[h]) /\ ~ tls[h].usable
    <2>1. cached' = cached /\ last'.cert = None
      BY <1>3 DEF GetServerCertificate, Memo
    <2> QED
      BY <2>1 DEF Sound, MemoIsSound, ServesWhatItRead
  <1> QED
    BY <1>1, <1>2, <1>3

\* A step that leaves the memo and the last answer alone.
LEMMA QuietSound ==
  ASSUME Sound, UNCHANGED <<cached, last>>
  PROVE  Sound'
  BY DEF Sound, MemoIsSound, ServesWhatItRead

LEMMA NextSound == Sound /\ [Next]_vars => Sound'
  <1> SUFFICES ASSUME Sound, [Next]_vars PROVE Sound'
    OBVIOUS
  <1>1. CASE InstallCRDs
    BY <1>1, QuietSound DEF InstallCRDs, process
  <1>2. ASSUME NEW s \in Names, ChangeSecret(s) PROVE Sound'
    BY <1>2, QuietSound DEF ChangeSecret, Change, process
  <1>3. CASE StartUp
    <2>1. CASE LoadRootCAs
      BY <2>1, ExitSound, QuietSound DEF LoadRootCAs, Listen, Enter
    <2>2. CASE ~ LoadRootCAs
      BY <1>3, <2>2, QuietSound
      DEF StartUp, WaitForRequiredCRDs, EnsureClusterTriggerAuthentication,
          PrepareResourcesLister, WaitReady, Enter
    <2> QED
      BY <2>1, <2>2
  <1>4. ASSUME NEW s \in Names, Deliver(s) \/ Announce(s) PROVE Sound'
    BY <1>4, QuietSound DEF Deliver, Announce
  <1>5. CASE SyncCache \/ Probe
    BY <1>5, QuietSound DEF SyncCache, Probe
  <1>6. ASSUME NEW h \in Handshakes, Hello(h) PROVE Sound'
    BY <1>6 DEF Hello, Sound, MemoIsSound, ServesWhatItRead
  <1>7. ASSUME NEW h \in Handshakes, GetServerCertificate(h) PROVE Sound'
    BY <1>7, CertificateSound
  <1>8. CASE Crash
    BY <1>8, ExitSound DEF Crash
  <1>9. CASE UNCHANGED vars
    BY <1>9, QuietSound DEF vars, process
  <1> QED
    BY <1>1, <1>2, <1>3, <1>4, <1>5, <1>6, <1>7, <1>8, <1>9 DEF Next

\* Every handshake is served the certificate of the very version of the Secret it
\* read, however handshakes, rotations and unparseable versions interleave with the
\* memo of NewServerCertLoader (loader.go:45-80).
THEOREM MemoIsTransparent == Spec => []ServesWhatItRead
  <1>1. Sound => ServesWhatItRead
    BY DEF Sound
  <1> QED
    BY <1>1, InitSound, NextSound, PTL DEF Spec
===============================================================================
