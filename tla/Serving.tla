-------------------------------- MODULE Serving --------------------------------
(***************************************************************************)
(* From the start of a process to the TLS handshakes it answers: the order *)
(* of start-up (cmd/app/manager.go), the certificates in their two Secrets,*)
(* the gRPC server that waits for them (pkg/scaler/runner.go), readiness   *)
(* (pkg/scaler/health.go) and the loaders (pkg/util/cert/loader.go).       *)
(*                                                                         *)
(* A version of a Secret is [rv, usable]: its resourceVersion, and whether *)
(* the fields a loader reads are there and parse; the certificate in it is *)
(* named by the resourceVersion.  A process that ends is started again.    *)
(***************************************************************************)
EXTENDS Naturals

CONSTANTS
    Handshakes,  \* slots for handshakes that run at the same time
    Missing,     \* a Secret that does not exist
    None,        \* no certificate, no handshake
    MaxWrites,   \* bound on the writes and removals of Secrets
    MaxCrashes   \* bound on the crashes

ASSUME ServingAssumption ==
    /\ MaxWrites \in Nat
    /\ MaxCrashes \in Nat
    /\ None \notin Nat

VARIABLES
    crds,       \* the required CRDs are installed
    secrets,    \* the two Secrets in the API server
    writes,     \* how often they have changed
    crashes,    \* how often the process has crashed
    pc,         \* where the start-up of the process is
    shown,      \* the Secrets as its lister shows them
    announced,  \* which of serverCertReady and clientCertReady are closed
    synced,     \* the manager's cache is synced
    endpoint,   \* the last readiness probe was answered with SERVING
    trusted,    \* the version of the client CAs the server was started with
    cached,     \* the server certificate loader's memo, [rv, cert]
    tls,        \* the version each handshake under way has read
    last        \* history: the version last read in a handshake, and what was served

process == <<pc, shown, announced, synced, endpoint, trusted, cached, tls, last>>
vars == <<crds, secrets, writes, crashes, process>>

Names == {"server", "client"}

Usable(secret) == secret # Missing /\ secret.usable

Empty == [rv |-> 0, usable |-> FALSE]
NoMemo == [rv |-> None, cert |-> None]

\* The chart creates both Secrets without data.
Init ==
    /\ crds \in BOOLEAN
    /\ secrets = [s \in Names |-> Empty]
    /\ writes = 0
    /\ crashes = 0
    /\ pc = "crds"
    /\ shown = [s \in Names |-> Missing]
    /\ announced = {}
    /\ synced = FALSE
    /\ endpoint = FALSE
    /\ trusted = None
    /\ cached = NoMemo
    /\ tls = [h \in Handshakes |-> None]
    /\ last = [read |-> None, cert |-> None]

-----------------------------------------------------------------------------
(* The cluster.                                                            *)

InstallCRDs ==
    /\ ~ crds
    /\ crds' = TRUE
    /\ UNCHANGED <<secrets, writes, crashes, process>>

\* The certificate rotator renews a Secret; a user may empty or remove one.
Change(s, version) ==
    /\ writes < MaxWrites
    /\ writes' = writes + 1
    /\ secrets[s] # version
    /\ secrets' = [secrets EXCEPT ![s] = version]
    /\ UNCHANGED <<crds, crashes, process>>

ChangeSecret(s) ==
    \/ \E usable \in BOOLEAN : Change(s, [rv |-> writes + 1, usable |-> usable])
    \/ Change(s, Missing)

-----------------------------------------------------------------------------
(* Start-up.                                                               *)

environment == <<crds, secrets, writes>>

Enter(stage) == pc' = stage /\ UNCHANGED <<synced, endpoint, cached, tls, last>>

\* The process ends and is started again.
Exit ==
    /\ pc' = "crds"
    /\ shown' = [s \in Names |-> Missing]
    /\ announced' = {}
    /\ synced' = FALSE
    /\ endpoint' = FALSE
    /\ trusted' = None
    /\ cached' = NoMemo
    /\ tls' = [h \in Handshakes |-> None]
    /\ last' = [read |-> None, cert |-> None]

WaitForRequiredCRDs ==
    /\ pc = "crds"
    /\ crds
    /\ Enter("auth")
    /\ UNCHANGED <<environment, crashes, shown, announced, trusted>>

\* Once the ClusterTriggerAuthentication is written; an error of that is a crash.
EnsureClusterTriggerAuthentication ==
    /\ pc = "auth"
    /\ Enter("lister")
    /\ UNCHANGED <<environment, crashes, shown, announced, trusted>>

PrepareResourcesLister ==
    /\ pc = "lister"
    /\ shown' = secrets
    /\ Enter("serverCert")
    /\ UNCHANGED <<environment, crashes, announced, trusted>>

\* From here on the manager runs: the rotators, the health server, the informers.
Running == pc \notin {"crds", "auth", "lister"}

Deliver(s) ==
    /\ Running
    /\ shown[s] # secrets[s]
    /\ shown' = [shown EXCEPT ![s] = secrets[s]]
    /\ UNCHANGED <<environment, crashes, pc, announced, synced, endpoint, trusted, cached,
                   tls, last>>

\* The rotator closes the channel when it finds the certificate in its directory.
Announce(s) ==
    /\ Running
    /\ Usable(secrets[s])
    /\ s \notin announced
    /\ announced' = announced \cup {s}
    /\ UNCHANGED <<environment, crashes, pc, shown, synced, endpoint, trusted, cached, tls,
                   last>>

SyncCache ==
    /\ Running
    /\ ~ synced
    /\ synced' = TRUE
    /\ UNCHANGED <<environment, crashes, pc, shown, announced, endpoint, trusted, cached,
                   tls, last>>

WaitReady(s, stage, next) ==
    /\ pc = stage
    /\ s \in announced
    /\ Enter(next)
    /\ UNCHANGED <<environment, crashes, shown, announced, trusted>>

Listen ==
    /\ trusted' = shown["client"].rv
    /\ Enter("listening")
    /\ UNCHANGED <<shown, announced>>

\* Faulty: without a pool of client CAs the server starts all the same.
LoadRootCAsOptional ==
    /\ pc = "load"
    /\ IF Usable(shown["client"]) THEN Listen
       ELSE Enter("listening") /\ UNCHANGED <<shown, announced, trusted>>
    /\ UNCHANGED <<environment, crashes>>

\* Faulty: the error is logged and the manager goes on without the server.
LoadRootCAsQuietly ==
    /\ pc = "load"
    /\ IF Usable(shown["client"]) THEN Listen
       ELSE Enter("ended") /\ UNCHANGED <<shown, announced, trusted>>
    /\ UNCHANGED <<environment, crashes>>

\* The error of a runnable ends the manager and with it the process.
LoadRootCAs ==
    /\ pc = "load"
    /\ IF Usable(shown["client"]) THEN Listen ELSE Exit
    /\ UNCHANGED <<environment, crashes>>

Crash ==
    /\ crashes < MaxCrashes
    /\ crashes' = crashes + 1
    /\ pc # "crds"
    /\ Exit
    /\ UNCHANGED environment

-----------------------------------------------------------------------------
(* Readiness.                                                              *)

\* Every registered check passes: the two channels and the manager's cache.
Ready == synced /\ announced = Names

Probe ==
    /\ Running
    /\ endpoint # Ready
    /\ endpoint' = Ready
    /\ UNCHANGED <<environment, crashes, pc, shown, announced, synced, trusted, cached, tls,
                   last>>

-----------------------------------------------------------------------------
(* Handshakes: GetServerCertificate.                                       *)

\* KEDA connects through the Service.  The lister is read before the lock is taken;
\* no Secret, no certificate.
Hello(h) ==
    /\ pc = "listening"
    /\ endpoint
    /\ tls[h] = None
    /\ IF shown["server"] = Missing
       THEN /\ last' = [read |-> None, cert |-> None]
            /\ UNCHANGED tls
       ELSE /\ tls' = [tls EXCEPT ![h] = shown["server"]]
            /\ UNCHANGED last
    /\ UNCHANGED <<environment, crashes, pc, shown, announced, synced, endpoint, trusted,
                   cached>>

\* Faulty: any certificate in the memo will do.
HitAny(secret) == cached.cert # None

Hit(secret) == secret.rv = cached.rv /\ cached.cert # None

\* Faulty: the memo is marked with the version before the certificate is parsed.
MemoMarkedFirst(secret) ==
    IF secret.usable THEN [rv |-> secret.rv, cert |-> secret.rv]
    ELSE [cached EXCEPT !.rv = secret.rv]

\* A field that is missing or does not parse leaves the memo as it was.
Memo(secret) == IF secret.usable THEN [rv |-> secret.rv, cert |-> secret.rv] ELSE cached

\* The critical section.
GetServerCertificate(h) ==
    /\ tls[h] # None
    /\ IF Hit(tls[h])
       THEN /\ last' = [read |-> tls[h].rv, cert |-> cached.cert]
            /\ UNCHANGED cached
       ELSE /\ cached' = Memo(tls[h])
            /\ last' = [read |-> tls[h].rv,
                        cert |-> IF tls[h].usable THEN cached'.cert ELSE None]
    /\ tls' = [tls EXCEPT ![h] = None]
    /\ UNCHANGED <<environment, crashes, pc, shown, announced, synced, endpoint, trusted>>

-----------------------------------------------------------------------------

StartUp ==
    \/ WaitForRequiredCRDs
    \/ EnsureClusterTriggerAuthentication
    \/ PrepareResourcesLister
    \/ WaitReady("server", "serverCert", "clientCert")
    \/ WaitReady("client", "clientCert", "load")
    \/ LoadRootCAs

Next ==
    \/ InstallCRDs
    \/ \E s \in Names : ChangeSecret(s)
    \/ StartUp
    \/ \E s \in Names : Deliver(s) \/ Announce(s)
    \/ SyncCache
    \/ Probe
    \/ \E h \in Handshakes : Hello(h) \/ GetServerCertificate(h)
    \/ Crash

Spec == Init /\ [][Next]_vars

\* The steps of the process and its informers, the kubelet's probes and KEDA's calls
\* go on; nobody has to install the CRDs, to write a Secret or to crash.
Fairness ==
    /\ WF_vars(StartUp)
    /\ \A s \in Names : WF_vars(Deliver(s)) /\ WF_vars(Announce(s))
    /\ WF_vars(SyncCache)
    /\ WF_vars(Probe)
    /\ \A h \in Handshakes : WF_vars(Hello(h)) /\ WF_vars(GetServerCertificate(h))

FairSpec == Spec /\ Fairness

-----------------------------------------------------------------------------
(* Properties                                                              *)

Version == [rv : Nat, usable : BOOLEAN]

\* Types; a server that listens has client CAs to check KEDA's certificate against.
TypeOK ==
    /\ crds \in BOOLEAN
    /\ secrets \in [Names -> Version \cup {Missing}]
    /\ writes \in 0..MaxWrites
    /\ crashes \in 0..MaxCrashes
    /\ pc \in {"crds", "auth", "lister", "serverCert", "clientCert", "load", "listening"}
    /\ shown \in [Names -> Version \cup {Missing}]
    /\ announced \subseteq Names
    /\ synced \in BOOLEAN
    /\ endpoint \in BOOLEAN
    /\ trusted \in Nat \cup {None}
    /\ pc = "listening" <=> trusted # None
    /\ cached \in [rv : Nat, cert : Nat] \cup {NoMemo}
    /\ tls \in [Handshakes -> Version \cup {None}]
    /\ last \in [read : Nat \cup {None}, cert : Nat \cup {None}]

\* The memo never comes between a handshake and the version it read, whatever order
\* handshakes take the lock in and however many versions could not be parsed.
ServesWhatItRead == last.cert # None => last.cert = last.read

Material == crds /\ \A s \in Names : Usable(secrets[s])

\* Once the CRDs and both certificates are there to stay, the server listens and the
\* pod is an endpoint, though the channels may be closed before the lister shows the
\* Secret they announce: the process that fails over it is started again.
EventuallyServes == <>[](Material => pc = "listening" /\ endpoint)

\* Once rotation comes to rest, every handshake is given the newest certificate.
RotationIsServed == <>[](Material => last.cert = secrets["server"].rv)
===============================================================================
