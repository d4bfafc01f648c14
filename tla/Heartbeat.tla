----------------------------- MODULE Heartbeat ------------------------------
(***************************************************************************)
(* The heartbeat module (internal/heartbeat): agent records, the binding   *)
(* of hosts to certificate fingerprints, revocation, and the monitor that  *)
(* times agents out; with the Register and Heartbeat handlers of           *)
(* internal/comms/services.go that call it, step by step, each call taking *)
(* the module's mutex separately.                                          *)
(*                                                                         *)
(* Time is abstracted to how long ago an agent was seen: "fresh" (within   *)
(* the timeout), "stale" (beyond it), "dead" (beyond the pruning cutoff),  *)
(* or "never" (a record restored from the identity file).                  *)
(***************************************************************************)
EXTENDS Naturals, FiniteSets

CONSTANTS
    Hosts,      \* host ids
    Certs,      \* certificate fingerprints
    NoCert,     \* no fingerprint bound
    Crashes,    \* TRUE iff the kernel may crash and restart
    SaveFails,  \* TRUE iff writing a file may fail (only logged)
    MaxHandlers \* bound: requests being handled at a time

ASSUME CertAssumption == NoCert \notin Certs
ASSUME SwitchAssumption == Crashes \in BOOLEAN /\ SaveFails \in BOOLEAN
ASSUME HandlerAssumption == MaxHandlers \in Nat

VARIABLES
    known,        \* hosts that have an AgentRecord
    active,       \* AgentRecord.Active
    seen,         \* age of AgentRecord.LastSeen
    bound,        \* AgentRecord.CertFingerprint
    revoked,      \* revoked fingerprints
    identityFile, \* heartbeat_identity.json: host -> fingerprint
    revokedFile,  \* revoked_certificates.json
    revoking,     \* RevokeCert holds the mutex between its two saves
    checked,      \* Register handlers past IsCertRevoked: <<host, cert>>
    accepted,     \* Register handlers past BindAgentCert
    verified,     \* Heartbeat handlers past VerifyAgentCert
    recorded,     \* Heartbeat handlers past RecordHeartbeat
    timedOut,     \* what is left of the snapshot of checkTimeouts
    expiring,     \* hosts of it whose topology node is deleted already
    topology      \* hosts with a topology node

records == <<known, active, seen, bound>>
files == <<identityFile, revokedFile>>
handlers == <<checked, accepted, verified, recorded>>
monitor == <<timedOut, expiring>>
vars == <<records, revoked, files, revoking, handlers, monitor, topology>>

TypeOK ==
    /\ known \subseteq Hosts
    /\ active \in [Hosts -> BOOLEAN]
    /\ seen \in [Hosts -> {"never", "fresh", "stale", "dead"}]
    /\ bound \in [Hosts -> Certs \cup {NoCert}]
    /\ revoked \subseteq Certs
    /\ identityFile \in [Hosts -> Certs \cup {NoCert}]
    /\ revokedFile \subseteq Certs
    /\ revoking \in BOOLEAN
    /\ checked \subseteq Hosts \X Certs
    /\ accepted \subseteq Hosts
    /\ verified \subseteq Hosts
    /\ recorded \subseteq Hosts
    /\ timedOut \subseteq Hosts
    /\ expiring \subseteq Hosts
    /\ topology \subseteq Hosts

Init ==
    /\ known = {}
    /\ active = [h \in Hosts |-> FALSE]
    /\ seen = [h \in Hosts |-> "never"]
    /\ bound = [h \in Hosts |-> NoCert]
    /\ revoked = {}
    /\ identityFile = [h \in Hosts |-> NoCert]
    /\ revokedFile = {}
    /\ revoking = FALSE
    /\ checked = {} /\ accepted = {} /\ verified = {} /\ recorded = {}
    /\ timedOut = {} /\ expiring = {}
    /\ topology = {}

-----------------------------------------------------------------------------
(* Persistence: a failed save is logged and the caller goes on.            *)

SaveIdentity ==
    \/ identityFile' = bound'
    \/ SaveFails /\ UNCHANGED identityFile

SaveRevoked ==
    \/ revokedFile' = revoked'
    \/ SaveFails /\ UNCHANGED revokedFile

\* The mutex is free.
Unlocked == ~revoking

\* Another request can be served.
MayServe ==
    Cardinality(checked) + Cardinality(accepted) + Cardinality(verified)
        + Cardinality(recorded) < MaxHandlers

-----------------------------------------------------------------------------
(* Register handler.                                                       *)

CheckRevoked(h, c) ==
    /\ Unlocked /\ MayServe /\ c \notin revoked /\ <<h, c>> \notin checked
    /\ checked' = checked \cup {<<h, c>>}
    /\ UNCHANGED <<records, revoked, files, revoking, accepted, verified, recorded,
                   monitor, topology>>

\* Mutant: a certificate bound to another host is accepted.
MayBindShared(h, c) == c \notin revoked /\ bound[h] \in {NoCert, c}

\* Mutant: BindAgentCert trusts the handler's earlier revocation check.
MayBindUnchecked(h, c) ==
    /\ \A other \in Hosts \ {h} : bound[other] # c
    /\ bound[h] \in {NoCert, c}

\* One certificate, one identity: neither side may be bound to another.
MayBind(h, c) ==
    /\ c \notin revoked
    /\ \A other \in Hosts \ {h} : bound[other] # c
    /\ bound[h] \in {NoCert, c}

\* A rejected request may leave a record without a binding behind.
BindAgentCert(h, c) ==
    /\ Unlocked /\ <<h, c>> \in checked
    /\ checked' = checked \ {<<h, c>>}
    /\ IF MayBind(h, c)
       THEN /\ bound' = [bound EXCEPT ![h] = c]
            /\ known' = known \cup {h}
            /\ accepted' = accepted \cup {h}
            /\ SaveIdentity
       ELSE /\ known' = IF c \in revoked \/ \E other \in Hosts \ {h} : bound[other] = c
                        THEN known ELSE known \cup {h}
            /\ UNCHANGED <<bound, accepted, identityFile>>
    /\ UNCHANGED <<active, seen, revoked, revokedFile, revoking, verified, recorded,
                   monitor, topology>>

RegisterAgent(h) ==
    /\ Unlocked /\ h \in accepted
    /\ accepted' = accepted \ {h}
    /\ known' = known \cup {h}
    /\ seen' = [seen EXCEPT ![h] = "fresh"]
    /\ active' = [active EXCEPT ![h] = TRUE]
    /\ UNCHANGED <<bound, revoked, files, revoking, checked, verified, recorded,
                   monitor, topology>>

-----------------------------------------------------------------------------
(* Heartbeat handler.                                                      *)

\* VerifyAgentCert: never with a revoked certificate; an unbound host passes.
VerifyAgentCert(h, c) ==
    /\ Unlocked /\ MayServe /\ h \notin verified
    /\ c \notin revoked /\ bound[h] \in {NoCert, c}
    /\ verified' = verified \cup {h}
    /\ UNCHANGED <<records, revoked, files, revoking, checked, accepted, recorded,
                   monitor, topology>>

RecordHeartbeat(h) ==
    /\ Unlocked /\ h \in verified
    /\ verified' = verified \ {h}
    /\ known' = known \cup {h}
    /\ seen' = [seen EXCEPT ![h] = "fresh"]
    /\ active' = [active EXCEPT ![h] = TRUE]
    /\ recorded' = recorded \cup {h}
    /\ UNCHANGED <<bound, revoked, files, revoking, checked, accepted, monitor, topology>>

\* The network facts of the heartbeat, if it carries any, (re)create the host's
\* topology node.
RecordTopology(h) ==
    /\ h \in recorded
    /\ recorded' = recorded \ {h}
    /\ topology' \in {topology, topology \cup {h}}
    /\ UNCHANGED <<records, revoked, files, revoking, checked, accepted, verified, monitor>>

-----------------------------------------------------------------------------
(* Operator commands.                                                      *)

\* RevokeCert up to the save of the revocation list; every host bound to the
\* certificate is unbound in memory.
RevokeCert(c) ==
    /\ Unlocked /\ c \notin revoked
    /\ revoked' = revoked \cup {c}
    /\ bound' = [h \in Hosts |-> IF bound[h] = c THEN NoCert ELSE bound[h]]
    /\ SaveRevoked
    /\ revoking' = TRUE
    /\ UNCHANGED <<known, active, seen, identityFile, handlers, monitor, topology>>

\* The rest of RevokeCert.
RevokeSaveIdentity ==
    /\ revoking
    /\ revoking' = FALSE
    /\ UNCHANGED <<records, revoked, revokedFile, handlers, monitor, topology>>
    /\ SaveIdentity

UnrevokeCert(c) ==
    /\ Unlocked /\ c \in revoked
    /\ revoked' = revoked \ {c}
    /\ SaveRevoked
    /\ UNCHANGED <<records, identityFile, revoking, handlers, monitor, topology>>

ResetIdentityBindings ==
    /\ Unlocked
    /\ bound' = [h \in Hosts |-> NoCert]
    /\ SaveIdentity
    /\ UNCHANGED <<known, active, seen, revoked, revokedFile, revoking, handlers,
                   monitor, topology>>

-----------------------------------------------------------------------------
(* The monitor and the passage of time.                                    *)

Age(h) ==
    /\ seen[h] \in {"fresh", "stale"}
    /\ seen' = [seen EXCEPT ![h] = IF @ = "fresh" THEN "stale" ELSE "dead"]
    /\ UNCHANGED <<known, active, bound, revoked, files, revoking, handlers, monitor,
                   topology>>

\* checkTimeouts takes its snapshot under the read lock.
CheckTimeouts ==
    /\ Unlocked /\ timedOut = {} /\ expiring = {}
    /\ timedOut' = {h \in known : seen[h] \in {"stale", "dead"}}
    /\ timedOut' # {}
    /\ UNCHANGED <<records, revoked, files, revoking, handlers, expiring, topology>>

\* One host of the snapshot: its alert is published, its topology node deleted.
DeleteTopology(h) ==
    /\ h \in timedOut /\ expiring = {}
    /\ timedOut' = timedOut \ {h}
    /\ expiring' = {h}
    /\ topology' = topology \ {h}
    /\ UNCHANGED <<records, revoked, files, revoking, handlers>>

\* Then, under the lock again, the record is marked without a second look.
Deactivate(h) ==
    /\ Unlocked /\ h \in expiring
    /\ expiring' = {}
    /\ active' = IF h \in known THEN [active EXCEPT ![h] = FALSE] ELSE active
    /\ UNCHANGED <<known, seen, bound, revoked, files, revoking, handlers, timedOut,
                   topology>>

\* The records pruneDeadAgents may drop: never an identity anchor.
Prunable == {h \in known : bound[h] = NoCert /\ ~active[h] /\ seen[h] \in {"never", "dead"}}

\* pruneDeadAgents ends every sweep; a record restored from the file and later
\* unbound has a zero LastSeen, which is before any cutoff.
PruneDeadAgents ==
    /\ Unlocked /\ timedOut = {} /\ expiring = {} /\ Prunable # {}
    /\ known' = known \ Prunable
    /\ active' = [h \in Hosts |-> IF h \in Prunable THEN FALSE ELSE active[h]]
    /\ seen' = [h \in Hosts |-> IF h \in Prunable THEN "never" ELSE seen[h]]
    /\ bound' = [h \in Hosts |-> IF h \in Prunable THEN NoCert ELSE bound[h]]
    /\ UNCHANGED <<revoked, files, revoking, handlers, monitor, topology>>

\* Crash and Init of the next process: bindings and revocations come back from
\* their files, everything else starts empty.
Restart ==
    /\ Crashes
    /\ known' = {h \in Hosts : identityFile[h] # NoCert}
    /\ active' = [h \in Hosts |-> FALSE]
    /\ seen' = [h \in Hosts |-> "never"]
    /\ bound' = identityFile
    /\ revoked' = revokedFile
    /\ revoking' = FALSE
    /\ checked' = {} /\ accepted' = {} /\ verified' = {} /\ recorded' = {}
    /\ timedOut' = {} /\ expiring' = {}
    /\ topology' = {}
    /\ UNCHANGED files

Next ==
    \/ \E h \in Hosts, c \in Certs :
           CheckRevoked(h, c) \/ BindAgentCert(h, c) \/ VerifyAgentCert(h, c)
    \/ \E h \in Hosts :
           \/ RegisterAgent(h) \/ RecordHeartbeat(h) \/ RecordTopology(h)
           \/ Age(h) \/ DeleteTopology(h) \/ Deactivate(h)
    \/ \E c \in Certs : RevokeCert(c) \/ UnrevokeCert(c)
    \/ RevokeSaveIdentity \/ ResetIdentityBindings
    \/ CheckTimeouts \/ PruneDeadAgents \/ Restart

Spec == Init /\ [][Next]_vars

-----------------------------------------------------------------------------
(* Properties that hold.                                                   *)

\* One certificate, one identity: no two hosts are bound to the same
\* certificate, in memory or in the file a restart would load, whatever
\* registrations, revocations, resets, failed saves and restarts interleave.
OneCertOneIdentity ==
    \A h1, h2 \in Hosts :
        h1 # h2 => /\ bound[h1] # NoCert => bound[h1] # bound[h2]
                   /\ identityFile[h1] # NoCert => identityFile[h1] # identityFile[h2]

\* A binding that appears is to a certificate that is not revoked at that
\* moment, even when the revocation lands between the check of the Register
\* handler and BindAgentCert; only a restart can bring back an older one.
RevokedNeverBinds ==
    [][\A h \in Hosts : bound'[h] # bound[h] /\ bound'[h] # NoCert =>
          \/ bound'[h] \notin revoked'
          \/ bound' = identityFile /\ revoked' = revokedFile /\ seen'[h] = "never"]_vars

\* A host changes or loses its certificate only when that certificate is
\* revoked, when all bindings are reset, or by a restart: liveness tracking
\* and later registrations never touch an anchor.
BindingStable ==
    [][\A h \in Hosts : bound[h] # NoCert /\ bound'[h] # bound[h] =>
          \/ bound[h] \in revoked'
          \/ bound' = [g \in Hosts |-> NoCert] /\ known' = known
          \/ bound' = identityFile /\ seen'[h] = "never"]_vars

\* A binding is made to a certificate that is not revoked and lasts until a
\* revocation, a reset or a restart.
BindingsKept == RevokedNeverBinds /\ BindingStable

-----------------------------------------------------------------------------
(* What the module's description says, and the code does not do.           *)

\* RevokeCert unbinds the host "so the host can re-register with a freshly issued
\* certificate" and persists it: no host is ever bound to a revoked certificate.
\* A crash between the two saves breaks it after the restart.
RevokedNeverBound == \A h \in Hosts : bound[h] \notin revoked
=============================================================================
