------------------------------ MODULE CertStore ------------------------------
(***************************************************************************)
(* The certificate directory of the kernel: setupTLS at every start,       *)
(* --force-regen-certs, --verify-certs and --issue-agent-cert              *)
(* (cmd/kernel/main.go, internal/kernel/crypto.go), and what an agent that *)
(* was given copies of the files needs to connect (internal/agent).        *)
(*                                                                         *)
(* A certificate and its key are two files of one pair; a pair is its      *)
(* number and the number of the CA that signed it.  Files are written in   *)
(* place: a write that fails or is cut off by a crash may leave half a     *)
(* file.                                                                   *)
(***************************************************************************)
EXTENDS Naturals, FiniteSets, Sequences

CONSTANTS
    MaxWriteFaults, \* crashes and failing writes in a behaviour
    MaxExpiries,    \* pairs that run out of their validity
    MaxForced       \* runs of --force-regen-certs

VARIABLES
    certFiles,   \* file -> what it holds
    expiredPairs,    \* pairs that are no longer valid
    setupPc,     \* setupTLS: "down" when it does not run, "ca", "server", "agent", "done"
    toWrite,     \* writes setupTLS makes before its next step: [file, pair, must]
    caPair, serverPair,  \* its local variables
    byTool,      \* it runs for --force-regen-certs
    serving,     \* pairs of the running kernel with mTLS: [ca, server, stale], else <<>>
    provisioned, \* an agent's own copies: [ca, pair, forced], else <<>>
    certFaults, forcedRuns

certVars == <<certFiles, expiredPairs, setupPc, toWrite, caPair, serverPair, byTool, serving, provisioned,
              certFaults, forcedRuns>>

Files == {"ca.crt", "ca.key", "server.crt", "server.key", "agent.crt", "agent.key"}
Missing == [n |-> 0, by |-> 0]
Half == [n |-> 0, by |-> 1]

-----------------------------------------------------------------------------
(* crypto.go.                                                              *)

LoadCertPair(c, k) == IF certFiles[c] = certFiles[k] /\ certFiles[c].n # 0 THEN {certFiles[c]} ELSE {}
CAOnDisk == LoadCertPair("ca.crt", "ca.key")
ServerOnDisk == LoadCertPair("server.crt", "server.key")
AgentOnDisk == LoadCertPair("agent.crt", "agent.key")

ValidateCertPair(p) == p.n \notin expiredPairs

VerifyCertChain(p, ca) == p.by = ca.n /\ ValidateCertPair(p) /\ ValidateCertPair(ca)

\* The numbers something holds or was signed by.
inUse == {certFiles[f].n : f \in Files} \cup {certFiles[f].by : f \in Files} \cup {caPair.n, serverPair.n}
            \cup (UNION {{s[1].ca.n, s[1].server.n} : s \in {serving} \ {<<>>}})
            \cup (UNION {{a[1].ca.n, a[1].pair.n} : a \in {provisioned} \ {<<>>}})
            \cup {toWrite[i].pair.n : i \in DOMAIN toWrite}

\* A new pair gets the smallest number that nothing holds.
FreshPair == CHOOSE n \in 1 .. Cardinality(inUse) + 1 :
            /\ n \notin inUse
            /\ \A m \in 1 .. n - 1 : m \in inUse

GenerateCA == [n |-> FreshPair, by |-> FreshPair]
IssueCert(ca) == [n |-> FreshPair, by |-> ca.n]

\* verifyCertificates: what --verify-certs calls consistent.
verifyCertificates ==
    \E ca \in CAOnDisk, s \in ServerOnDisk, a \in AgentOnDisk :
        ValidateCertPair(ca) /\ VerifyCertChain(s, ca) /\ VerifyCertChain(a, ca)

-----------------------------------------------------------------------------
CertInit ==
    /\ certFiles = [f \in Files |-> Missing]
    /\ expiredPairs = {}
    /\ setupPc = "down" /\ toWrite = <<>> /\ byTool = FALSE
    /\ caPair = Missing /\ serverPair = Missing
    /\ serving = <<>> /\ provisioned = <<>>
    /\ certFaults = 0 /\ forcedRuns = 0

\* A number is valid again for the pair that gets it next.
Renewed(p) == expiredPairs' = expiredPairs \ {p.n}

writeOf(f, p, must) == [file |-> f, pair |-> p, must |-> must]
BothFiles(c, k, p, must) == <<writeOf(c, p, must), writeOf(k, p, must)>>

SetupTLS ==
    /\ setupPc = "down" /\ serving = <<>>
    /\ setupPc' = "ca" /\ byTool' = FALSE
    /\ UNCHANGED <<certFiles, expiredPairs, toWrite, caPair, serverPair, serving, provisioned, certFaults, forcedRuns>>

\* A CA that does not load is replaced; for one that loads and is not valid the pairs it
\* signed are removed too.
SetupCA ==
    /\ setupPc = "ca" /\ toWrite = <<>>
    /\ setupPc' = "server"
    /\ IF \E ca \in CAOnDisk : ValidateCertPair(ca)
       THEN caPair' \in CAOnDisk /\ UNCHANGED <<expiredPairs, toWrite>>
       ELSE /\ caPair' = GenerateCA
            /\ Renewed(caPair')
            /\ toWrite' = BothFiles("ca.crt", "ca.key", caPair', TRUE)
                          \o (IF CAOnDisk = {} THEN <<>>
                              ELSE BothFiles("server.crt", "server.key", Missing, FALSE)
                                   \o BothFiles("agent.crt", "agent.key", Missing, FALSE))
    /\ UNCHANGED <<certFiles, serverPair, byTool, serving, provisioned, certFaults, forcedRuns>>

SetupServer ==
    /\ setupPc = "server" /\ toWrite = <<>>
    /\ setupPc' = "agent"
    /\ IF \E s \in ServerOnDisk : VerifyCertChain(s, caPair)
       THEN serverPair' \in ServerOnDisk /\ UNCHANGED <<expiredPairs, toWrite>>
       ELSE /\ serverPair' = IssueCert(caPair)
            /\ Renewed(serverPair')
            /\ toWrite' = BothFiles("server.crt", "server.key", serverPair', TRUE)
    /\ UNCHANGED <<certFiles, caPair, byTool, serving, provisioned, certFaults, forcedRuns>>

\* An agent pair that does not load is left as it is; writes that fail are not looked at.
SetupAgent ==
    /\ setupPc = "agent" /\ toWrite = <<>>
    /\ setupPc' = "done"
    /\ IF certFiles["agent.crt"] = Missing \/ \E a \in AgentOnDisk : ~VerifyCertChain(a, caPair)
       THEN LET a == IssueCert(caPair)
            IN  Renewed(a) /\ toWrite' = BothFiles("agent.crt", "agent.key", a, FALSE)
       ELSE UNCHANGED <<expiredPairs, toWrite>>
    /\ UNCHANGED <<certFiles, caPair, serverPair, byTool, serving, provisioned, certFaults, forcedRuns>>

Write ==
    /\ toWrite # <<>>
    /\ certFiles' = [certFiles EXCEPT ![Head(toWrite).file] = Head(toWrite).pair]
    /\ toWrite' = Tail(toWrite)
    /\ UNCHANGED <<expiredPairs, setupPc, caPair, serverPair, byTool, serving, provisioned, certFaults, forcedRuns>>

\* The end of setupTLS and, for the tool, of the process.
Leave ==
    /\ setupPc' = "down" /\ toWrite' = <<>> /\ byTool' = FALSE
    /\ caPair' = Missing /\ serverPair' = Missing

\* The kernel listens with both pairs, after it wrote the certificates once more if the
\* files hold something else.
SetupDone ==
    /\ setupPc = "done" /\ toWrite = <<>>
    /\ certFiles' = [certFiles EXCEPT !["ca.crt"] = caPair, !["server.crt"] = serverPair]
    /\ Leave
    /\ serving' = IF byTool THEN serving ELSE <<[ca |-> caPair, server |-> serverPair, stale |-> FALSE]>>
    /\ UNCHANGED <<expiredPairs, provisioned, certFaults, forcedRuns>>

Fault == certFaults < MaxWriteFaults /\ certFaults' = certFaults + 1

spoilt(w) == IF w.pair = Missing THEN {certFiles} ELSE {certFiles, [certFiles EXCEPT ![w.file] = Half]}

\* writeCertFile reports the error: setupTLS gives up, without mTLS, unless nobody looks.
WriteFails ==
    /\ toWrite # <<>> /\ Fault
    /\ certFiles' \in spoilt(Head(toWrite))
    /\ IF Head(toWrite).must THEN Leave
       ELSE toWrite' = Tail(toWrite) /\ UNCHANGED <<setupPc, byTool, caPair, serverPair>>
    /\ UNCHANGED <<expiredPairs, serving, provisioned, forcedRuns>>

SetupCrashes ==
    /\ setupPc # "down" /\ Fault
    /\ certFiles' \in {certFiles} \cup UNION {spoilt(w) : w \in {toWrite[i] : i \in DOMAIN toWrite \cap {1}}}
    /\ Leave
    /\ UNCHANGED <<expiredPairs, serving, provisioned, forcedRuns>>

KernelEnds ==
    /\ serving # <<>> /\ serving' = <<>>
    /\ UNCHANGED <<certFiles, expiredPairs, setupPc, toWrite, caPair, serverPair, byTool, provisioned, certFaults, forcedRuns>>

\* --force-regen-certs removes the directory, or a part of it when it is interrupted, and
\* runs setupTLS; a kernel that is running goes on with the pairs it has.
ForceRegen(removed) ==
    /\ setupPc = "down" /\ forcedRuns < MaxForced
    /\ forcedRuns' = forcedRuns + 1
    /\ certFiles' = [f \in Files |-> IF f \in removed THEN Missing ELSE certFiles[f]]
    /\ setupPc' = (IF removed = Files THEN "ca" ELSE "down") /\ byTool' = (removed = Files)
    /\ serving' = IF serving = <<>> THEN <<>> ELSE <<[serving[1] EXCEPT !.stale = TRUE]>>
    /\ provisioned' = IF provisioned = <<>> THEN <<>> ELSE <<[provisioned[1] EXCEPT !.forced = TRUE]>>
    /\ UNCHANGED <<expiredPairs, toWrite, caPair, serverPair, certFaults>>

\* The operator copies the CA certificate and the agent's pair to an agent's host, once
\* --verify-certs finds the directory consistent.
Provision ==
    /\ provisioned = <<>> /\ setupPc = "down" /\ verifyCertificates
    /\ provisioned' = <<[ca |-> certFiles["ca.crt"], pair |-> certFiles["agent.crt"], forced |-> FALSE]>>
    /\ UNCHANGED <<certFiles, expiredPairs, setupPc, toWrite, caPair, serverPair, byTool, serving, certFaults, forcedRuns>>

\* --issue-agent-cert: a pair of the host's own, also while a kernel runs or starts.
issueAgentCertificate ==
    /\ provisioned = <<>>
    /\ \E ca \in CAOnDisk :
          /\ provisioned' = <<[ca |-> ca, pair |-> IssueCert(ca), forced |-> FALSE]>>
          /\ Renewed(IssueCert(ca))
    /\ UNCHANGED <<certFiles, setupPc, toWrite, caPair, serverPair, byTool, serving, certFaults, forcedRuns>>

\* A set-up takes no time to speak of.
Expire(n) ==
    /\ setupPc = "down"
    /\ Cardinality(expiredPairs) < MaxExpiries /\ n \notin expiredPairs
    /\ expiredPairs' = expiredPairs \cup {n}
    /\ UNCHANGED <<certFiles, setupPc, toWrite, caPair, serverPair, byTool, serving, provisioned, certFaults, forcedRuns>>

CertNext ==
    \/ SetupTLS \/ SetupCA \/ SetupServer \/ SetupAgent \/ SetupDone
    \/ Write \/ WriteFails \/ SetupCrashes \/ KernelEnds
    \/ \E removed \in {Files, {"ca.crt"}, {"ca.crt", "ca.key", "agent.crt"}} : ForceRegen(removed)
    \/ Provision \/ issueAgentCertificate
    \/ \E n \in inUse \ {0} : Expire(n)

CertSpec == CertInit /\ [][CertNext]_certVars

-----------------------------------------------------------------------------
(* Properties.                                                             *)

\* connect: each side verifies the other's certificate against the CA it has.  The second
\* attempt reads the same files again.
Connects(k, a) ==
    /\ k.server.by = a.ca.n /\ a.pair.by = k.ca.n
    /\ {k.server.n, k.ca.n, a.pair.n, a.ca.n} \cap expiredPairs = {}

\* A kernel serves what its directory holds, signed by the CA beside it, and an agent pair
\* that loads is of that CA or no longer valid, unless a write failed.  An agent that was
\* given sound copies goes on being able to connect, whatever crashes and failed writes
\* came between, until one of the certificates expires or --force-regen-certs is run.
CertsSound ==
    \A s \in {x[1] : x \in {serving} \ {<<>>}} :
        ~s.stale =>
            /\ CAOnDisk = {s.ca} /\ ServerOnDisk = {s.server} /\ s.server.by = s.ca.n
            /\ certFaults = 0 => \A a \in AgentOnDisk : a.by = s.ca.n
            /\ \A a \in {x[1] : x \in {provisioned} \ {<<>>}} :
                  Connects(s, a) \/ a.forced
                  \/ {s.server.n, s.ca.n, a.pair.n, a.ca.n} \cap expiredPairs # {}

=============================================================================
