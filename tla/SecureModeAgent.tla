-------------------------- MODULE SecureModeAgent ---------------------------
(***************************************************************************)
(* One agent and the kernel exchanging its unlock secret: the agent half   *)
(* of secure mode (internal/agent/securemode.go and the heartbeat loop of  *)
(* agent.go) composed with the kernel's heartbeat handler                  *)
(* (internal/comms/services.go), its secret registry and its command       *)
(* queue.  Calls time out, are refused or break with their connection,     *)
(* both processes may crash, and an operator switches the kernel's mode,   *)
(* unlocks it and queues commands.  An answer carries no request number:   *)
(* after a call that timed out, the agent takes the late answer for that   *)
(* of its next call, and so on until the connection ends, which it only    *)
(* does with the process (AgentSession).  The kernel's own file operations *)
(* are atomic here; they are split in SecureModeController.                *)
(*                                                                         *)
(* Passwords are the numbers 1, 2, ... in the order they are generated,    *)
(* 0 is no password.  A config text is "full" (the operator's protected    *)
(* settings) or "minimal" (what secureSelfRecover leaves of them).         *)
(***************************************************************************)
EXTENDS Naturals, Sequences

CONSTANTS
    MaxNoUnlock,      \* misses a locked agent tolerates (AgentConfig.SecureMaxNoUnlock)
    MaxRetries,       \* consecutive failed heartbeats that end the agent
    EnvKey,           \* the agent's HMAC key comes from the environment or a key file
    MaxCommands,      \* bound: commands the operator queues
    MaxAgentCrashes,  \* bound: agent crashes
    MaxKernelCrashes, \* bound: kernel crashes
    MaxLosses         \* bound: calls that time out or are refused, connections that break

ASSUME AgentAssumption ==
    /\ MaxNoUnlock \in Nat \ {0} /\ MaxRetries \in Nat \ {0}
    /\ EnvKey \in BOOLEAN
    /\ MaxCommands \in Nat /\ MaxAgentCrashes \in Nat
    /\ MaxKernelCrashes \in Nat /\ MaxLosses \in Nat

VARIABLES
    \* agent: disk
    plain,          \* text of agent.ini, or "none"
    enc,            \* agent.ini.enc: [pw, text], pw = 0 when absent
    \* agent: memory
    agent,          \* "down", "up", "refused"
    link,           \* the connection of the session: "none", "open" or "broken"
    phase,          \* where the heartbeat cycle is
    secureReported, \* the call in progress carries the password
    errors,         \* consecutive failed heartbeats
    password, reported, locked, noUnlockCount,   \* secureState
    pendingCmd,     \* commands of the last response, not executed yet
    hmacKey,        \* a command signature can be verified
    \* network
    requests,       \* heartbeats on their way to the kernel
    replies,        \* answers on their way to the agent
    \* kernel
    secureKernel,   \* the kernel is built with the securemode tag
    kernel,         \* "down", "default", "locked" (run mode before unlock), "run"
    kernelMarker,   \* persisted mode
    registry,       \* password registered for this agent's fingerprint
    registryFile,   \* the same in the persisted registry
    commands,       \* commander's pending commands for this host
    \* bookkeeping
    nextPw, issued, agentCrashes, kernelCrashes, losses,
    owed,           \* a call of this connection has timed out
    strayed         \* passwords whose report was refused or lost while an answer was owed

agentDisk == <<plain, enc>>
agentSecure == <<password, reported, locked, noUnlockCount>>
cycle == <<phase, secureReported, errors>>
network == <<link, requests, replies>>
history == <<owed, strayed>>
kernelVars == <<secureKernel, kernel, kernelMarker, registry, registryFile, commands>>
budget == <<issued, agentCrashes, kernelCrashes, losses>>
vars == <<agentDisk, agent, cycle, agentSecure, pendingCmd, hmacKey, network,
          kernelVars, nextPw, budget, history>>

NoEnc == [pw |-> 0, text |-> "none"]
Refusal == [kind |-> "error", unlock |-> 0, noSecret |-> FALSE, cmds |-> {}]

Passwords == Nat
Texts == {"none", "full", "minimal"}
EncFiles == [pw : Passwords, text : Texts]
Requests == [kind : {"locked", "password", "nil"}, pw : Passwords]
Command == [cmd : {"enter", "exit", "rotate"}, pw : Passwords]
Responses == [kind : {"ok", "error"}, unlock : Passwords, noSecret : BOOLEAN,
              cmds : SUBSET Command]

TypeOK ==
    /\ plain \in Texts /\ enc \in EncFiles
    /\ agent \in {"down", "up", "refused"}
    /\ phase \in {"idle", "exec", "encrypted", "decrypted", "wait"}
    /\ password \in Passwords
    /\ link \in {"none", "open", "broken"} /\ errors \in Nat
    /\ secureReported \in BOOLEAN /\ reported \in BOOLEAN /\ locked \in BOOLEAN
    /\ hmacKey \in BOOLEAN /\ owed \in BOOLEAN /\ strayed \subseteq Passwords
    /\ noUnlockCount \in Nat
    /\ pendingCmd \subseteq Command
    /\ requests \in Seq(Requests) /\ replies \in Seq(Responses)
    /\ secureKernel \in BOOLEAN
    /\ kernel \in {"down", "default", "locked", "run"}
    /\ kernelMarker \in {"default", "run"}
    /\ registry \in Passwords /\ registryFile \in Passwords
    /\ commands \subseteq Command
    /\ nextPw \in Passwords \ {0}
    /\ issued \in 0..MaxCommands /\ losses \in 0..MaxLosses
    /\ agentCrashes \in 0..MaxAgentCrashes /\ kernelCrashes \in 0..MaxKernelCrashes

Init ==
    /\ plain = "full" /\ enc = NoEnc
    /\ agent = "down" /\ phase = "idle" /\ secureReported = FALSE /\ errors = 0
    /\ password = 0 /\ reported = FALSE /\ locked = FALSE /\ noUnlockCount = 0
    /\ pendingCmd = {} /\ hmacKey = FALSE
    /\ link = "none" /\ requests = <<>> /\ replies = <<>>
    /\ owed = FALSE /\ strayed = {}
    /\ secureKernel \in BOOLEAN
    /\ kernel = "down" /\ kernelMarker = "default"
    /\ registry = 0 /\ registryFile = 0 /\ commands = {}
    /\ nextPw = 1
    /\ issued = 0 /\ agentCrashes = 0 /\ kernelCrashes = 0 /\ losses = 0

-----------------------------------------------------------------------------
(* Agent: start and crash.                                                 *)

\* InitSecureMode classifies the files; both present is refused.  The key is
\* in the protected part of the config, so a locked start has it only when it
\* comes from elsewhere.
AgentStart ==
    /\ agent # "up"
    /\ IF plain # "none" /\ enc.pw # 0
       THEN agent' = "refused" /\ UNCHANGED <<locked, hmacKey>>
       ELSE /\ agent' = "up"
            /\ locked' = (plain = "none")
            /\ hmacKey' = (EnvKey \/ plain = "full")
    /\ UNCHANGED <<agentDisk, cycle, password, reported, noUnlockCount, pendingCmd,
                   network, kernelVars, nextPw, budget, history>>

\* The process ends with its memory and its connection.  What the kernel had not served
\* of it is lost.
AgentEnds ==
    /\ agent' = "down" /\ phase' = "idle" /\ secureReported' = FALSE /\ errors' = 0
    /\ password' = 0 /\ reported' = FALSE /\ locked' = FALSE /\ noUnlockCount' = 0
    /\ pendingCmd' = {} /\ hmacKey' = FALSE
    /\ link' = "none" /\ requests' = <<>> /\ replies' = <<>> /\ owed' = FALSE

AgentCrash ==
    /\ agent = "up" /\ agentCrashes < MaxAgentCrashes
    /\ agentCrashes' = agentCrashes + 1
    /\ AgentEnds
    /\ UNCHANGED <<agentDisk, kernelVars, nextPw, issued, kernelCrashes, losses, strayed>>

-----------------------------------------------------------------------------
(* Agent: heartbeatCycle up to the call.                                   *)

\* runOnce: connect and register.
OpenSession ==
    /\ agent = "up" /\ link = "none" /\ kernel # "down"
    /\ link' = "open"
    /\ UNCHANGED <<agentDisk, agent, cycle, agentSecure, pendingCmd, hmacKey, requests, replies,
                   kernelVars, nextPw, budget, history>>

\* The timer fires; the commands of the previous response run first.
StartCycle ==
    /\ agent = "up" /\ link # "none" /\ phase = "idle"
    /\ phase' = "exec"
    /\ UNCHANGED <<agentDisk, agent, secureReported, errors, agentSecure, pendingCmd, hmacKey,
                   network, kernelVars, nextPw, budget, history>>

\* secureMaybeBootstrap has something to encrypt.
NeedsBootstrap == ~locked /\ password = 0 /\ plain # "none"

\* EncryptFile under a new password: .enc is committed, plaintext still there.
Encrypt ==
    /\ enc' = [pw |-> nextPw, text |-> plain]
    /\ nextPw' = nextPw + 1
    /\ phase' = "encrypted"
    /\ UNCHANGED <<plain, agentSecure>>

\* The rest of secureMaybeBootstrap: only now is the password retained.
RemovePlaintext ==
    /\ agent = "up" /\ phase = "encrypted"
    /\ plain' = "none"
    /\ password' = enc.pw /\ reported' = FALSE
    /\ phase' = "exec"
    /\ UNCHANGED <<enc, agent, secureReported, errors, locked, noUnlockCount, pendingCmd,
                   hmacKey, network, kernelVars, nextPw, budget, history>>

\* securemode_exit with a password that decrypts: plaintext is committed.
CommandExit(c) ==
    /\ c.cmd = "exit"
    /\ IF enc.pw # 0 /\ enc.pw = c.pw
       THEN plain' = enc.text /\ phase' = "decrypted"
       ELSE UNCHANGED <<plain, phase>>
    /\ UNCHANGED <<enc, agentSecure, nextPw>>

\* The rest of securemode_exit.
RemoveCiphertext ==
    /\ agent = "up" /\ phase = "decrypted"
    /\ enc' = NoEnc
    /\ password' = 0 /\ reported' = FALSE /\ locked' = FALSE
    /\ phase' = "exec"
    /\ UNCHANGED <<plain, agent, secureReported, errors, noUnlockCount, pendingCmd, hmacKey,
                   network, kernelVars, nextPw, budget, history>>

\* Mutant: the new password is not reported again.
CommandRotateUnreported(c) ==
    /\ c.cmd = "rotate"
    /\ IF enc.pw # 0 /\ enc.pw = c.pw
       THEN /\ enc' = [enc EXCEPT !.pw = nextPw]
            /\ password' = nextPw
            /\ nextPw' = nextPw + 1
       ELSE UNCHANGED <<enc, password, nextPw>>
    /\ UNCHANGED <<plain, phase, reported, locked, noUnlockCount>>

\* securemode_rotate re-encrypts with a new password and does not touch locked.
CommandRotate(c) ==
    /\ c.cmd = "rotate"
    /\ IF enc.pw # 0 /\ enc.pw = c.pw
       THEN /\ enc' = [enc EXCEPT !.pw = nextPw]
            /\ password' = nextPw /\ reported' = FALSE
            /\ nextPw' = nextPw + 1
       ELSE UNCHANGED <<enc, password, reported, nextPw>>
    /\ UNCHANGED <<plain, phase, locked, noUnlockCount>>

CommandEnter(c) ==
    /\ c.cmd = "enter"
    /\ IF NeedsBootstrap
       THEN Encrypt
       ELSE UNCHANGED <<agentDisk, phase, agentSecure, nextPw>>

\* executePendingCommands takes the commands in any order: the kernel collects
\* them from a map.  One that cannot be verified or has expired is dropped.
ExecuteCommand ==
    /\ agent = "up" /\ phase = "exec"
    /\ \E c \in pendingCmd :
        /\ pendingCmd' = pendingCmd \ {c}
        /\ \/ UNCHANGED <<agentDisk, phase, agentSecure, nextPw>>
           \/ hmacKey /\ CommandEnter(c)
           \/ hmacKey /\ CommandExit(c)
           \/ hmacKey /\ CommandRotate(c)
    /\ UNCHANGED <<agent, secureReported, errors, hmacKey, network, kernelVars, budget, history>>

\* secureMaybeBootstrap, called by the cycle itself.
SecureMaybeBootstrap ==
    /\ agent = "up" /\ phase = "exec" /\ pendingCmd = {} /\ NeedsBootstrap
    /\ Encrypt
    /\ UNCHANGED <<agent, secureReported, errors, pendingCmd, hmacKey, network, kernelVars,
                   budget, history>>

Call(request) ==
    /\ phase' = "wait" /\ secureReported' = (request.kind = "password")
    /\ requests' = IF link = "open" THEN Append(requests, request) ELSE requests
    /\ UNCHANGED <<agentDisk, agent, errors, agentSecure, pendingCmd, hmacKey, link, replies,
                   kernelVars, nextPw, budget, history>>

\* Mutant: the report of an unlocked agent is never attached.
SendHeartbeatWithoutReport ==
    /\ agent = "up" /\ phase = "exec" /\ pendingCmd = {} /\ ~NeedsBootstrap
    /\ Call([kind |-> IF locked THEN "locked" ELSE "nil", pw |-> 0])

\* attachSecureModeReport over mTLS, then the call.
SendHeartbeat ==
    /\ agent = "up" /\ phase = "exec" /\ pendingCmd = {} /\ ~NeedsBootstrap
    /\ Call(IF locked THEN [kind |-> "locked", pw |-> 0]
            ELSE IF password = 0 \/ reported THEN [kind |-> "nil", pw |-> 0]
            ELSE [kind |-> "password", pw |-> password])

\* A failed heartbeat: the next one after a backoff, or the end of the agent.
CycleFails(rest, late) ==
    IF errors + 1 >= MaxRetries
    THEN AgentEnds
    ELSE /\ errors' = errors + 1 /\ phase' = "idle" /\ secureReported' = FALSE
         /\ replies' = rest /\ owed' = late
         /\ UNCHANGED <<agent, agentSecure, pendingCmd, hmacKey, link, requests>>

\* The call fails: on a broken connection, or with an answer that is an error.
HeartbeatError ==
    /\ agent = "up" /\ phase = "wait"
    /\ \/ link = "broken" /\ CycleFails(replies, owed)
       \/ replies # <<>> /\ Head(replies).kind = "error" /\ CycleFails(Tail(replies), owed)
    /\ UNCHANGED <<agentDisk, kernelVars, nextPw, budget, strayed>>

\* The read deadline passes; request and answer stay on their way.
HeartbeatTimeout ==
    /\ agent = "up" /\ phase = "wait" /\ link = "open" /\ replies = <<>>
    /\ losses < MaxLosses /\ losses' = losses + 1
    /\ CycleFails(replies, TRUE)
    /\ UNCHANGED <<agentDisk, kernelVars, nextPw, issued, agentCrashes, kernelCrashes, strayed>>

-----------------------------------------------------------------------------
(* Agent: the response.                                                    *)

\* What the client reads: the answer to the call in progress, or one that was owed.
resp == Head(replies)

\* unlockWithPassword; on failure the miss is counted and the agent stays
\* locked, without looking at the threshold.  The count stops mattering, and
\* is no longer increased here, once it has reached the threshold.
ApplyUnlock ==
    /\ IF enc.pw = resp.unlock
       THEN /\ password' = resp.unlock /\ reported' = FALSE
            /\ locked' = FALSE /\ noUnlockCount' = 0
            /\ hmacKey' = (hmacKey \/ enc.text = "full")
       ELSE /\ noUnlockCount' = IF noUnlockCount < MaxNoUnlock THEN noUnlockCount + 1
                                                               ELSE noUnlockCount
            /\ UNCHANGED <<password, reported, locked, hmacKey>>
    /\ UNCHANGED <<enc, nextPw>>

\* Mutant: a plain response without a password is not counted.
MissesUncounted == IF resp.noSecret THEN MaxNoUnlock ELSE noUnlockCount

\* The miss counter after a response without a password.
Misses == IF resp.noSecret THEN MaxNoUnlock ELSE noUnlockCount + 1

\* secureSelfRecover: a new password over the bootstrap section only.
SelfRecover ==
    /\ enc' = [pw |-> nextPw, text |-> "minimal"]
    /\ nextPw' = nextPw + 1
    /\ password' = nextPw /\ reported' = FALSE
    /\ locked' = FALSE /\ noUnlockCount' = 0
    /\ UNCHANGED hmacKey

\* handleSecureModeResponse of a locked agent.
HandleLocked ==
    \/ resp.unlock # 0 /\ ApplyUnlock
    \/ resp.unlock = 0 /\ Misses >= MaxNoUnlock /\ SelfRecover
    \/ /\ resp.unlock = 0 /\ Misses < MaxNoUnlock
       /\ noUnlockCount' = Misses
       /\ UNCHANGED <<enc, nextPw, password, reported, locked, hmacKey>>

\* The bookkeeping of an unlocked one: an accepted report is not repeated until
\* the kernel signals that it has no registration (secureReArmReport).
HandleUnlocked ==
    /\ reported' = IF password # 0 /\ resp.noSecret THEN FALSE
                   ELSE IF password # 0 /\ secureReported THEN TRUE
                   ELSE reported
    /\ UNCHANGED <<enc, nextPw, password, locked, noUnlockCount, hmacKey>>

ReceiveResponse ==
    /\ agent = "up" /\ phase = "wait" /\ replies # <<>> /\ resp.kind = "ok"
    /\ IF locked THEN HandleLocked ELSE HandleUnlocked
    /\ pendingCmd' = resp.cmds
    /\ phase' = "idle" /\ secureReported' = FALSE /\ errors' = 0
    /\ replies' = Tail(replies)
    /\ UNCHANGED <<plain, agent, link, requests, kernelVars, budget, history>>

-----------------------------------------------------------------------------
(* Kernel.                                                                 *)

request == Head(requests)
ToAnswer == kernel # "down" /\ requests # <<>>
Answer(a) ==
    /\ requests' = Tail(requests) /\ replies' = Append(replies, a)
    /\ UNCHANGED <<agentDisk, agent, cycle, agentSecure, pendingCmd, hmacKey, link,
                   secureKernel, kernel, kernelMarker, nextPw, owed>>

\* Mutant: only a run-mode kernel hands the password out, and signals that it
\* has none otherwise.
KernelHeartbeatRunOnly ==
    /\ ToAnswer
    /\ Answer([kind |-> "ok",
               unlock |-> IF kernel = "run" /\ request.kind = "locked" THEN registry ELSE 0,
               noSecret |-> request.kind # "password" /\ (kernel # "run" \/ registry = 0),
               cmds |-> commands])
    /\ commands' = {}
    /\ registry' = IF request.kind = "password" THEN request.pw ELSE registry
    /\ registryFile' = IF kernel = "run" THEN registry' ELSE registryFile
    /\ UNCHANGED <<budget, strayed>>

\* Heartbeat: the secure-mode exchange, then the host's pending commands.  A
\* registration is persisted only by an unlocked run-mode kernel.
KernelHeartbeat ==
    /\ ToAnswer
    /\ Answer([kind |-> "ok",
               unlock |-> IF secureKernel /\ request.kind = "locked" THEN registry ELSE 0,
               noSecret |-> secureKernel /\ request.kind # "password" /\ registry = 0,
               cmds |-> commands])
    /\ commands' = {}
    /\ IF secureKernel /\ request.kind = "password"
       THEN /\ registry' = request.pw
            /\ registryFile' = IF kernel = "run" THEN request.pw ELSE registryFile
       ELSE UNCHANGED <<registry, registryFile>>
    /\ UNCHANGED <<budget, strayed>>

\* The reports among the requests rs are lost to an agent that is owed an answer.
Strays(rs) ==
    strayed' = IF owed THEN strayed \cup {rs[i].pw : i \in {j \in DOMAIN rs : rs[j].kind = "password"}}
                       ELSE strayed

\* An interceptor or the service refuses the call.
RefuseHeartbeat ==
    /\ ToAnswer /\ losses < MaxLosses /\ losses' = losses + 1
    /\ Answer(Refusal)
    /\ Strays(<<request>>)
    /\ UNCHANGED <<registry, registryFile, commands, issued, agentCrashes, kernelCrashes>>

\* The connection ends under the session, or handleConn gives an idle one up.
LinkBreaks ==
    /\ link = "open" /\ losses < MaxLosses /\ losses' = losses + 1
    /\ link' = "broken" /\ requests' = <<>> /\ replies' = <<>>
    /\ Strays(requests)
    /\ UNCHANGED <<agentDisk, agent, cycle, agentSecure, pendingCmd, hmacKey, kernelVars, nextPw,
                   issued, agentCrashes, kernelCrashes, owed>>

\* mode agent <id> enter|exit|rotate-password: the password is the one that is
\* registered when the command is queued.
EnqueueCommand(cmd) ==
    /\ secureKernel /\ kernel # "down" /\ issued < MaxCommands
    /\ cmd # "enter" => registry # 0
    /\ commands' = commands \cup
            {[cmd |-> cmd, pw |-> IF cmd = "enter" THEN 0 ELSE registry]}
    /\ issued' = issued + 1
    /\ UNCHANGED <<agentDisk, agent, cycle, agentSecure, pendingCmd, hmacKey, network,
                   secureKernel, kernel, kernelMarker, registry, registryFile, nextPw,
                   agentCrashes, kernelCrashes, losses, history>>

\* mode enter: the registry in memory is persisted.
KernelEnterRun ==
    /\ secureKernel /\ kernel = "default"
    /\ kernel' = "run" /\ kernelMarker' = "run" /\ registryFile' = registry
    /\ UNCHANGED <<agentDisk, agent, cycle, agentSecure, pendingCmd, hmacKey, network,
                   secureKernel, registry, commands, nextPw, budget, history>>

\* mode exit: the registry file is removed, the registry in memory stays.
KernelExitRun ==
    /\ kernel \in {"run", "locked"}
    /\ kernel' = "default" /\ kernelMarker' = "default" /\ registryFile' = 0
    /\ UNCHANGED <<agentDisk, agent, cycle, agentSecure, pendingCmd, hmacKey, network,
                   secureKernel, registry, commands, nextPw, budget, history>>

\* mode unlock: the persisted registry replaces the one in memory.
KernelUnlock ==
    /\ kernel \in {"run", "locked"}
    /\ kernel' = "run" /\ registry' = registryFile
    /\ UNCHANGED <<agentDisk, agent, cycle, agentSecure, pendingCmd, hmacKey, network,
                   secureKernel, kernelMarker, registryFile, commands, nextPw, budget, history>>

\* The kernel serves heartbeats in run mode before it is unlocked.
KernelStart ==
    /\ kernel = "down"
    /\ kernel' = IF kernelMarker = "run" THEN "locked" ELSE "default"
    /\ UNCHANGED <<agentDisk, agent, cycle, agentSecure, pendingCmd, hmacKey, network,
                   secureKernel, kernelMarker, registry, registryFile, commands, nextPw, budget, history>>

KernelCrash ==
    /\ kernel # "down" /\ kernelCrashes < MaxKernelCrashes
    /\ kernelCrashes' = kernelCrashes + 1
    /\ kernel' = "down" /\ registry' = 0 /\ commands' = {}
    /\ link' = (IF link = "open" THEN "broken" ELSE link) /\ requests' = <<>> /\ replies' = <<>>
    /\ UNCHANGED <<agentDisk, agent, cycle, agentSecure, pendingCmd, hmacKey, secureKernel,
                   kernelMarker, registryFile, nextPw, issued, agentCrashes, losses, history>>

-----------------------------------------------------------------------------
AgentStep ==
    \/ OpenSession \/ StartCycle \/ ExecuteCommand \/ SecureMaybeBootstrap
    \/ RemovePlaintext \/ RemoveCiphertext \/ SendHeartbeat \/ HeartbeatError
    \/ ReceiveResponse

Next ==
    \/ AgentStart \/ AgentCrash \/ AgentStep
    \/ KernelHeartbeat \/ KernelEnterRun \/ KernelExitRun \/ KernelUnlock
    \/ HeartbeatTimeout \/ RefuseHeartbeat \/ LinkBreaks \/ KernelStart \/ KernelCrash
    \/ \E cmd \in {"enter", "exit", "rotate"} : EnqueueCommand(cmd)

\* Both processes are restarted by their supervisor, the agent's heartbeat
\* timer keeps firing and the kernel answers what reaches it.
Fairness ==
    /\ WF_vars(AgentStart) /\ WF_vars(AgentStep)
    /\ WF_vars(KernelStart) /\ WF_vars(KernelHeartbeat)

Spec == Init /\ [][Next]_vars /\ Fairness

-----------------------------------------------------------------------------
(* Properties that hold.                                                   *)

\* Whatever commands, losses and restarts did, a password the agent holds opens
\* the .enc on its disk: reporting it always registers a usable secret.
PasswordOpensConfig == agent = "up" /\ password # 0 => enc.pw = password

\* The report of the agent's password is on its way.
ReportPending == \E i \in DOMAIN requests : requests[i] = [kind |-> "password", pw |-> password]

\* An agent that stops reporting its password is registered with exactly that password, as
\* long as the kernel process lives: rotation, exit and re-entry, failed calls and command
\* reordering never leave another one registered.  An agent that took a late answer for
\* that of its report may have stopped too early: the report is on its way, or it was
\* refused or lost after the call that is owed an answer.
ReportedMeansRegistered ==
    secureKernel /\ kernelCrashes = 0 /\ agent = "up" /\ link = "open" /\ reported /\ ~locked
        => registry = password \/ (owed /\ (ReportPending \/ password \in strayed))

\* The password, the config on disk and the kernel's registry never part: what an
\* agent holds opens its config, and what it has stopped reporting is registered.
SecretsAgree == PasswordOpensConfig /\ ReportedMeansRegistered

\* secureSelfRecover destroys the protected settings only when a kernel that
\* never restarted has no usable password for them.
SelfRecoveryJustified ==
    [][secureKernel /\ kernelCrashes = 0 /\ enc.text = "full" /\ enc'.text = "minimal" => registry # enc.pw]_vars

\* Once commands, faults and agent crashes stop, an unlocked agent is and stays registered
\* with its current password.  Only a report that was refused or lost while an answer was
\* owed leaves it with an older registration for good; a missing one is repaired.
RegistrationSettles ==
    secureKernel /\ [](kernelCrashes = 0) =>
        <>[](agent = "up" /\ link = "open" /\ ~locked =>
                /\ password # 0
                /\ registry = password \/ (owed /\ password \in strayed /\ registry # 0))

\* The kernel has no password for the agent, or the one that opens its config.
NotStale == registry \in {0, enc.pw}

\* A locked agent does not stay locked: a registration that is not stale
\* unlocks it, a missing one makes it recover (handleSecureModeResponse), across
\* lost heartbeats, kernel restarts and kernels without secure mode.
LockedAgentRecovers ==
    (agent = "up" /\ locked /\ NotStale) ~> (agent # "up" \/ ~locked \/ ~NotStale)

-----------------------------------------------------------------------------
(* What comments and the design document say, and the code does not do.    *)

\* securemode.go, handleSecureModeResponse: a stale or wrong registration heals
\* itself through the miss counter.
LockedAgentServes == (agent = "up" /\ locked) ~> (agent # "up" \/ ~locked)

\* Design section 8.2: when kernel and agent restart together, the agent falls
\* back to a new password only if the kernel's registry is unrecoverable.
SelfRecoveryOnlyWhenLost ==
    [][secureKernel /\ enc.text = "full" /\ enc'.text = "minimal"
       => registryFile # enc.pw]_vars
=============================================================================
