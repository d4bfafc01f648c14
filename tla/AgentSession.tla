---------------------------- MODULE AgentSession ----------------------------
(***************************************************************************)
(* The agent's connection to the kernel: Agent.Run, runOnce, connect,      *)
(* register and heartbeatCycle (internal/agent/agent.go), the line         *)
(* protocol of internal/agent/client.go, and the kernel's side of it,      *)
(* handleConn and the Register and Heartbeat services (internal/comms).    *)
(* systemd restarts an agent that ends (internal/agentinstall).            *)
(*                                                                         *)
(* A reply carries no request number: Client.call takes the next line it   *)
(* reads for the answer.  Kernel crashes, refused calls and slow answers   *)
(* are faults, at most MaxFaults of them.                                  *)
(***************************************************************************)
EXTENDS Naturals, Sequences

CONSTANTS
    MaxRetries,  \* consecutive failed heartbeats that end the agent
    IdleErrors,  \* failed heartbeats whose backoff outlasts the server's KeepaliveTimeout
    MaxFaults    \* bound on the faults

ASSUME SessionAssumption == {MaxRetries, IdleErrors, MaxFaults} \subseteq Nat

VARIABLES
    kernelUp,    \* the kernel runs
    asset,       \* the kernel holds the host's package list (SPC, in memory)
    pc,          \* where the agent is
    link,        \* the client's connection: "none", "open" or "broken"
    requests,    \* calls on their way to the kernel
    replies,     \* answers on their way to the agent
    sessionID,   \* the agent has one
    pkgSent,     \* the package list counts as sent
    errors,      \* consecutiveErrors
    stopping,    \* SIGTERM was received
    faults,      \* faults so far
    hurt         \* a call on this connection has failed

sessionVars == <<kernelUp, asset, pc, link, requests, replies, sessionID, pkgSent, errors,
                 stopping, faults, hurt>>
wireVars == <<link, requests, replies>>
memoryVars == <<sessionID, pkgSent, errors>>

Calls == {"register", "plain", "full"}
Answers == [to : Calls, ok : BOOLEAN]

SessionTypeOK ==
    /\ kernelUp \in BOOLEAN /\ asset \in BOOLEAN /\ sessionID \in BOOLEAN
    /\ pkgSent \in BOOLEAN /\ stopping \in BOOLEAN /\ hurt \in BOOLEAN
    /\ pc \in {"dial", "register", "registering", "sleep", "calling", "reconnect", "exited"}
    /\ link \in {"none", "open", "broken"}
    /\ requests \in Seq(Calls) /\ replies \in Seq(Answers)
    /\ errors \in Nat /\ faults \in 0..MaxFaults

SessionInit ==
    /\ kernelUp = TRUE /\ asset = FALSE /\ pc = "dial" /\ link = "none"
    /\ requests = <<>> /\ replies = <<>>
    /\ sessionID = FALSE /\ pkgSent = FALSE /\ errors = 0 /\ stopping = FALSE /\ faults = 0
    /\ hurt = FALSE

-----------------------------------------------------------------------------
(* The kernel.                                                             *)

Fault == faults < MaxFaults /\ faults' = faults + 1

\* The request at the head of the connection is answered by its service; the asset is
\* recorded before the answer is written.
Serve ==
    /\ kernelUp /\ link = "open" /\ requests # <<>>
    /\ requests' = Tail(requests)
    /\ replies' = Append(replies, [to |-> Head(requests), ok |-> TRUE])
    /\ asset' = (asset \/ Head(requests) = "full")
    /\ UNCHANGED <<kernelUp, pc, link, memoryVars, stopping, faults, hurt>>

\* An interceptor or the service refuses it; handleConn writes the error and goes on.
Refuse ==
    /\ kernelUp /\ link = "open" /\ requests # <<>> /\ Fault /\ hurt' = TRUE
    /\ requests' = Tail(requests)
    /\ replies' = Append(replies, [to |-> Head(requests), ok |-> FALSE])
    /\ UNCHANGED <<kernelUp, asset, pc, link, memoryVars, stopping>>

Break == link' = (IF link = "open" THEN "broken" ELSE link) /\ requests' = <<>> /\ replies' = <<>>

KernelCrash ==
    /\ kernelUp /\ Fault /\ kernelUp' = FALSE /\ asset' = FALSE /\ Break
    /\ UNCHANGED <<pc, memoryVars, stopping, hurt>>

KernelStarts ==
    /\ ~kernelUp /\ kernelUp' = TRUE
    /\ UNCHANGED <<asset, pc, wireVars, memoryVars, stopping, faults, hurt>>

\* The read deadline of handleConn passes during a long backoff.
IdleClose ==
    /\ link = "open" /\ pc = "sleep" /\ errors >= IdleErrors /\ requests = <<>> /\ Break
    /\ UNCHANGED <<kernelUp, asset, pc, memoryVars, stopping, faults, hurt>>

-----------------------------------------------------------------------------
(* The agent.                                                              *)

Goes(from, to) == pc = from /\ pc' = to
KernelSame == UNCHANGED <<kernelUp, asset, stopping, faults>>

\* runOnce connects when the client has no connection, else keeps the one it has.
Connect ==
    /\ link # "none" \/ kernelUp
    /\ ~stopping /\ hurt' = FALSE
    /\ Goes("dial", IF sessionID THEN "sleep" ELSE "register")
    /\ link' = (IF link = "none" THEN "open" ELSE link)
    /\ errors' = 0
    /\ KernelSame /\ UNCHANGED <<requests, replies, sessionID, pkgSent>>

\* The end of a session in Run: its state is reset and the client closed.
SessionError ==
    /\ sessionID' = FALSE /\ pkgSent' = FALSE /\ pc' = "reconnect"
    /\ link' = "none" /\ requests' = <<>> /\ replies' = <<>>

ConnectFails ==
    /\ pc = "dial" /\ link = "none" /\ ~kernelUp
    /\ SessionError
    /\ KernelSame /\ UNCHANGED <<errors, hurt>>

Send(call) ==
    /\ requests' = IF link = "open" THEN Append(requests, call) ELSE requests
    /\ UNCHANGED <<link, replies>>

Register ==
    /\ Goes("register", "registering") /\ Send("register")
    /\ KernelSame /\ UNCHANGED <<memoryVars, hurt>>

Answered == replies # <<>>
CallFailed == link = "broken" \/ (Answered /\ ~Head(replies).ok)

Registered ==
    /\ Answered /\ Head(replies).ok /\ Goes("registering", "sleep")
    /\ sessionID' = TRUE /\ replies' = Tail(replies)
    /\ KernelSame /\ UNCHANGED <<link, requests, pkgSent, errors, hurt>>

RegisterFails ==
    /\ pc = "registering" /\ CallFailed
    /\ SessionError
    /\ KernelSame /\ UNCHANGED <<errors, hurt>>

\* heartbeatCycle marks the list as sent before the call.
Heartbeat ==
    /\ ~stopping
    /\ Goes("sleep", "calling") /\ Send(IF pkgSent THEN "plain" ELSE "full")
    /\ pkgSent' = TRUE
    /\ KernelSame /\ UNCHANGED <<sessionID, errors, hurt>>

HeartbeatOk ==
    /\ Answered /\ Head(replies).ok /\ Goes("calling", "sleep")
    /\ errors' = 0 /\ replies' = Tail(replies)
    /\ KernelSame /\ UNCHANGED <<link, requests, sessionID, pkgSent, hurt>>

\* Mutant: a failed heartbeat is not counted.
ErrorsForgotten ==
    /\ errors' = 0 /\ hurt' = TRUE /\ pc' = "sleep" /\ UNCHANGED <<link, requests>>

\* Mutant: after the last retry the agent redials with the session it has.
RedialInPlace ==
    /\ errors' = errors + 1 /\ hurt' = TRUE
    /\ IF errors + 1 >= MaxRetries
       THEN pc' = "dial" /\ link' = "none" /\ requests' = <<>> /\ replies' = <<>>
       ELSE pc' = "sleep" /\ UNCHANGED <<link, requests>>

\* A failed heartbeat: the next one after a backoff, or the end of the agent.
CycleError ==
    /\ errors' = errors + 1 /\ hurt' = TRUE
    /\ IF errors + 1 >= MaxRetries
       THEN pc' = "exited" /\ link' = "none" /\ requests' = <<>> /\ replies' = <<>>
       ELSE pc' = "sleep" /\ UNCHANGED <<link, requests>>

HeartbeatFails ==
    /\ pc = "calling" /\ CallFailed
    /\ CycleError
    /\ pc' = "sleep" => replies' = (IF Answered THEN Tail(replies) ELSE replies)
    /\ KernelSame /\ UNCHANGED <<sessionID, pkgSent>>

\* The read deadline passes; the answer stays on its way.
CallTimesOut ==
    /\ pc = "calling" /\ ~Answered /\ link = "open" /\ Fault
    /\ CycleError /\ (pc' = "sleep" => UNCHANGED replies)
    /\ UNCHANGED <<kernelUp, asset, stopping, sessionID, pkgSent>>

RegisterTimesOut ==
    /\ pc = "registering" /\ ~Answered /\ link = "open" /\ Fault
    /\ SessionError
    /\ UNCHANGED <<kernelUp, asset, stopping, errors, hurt>>

\* Run's select after a session error, and the select of runOnce.
Reconnect ==
    /\ ~stopping /\ Goes("reconnect", "dial")
    /\ KernelSame /\ UNCHANGED <<wireVars, memoryVars, hurt>>

Signal ==
    /\ ~stopping /\ stopping' = TRUE
    /\ UNCHANGED <<kernelUp, asset, pc, wireVars, memoryVars, faults, hurt>>

Exit ==
    /\ stopping /\ pc \in {"dial", "sleep", "reconnect"} /\ pc' = "exited"
    /\ link' = "none" /\ requests' = <<>> /\ replies' = <<>>
    /\ KernelSame /\ UNCHANGED <<memoryVars, hurt>>

\* systemd starts the agent again (Restart=always) unless it was stopped.
Restart ==
    /\ ~stopping /\ Goes("exited", "dial")
    /\ sessionID' = FALSE /\ pkgSent' = FALSE /\ errors' = 0
    /\ KernelSame /\ UNCHANGED <<wireVars, hurt>>

-----------------------------------------------------------------------------
AgentStep ==
    \/ Connect \/ ConnectFails \/ Register \/ Registered \/ RegisterFails
    \/ Heartbeat \/ HeartbeatOk \/ HeartbeatFails \/ Reconnect \/ Exit \/ Restart

SessionNext ==
    \/ AgentStep \/ Serve \/ Refuse \/ KernelCrash \/ KernelStarts \/ IdleClose
    \/ CallTimesOut \/ RegisterTimesOut \/ Signal

\* Every goroutine runs, and the operator starts a kernel that crashed.
SessionFairness ==
    WF_sessionVars(AgentStep) /\ WF_sessionVars(Serve) /\ WF_sessionVars(KernelStarts)

SessionSpec == SessionInit /\ [][SessionNext]_sessionVars /\ SessionFairness

-----------------------------------------------------------------------------
(* Properties.                                                             *)

\* The session id is read from the answer to Register: Register is the first call of
\* its connection, whatever answers an earlier connection still owed.
RegisterHearsRegister ==
    pc = "registering" =>
        /\ \A i \in DOMAIN requests : requests[i] = "register"
        /\ \A i \in DOMAIN replies : replies[i].to = "register"

\* On a connection without a failed call, a package list that counts as sent is known
\* to the kernel or on its way: a kernel that lost it by restarting is reached only
\* by an agent that sends it again.
SentMeansKnown ==
    pkgSent /\ link = "open" /\ ~hurt
        => asset \/ "full" \in {requests[i] : i \in DOMAIN requests}

\* Unless it is stopped, the agent's heartbeats go on being answered: crashes of the
\* kernel, refused and late answers, broken connections and its own exits are all
\* recovered from.
AgentIsHeard == <>stopping \/ []<><<HeartbeatOk>>_sessionVars

\* SIGTERM ends the agent, also while it retries or reconnects.
SignalExits == stopping ~> [](pc = "exited")

\* The package list reaches the kernel.
PackagesReachKernel == <>(asset \/ stopping)

\* What the agent takes for answered and for known is.
SessionSafe == RegisterHearsRegister /\ SentMeansKnown
=============================================================================
