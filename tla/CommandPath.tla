---------------------------- MODULE CommandPath -----------------------------
(***************************************************************************)
(* A command from the commander's queue to the host's firewall.  The       *)
(* policy, the lifecycle engine and the operator enqueue commands          *)
(* (internal/commander/commander.go); a heartbeat response carries them to *)
(* the agent (internal/agent/agent.go), which verifies them and hands      *)
(* isolate_host and deisolate_host to the privileged agent                 *)
(* (internal/agent/privileged.go), which edits the INPUT chain.            *)
(*                                                                         *)
(* One host: queues and firewalls of two hosts share nothing.  The kernel  *)
(* and the host read one clock, which starts after the zero time.          *)
(***************************************************************************)
EXTENDS Naturals, Sequences

CONSTANTS
    Rules,             \* the rules of isolationExceptionRules
    MaxAge,            \* ticks a signed timestamp stays valid at the agent
    CmdTTL,            \* ticks a command stays pending
    Cooldown,          \* ticks between two isolations of the host
    MaxTime,           \* bound on the clock
    MaxCommands,       \* bound on the commands ever enqueued
    MaxResponses       \* bound on the responses under way

ASSUME PathAssumption ==
    {MaxAge, CmdTTL, Cooldown, MaxTime, MaxCommands, MaxResponses} \subseteq Nat \ {0}

VARIABLES
    now,           \* wall clock
    commands,      \* commands ever enqueued; the index is the command id
    pendingCmds,   \* ids the commander holds
    responses,     \* heartbeat responses under way, oldest first, as sets of ids
    pendingCmd,    \* ids the agent has received
    acted,         \* ids the agent has executed
    firewall,      \* the INPUT chain of the host
    privileged,    \* what the privileged agent is doing, under isoMu
    lastIsolation, \* its field; 0 is the zero time
    unrestored     \* the last de-isolation did not set the policy, and no isolation succeeded since

hostVars == <<firewall, privileged, lastIsolation, unrestored>>
agentVars == <<pendingCmd, acted, hostVars>>
pathVars == <<now, commands, pendingCmds, responses, agentVars>>

RootActions == {"isolate_host", "deisolate_host"}
Commands == 1..MaxCommands
Free == [op |-> "none", todo |-> {}]

PathTypeOK ==
    /\ now \in 1..MaxTime
    /\ commands \in Seq([action : RootActions \cup {"other"}, at : 1..MaxTime])
    /\ {pendingCmds, pendingCmd, acted} \subseteq SUBSET (DOMAIN commands)
    /\ responses \in Seq(SUBSET (DOMAIN commands))
    /\ firewall \in [policy : {"ACCEPT", "DROP"}, rules : SUBSET Rules]
    /\ privileged \in [op : {"isolate", "deisolate"}, todo : SUBSET Rules] \cup {Free}
    /\ lastIsolation \in 0..MaxTime /\ unrestored \in BOOLEAN

PathInit ==
    /\ now = 1
    /\ commands = <<>> /\ pendingCmds = {} /\ responses = <<>> /\ pendingCmd = {} /\ acted = {}
    /\ firewall = [policy |-> "ACCEPT", rules |-> {}]
    /\ privileged = Free /\ lastIsolation = 0 /\ unrestored = FALSE

Tick ==
    /\ now < MaxTime /\ now' = now + 1
    /\ UNCHANGED <<commands, pendingCmds, responses, agentVars>>

-----------------------------------------------------------------------------
(* The commander.                                                          *)

\* generateCmdID draws an id no other command has; the timestamp is taken and
\* signed here.
EnqueueCommand(action) ==
    /\ Len(commands) < MaxCommands
    /\ commands' = Append(commands, [action |-> action, at |-> now])
    /\ pendingCmds' = pendingCmds \cup {Len(commands) + 1}
    /\ UNCHANGED <<now, responses, agentVars>>

ExpireStaleCommands ==
    /\ pendingCmds' = {c \in pendingCmds : commands[c].at + CmdTTL >= now}
    /\ pendingCmds' # pendingCmds
    /\ UNCHANGED <<now, commands, responses, agentVars>>

\* Mutant: the queue is read and not emptied.
DequeueKeeps ==
    /\ pendingCmds # {} /\ Len(responses) < MaxResponses
    /\ responses' = Append(responses, pendingCmds)
    /\ UNCHANGED <<now, commands, pendingCmds, agentVars>>

\* Heartbeat builds the response and the commander forgets what is in it.
DequeueCommands ==
    /\ pendingCmds # {} /\ Len(responses) < MaxResponses
    /\ responses' = Append(responses, pendingCmds) /\ pendingCmds' = {}
    /\ UNCHANGED <<now, commands, agentVars>>

\* ExecuteCommand, the acknowledgement, of a command still pending; for any other it
\* only logs.
AckCommand(c) ==
    /\ c \in pendingCmds /\ pendingCmds' = pendingCmds \ {c}
    /\ UNCHANGED <<now, commands, responses, agentVars>>

\* The commander's queue does not survive its process.
CommanderRestart ==
    /\ pendingCmds # {} /\ pendingCmds' = {}
    /\ UNCHANGED <<now, commands, responses, agentVars>>

-----------------------------------------------------------------------------
(* The agent.                                                              *)

\* The connection ends and what it carried is lost.
ConnectionLost ==
    /\ responses # <<>> /\ responses' = <<>>
    /\ UNCHANGED <<now, commands, pendingCmds, agentVars>>

\* Client.call reads the next line: the response of an earlier heartbeat, if that one
\* timed out.  heartbeatCycle has executed the previous commands before it sends.
ResponseArrives ==
    /\ responses # <<>> /\ pendingCmd = {} /\ privileged = Free
    /\ pendingCmd' = Head(responses) /\ responses' = Tail(responses)
    /\ UNCHANGED <<now, commands, pendingCmds, acted, hostVars>>

\* Its received commands, and its connection, end with the agent.
AgentRestart ==
    /\ pendingCmd # {} /\ pendingCmd' = {} /\ responses' = <<>>
    /\ UNCHANGED <<now, commands, pendingCmds, acted, hostVars>>

\* verifyCommandSignature; the keys agree and the clock is shared, so what is left
\* is the age.
Fresh(c) == now <= commands[c].at + MaxAge

\* Only isolate_host and deisolate_host reach the privileged agent; the other
\* actions are not in the allowlist ParseCommand consults.  The agent waits for the
\* privileged agent; were its own timeout to pass first, isoMu would make the next
\* command wait in its place.
OnCooldown == lastIsolation # 0 /\ now < lastIsolation + Cooldown

Delegate(action) ==
    CASE action = "isolate_host" /\ ~OnCooldown -> [op |-> "isolate", todo |-> Rules]
      [] action = "deisolate_host" -> [op |-> "deisolate", todo |-> Rules]
      [] OTHER -> Free

ExecuteCommand(c) ==
    /\ c \in pendingCmd /\ privileged = Free /\ Fresh(c)
    /\ pendingCmd' = pendingCmd \ {c}
    /\ acted' = acted \cup {c}
    /\ privileged' = Delegate(commands[c].action)
    /\ UNCHANGED <<now, commands, pendingCmds, responses, firewall, lastIsolation, unrestored>>

RejectCommand(c) ==
    /\ c \in pendingCmd /\ privileged = Free /\ ~Fresh(c)
    /\ pendingCmd' = pendingCmd \ {c}
    /\ UNCHANGED <<now, commands, pendingCmds, responses, acted, hostVars>>

PrivilegedStep == UNCHANGED <<now, commands, pendingCmds, responses, pendingCmd, acted>>

\* Mutant: the default policy is set before the rules are in place.
InstallRuleAfterDrop(x) ==
    /\ privileged.op = "isolate" /\ x \in privileged.todo
    /\ firewall' = [policy |-> "DROP", rules |-> firewall.rules \cup {x}]
    /\ privileged' = [privileged EXCEPT !.todo = @ \ {x}]
    /\ PrivilegedStep /\ UNCHANGED <<lastIsolation, unrestored>>

InstallRule(x) ==
    /\ privileged.op = "isolate" /\ x \in privileged.todo
    /\ firewall' = [firewall EXCEPT !.rules = @ \cup {x}]
    /\ privileged' = [privileged EXCEPT !.todo = @ \ {x}]
    /\ PrivilegedStep /\ UNCHANGED <<lastIsolation, unrestored>>

SetDropPolicy ==
    /\ privileged = [op |-> "isolate", todo |-> {}]
    /\ firewall' = [firewall EXCEPT !.policy = "DROP"]
    /\ lastIsolation' = now /\ privileged' = Free /\ unrestored' = FALSE
    /\ PrivilegedStep

\* An iptables call of an isolation fails, and the isolation with it.
IsolationFails ==
    /\ privileged.op = "isolate" /\ privileged' = Free
    /\ PrivilegedStep /\ UNCHANGED <<firewall, lastIsolation, unrestored>>

\* The failure of a deletion is ignored.
DeleteRule(x) ==
    /\ privileged.op = "deisolate" /\ x \in privileged.todo
    /\ firewall' \in {firewall, [firewall EXCEPT !.rules = @ \ {x}]}
    /\ privileged' = [privileged EXCEPT !.todo = @ \ {x}]
    /\ PrivilegedStep /\ UNCHANGED <<lastIsolation, unrestored>>

\* So is the failure to restore the policy: the host is told to be free.
SetAcceptPolicy ==
    /\ privileged = [op |-> "deisolate", todo |-> {}]
    /\ \/ firewall' = [firewall EXCEPT !.policy = "ACCEPT"] /\ unrestored' = FALSE
       \/ unrestored' = TRUE /\ UNCHANGED firewall
    /\ lastIsolation' = 0 /\ privileged' = Free
    /\ PrivilegedStep

\* The process ends and is started again by the next connection to its socket.
PrivilegedRestart ==
    /\ <<privileged, lastIsolation>> # <<Free, 0>>
    /\ privileged' = Free /\ lastIsolation' = 0
    /\ unrestored' = (unrestored \/ privileged.op = "deisolate")
    /\ PrivilegedStep /\ UNCHANGED firewall

-----------------------------------------------------------------------------
PathNext ==
    \/ Tick
    \/ \E a \in RootActions \cup {"other"} : EnqueueCommand(a)
    \/ ExpireStaleCommands \/ DequeueCommands \/ CommanderRestart
    \/ \E c \in pendingCmds : AckCommand(c)
    \/ ConnectionLost \/ ResponseArrives \/ AgentRestart
    \/ \E c \in pendingCmd : ExecuteCommand(c) \/ RejectCommand(c)
    \/ \E x \in privileged.todo : InstallRule(x) \/ DeleteRule(x)
    \/ SetDropPolicy \/ IsolationFails \/ SetAcceptPolicy \/ PrivilegedRestart

PathSpec == PathInit /\ [][PathNext]_pathVars

-----------------------------------------------------------------------------
(* Properties.                                                             *)

Travelling == UNION {responses[i] : i \in DOMAIN responses}
Waiting == pendingCmds \cup Travelling \cup pendingCmd

\* What has become of each command, in the terms of CommandPromise, which has no
\* command that acted and waits to act again.
Fate == [c \in Commands |->
           IF c \notin DOMAIN commands THEN "unissued"
           ELSE IF c \in acted THEN IF c \in Waiting THEN "again" ELSE "acted"
           ELSE IF c \in Waiting THEN "issued" ELSE "lost"]

Promise == INSTANCE CommandPromise WITH fate <- Fate

\* DequeueCommands, the wire, executePendingCommands and every way to lose a command
\* together implement CommandPromise: no command acts twice, and none acts after the
\* kernel or the agent gave it up.
CommandsKeepPromise == Promise!PromiseSpec

\* A command is in one place at a time: pending, in one response, at the agent, or
\* executed.
OnePlace ==
    /\ pendingCmds \cap (Travelling \cup pendingCmd) = {}
    /\ Travelling \cap pendingCmd = {}
    /\ \A i, j \in DOMAIN responses : i # j => responses[i] \cap responses[j] = {}
    /\ acted \cap Waiting = {}

\* A host whose INPUT policy is DROP keeps every exception rule, whatever fails or restarts
\* in an isolation, except during a de-isolation, and after one that was cut short or could
\* not restore the policy, which the next that succeeds, of either kind, repairs
\* (executeIsolation, executeDeisolation).
ManagementReachable ==
    firewall.policy = "DROP" /\ privileged.op # "deisolate" /\ ~unrestored => firewall.rules = Rules

=============================================================================
