------------------------- MODULE CommandPlaneProofs -------------------------
(***************************************************************************)
(* Proofs about the command plane and the bus that carries its messages:   *)
(* CommandPath, ThreatResponse, AgentSession, CommanderKey and Bus, each   *)
(* for its own specification and for every value of its constants.         *)
(***************************************************************************)
EXTENDS CommandPath, ThreatResponse, AgentSession, CommanderKey, Bus, FiniteSetTheorems, TLAPS

-----------------------------------------------------------------------------
(* CommandPath: the well-formedness of the state.  The ids in the queues   *)
(* are indices of commands, which only grows.                              *)

PathTyped == PathTypeOK /\ Len(commands) <= MaxCommands

\* The commands on their way are commands.
LEMMA TravellingTyped ==
    ASSUME PathTypeOK
    PROVE  Travelling \subseteq DOMAIN commands
  BY DEF PathTypeOK, Travelling

\* The state of the command path is well formed in every reachable state.
THEOREM PathTypeCorrect == PathSpec => []PathTyped
<1> USE PathAssumption DEF PathTyped, RootActions
<1>1. PathInit => PathTyped
  <2> SUFFICES ASSUME PathInit PROVE PathTyped
    OBVIOUS
  <2>1. unrestored \in BOOLEAN
    BY DEF PathInit
  <2>2. /\ now \in 1..MaxTime /\ commands = <<>> /\ responses = <<>> /\ lastIsolation \in 0..MaxTime
        /\ pendingCmds = {} /\ pendingCmd = {} /\ acted = {}
        /\ firewall = [policy |-> "ACCEPT", rules |-> {}] /\ privileged = Free
    BY DEF PathInit
  <2> QED
    BY <2>1, <2>2 DEF PathTypeOK, Free
<1>2. PathTyped /\ [PathNext]_pathVars => PathTyped'
  <2> SUFFICES ASSUME PathTyped, [PathNext]_pathVars PROVE PathTyped'
    OBVIOUS
  <2> USE DEF PathTypeOK, agentVars, hostVars
  <2>1. CASE Tick
    BY <2>1 DEF Tick
  <2>2. ASSUME NEW a \in RootActions \cup {"other"}, EnqueueCommand(a) PROVE PathTyped'
    <3>1. /\ commands' \in Seq([action : RootActions \cup {"other"}, at : 1..MaxTime])
          /\ Len(commands') = Len(commands) + 1
          /\ DOMAIN commands \subseteq DOMAIN commands'
          /\ Len(commands) + 1 \in DOMAIN commands'
      BY <2>2 DEF EnqueueCommand
    <3>2. /\ {pendingCmds, pendingCmd, acted}' \subseteq SUBSET (DOMAIN commands')
          /\ responses' \in Seq(SUBSET (DOMAIN commands'))
      BY <2>2, <3>1 DEF EnqueueCommand
    <3> QED
      BY <2>2, <3>1, <3>2 DEF EnqueueCommand
  <2>3. CASE ExpireStaleCommands
    BY <2>3 DEF ExpireStaleCommands
  <2>4. CASE DequeueCommands
    BY <2>4 DEF DequeueCommands
  <2>5. CASE CommanderRestart
    BY <2>5 DEF CommanderRestart
  <2>6. ASSUME NEW c \in pendingCmds, AckCommand(c) PROVE PathTyped'
    BY <2>6 DEF AckCommand
  <2>7. CASE ConnectionLost
    BY <2>7 DEF ConnectionLost
  <2>8. CASE ResponseArrives
    BY <2>8 DEF ResponseArrives
  <2>9. CASE AgentRestart
    BY <2>9 DEF AgentRestart
  <2>10. ASSUME NEW c \in pendingCmd, ExecuteCommand(c) PROVE PathTyped'
    BY <2>10 DEF ExecuteCommand, Delegate, Free
  <2>11. ASSUME NEW c \in pendingCmd, RejectCommand(c) PROVE PathTyped'
    BY <2>11 DEF RejectCommand
  <2>12. ASSUME NEW x \in privileged.todo, InstallRule(x) PROVE PathTyped'
    <3>1. privileged \in [op : {"isolate", "deisolate"}, todo : SUBSET Rules] /\ x \in Rules
      BY <2>12 DEF InstallRule, Free
    <3>2. /\ firewall' \in [policy : {"ACCEPT", "DROP"}, rules : SUBSET Rules]
          /\ privileged' \in [op : {"isolate", "deisolate"}, todo : SUBSET Rules]
      BY <2>12, <3>1 DEF InstallRule
    <3>3. UNCHANGED <<now, commands, pendingCmds, responses, pendingCmd, acted>>
      BY <2>12 DEF InstallRule, PrivilegedStep
    <3>4. lastIsolation' = lastIsolation /\ unrestored' = unrestored
      BY <2>12 DEF InstallRule
    <3>5. unrestored' \in BOOLEAN
      BY <3>4
    <3>6. /\ now' \in 1..MaxTime /\ lastIsolation' \in 0..MaxTime /\ Len(commands') <= MaxCommands
          /\ commands' \in Seq([action : RootActions \cup {"other"}, at : 1..MaxTime])
          /\ {pendingCmds, pendingCmd, acted}' \subseteq SUBSET (DOMAIN commands')
          /\ responses' \in Seq(SUBSET (DOMAIN commands'))
      BY ONLY PathTyped, <3>3, <3>4 DEF PathTyped, PathTypeOK
    <3> QED
      BY <3>2, <3>5, <3>6
  <2>13. ASSUME NEW x \in privileged.todo, DeleteRule(x) PROVE PathTyped'
    <3>1. privileged \in [op : {"isolate", "deisolate"}, todo : SUBSET Rules]
      BY <2>13 DEF DeleteRule, Free
    <3>2. /\ firewall' \in [policy : {"ACCEPT", "DROP"}, rules : SUBSET Rules]
          /\ privileged' \in [op : {"isolate", "deisolate"}, todo : SUBSET Rules]
      BY <2>13, <3>1 DEF DeleteRule
    <3>3. UNCHANGED <<now, commands, pendingCmds, responses, pendingCmd, acted>>
      BY <2>13 DEF DeleteRule, PrivilegedStep
    <3>4. lastIsolation' = lastIsolation /\ unrestored' = unrestored
      BY <2>13 DEF DeleteRule
    <3>5. unrestored' \in BOOLEAN
      BY <3>4
    <3>6. /\ now' \in 1..MaxTime /\ lastIsolation' \in 0..MaxTime /\ Len(commands') <= MaxCommands
          /\ commands' \in Seq([action : RootActions \cup {"other"}, at : 1..MaxTime])
          /\ {pendingCmds, pendingCmd, acted}' \subseteq SUBSET (DOMAIN commands')
          /\ responses' \in Seq(SUBSET (DOMAIN commands'))
      BY ONLY PathTyped, <3>3, <3>4 DEF PathTyped, PathTypeOK
    <3> QED
      BY <3>2, <3>5, <3>6
  <2>14. CASE SetDropPolicy
    <3>1. unrestored' \in BOOLEAN
      BY <2>14 DEF SetDropPolicy
    <3>2. firewall' \in [policy : {"ACCEPT", "DROP"}, rules : SUBSET Rules]
      BY <2>14 DEF SetDropPolicy
    <3>3. /\ UNCHANGED <<now, commands, pendingCmds, responses, pendingCmd, acted>>
          /\ lastIsolation' = now /\ privileged' = Free
      BY <2>14 DEF SetDropPolicy, PrivilegedStep
    <3> QED
      BY <3>1, <3>2, <3>3
  <2>15. CASE IsolationFails
    BY <2>15 DEF IsolationFails, PrivilegedStep
  <2>16. CASE SetAcceptPolicy
    <3>1. unrestored' \in BOOLEAN
      BY <2>16 DEF SetAcceptPolicy
    <3>2. firewall' \in [policy : {"ACCEPT", "DROP"}, rules : SUBSET Rules]
      BY <2>16 DEF SetAcceptPolicy
    <3>3. /\ UNCHANGED <<now, commands, pendingCmds, responses, pendingCmd, acted>>
          /\ lastIsolation' = 0 /\ privileged' = Free
      BY <2>16 DEF SetAcceptPolicy, PrivilegedStep
    <3> QED
      BY <3>1, <3>2, <3>3
  <2>17. CASE PrivilegedRestart
    <3>1. unrestored' \in BOOLEAN
      BY <2>17 DEF PrivilegedRestart
    <3>2. firewall' \in [policy : {"ACCEPT", "DROP"}, rules : SUBSET Rules]
      BY <2>17 DEF PrivilegedRestart
    <3>3. /\ UNCHANGED <<now, commands, pendingCmds, responses, pendingCmd, acted>>
          /\ lastIsolation' = 0 /\ privileged' = Free
      BY <2>17 DEF PrivilegedRestart, PrivilegedStep
    <3> QED
      BY <3>1, <3>2, <3>3
  <2>18. CASE UNCHANGED pathVars
    BY <2>18 DEF pathVars
  <2> QED
    BY <2>1, <2>2, <2>3, <2>4, <2>5, <2>6, <2>7, <2>8, <2>9, <2>10, <2>11, <2>12,
       <2>13, <2>14, <2>15, <2>16, <2>17, <2>18 DEF PathNext
<1> QED
  BY <1>1, <1>2, PTL DEF PathSpec

-----------------------------------------------------------------------------
(* CommandPath: the exception rules and the policy of the firewall.        *)

\* What executeIsolation has installed so far is in place: with nothing left to do,
\* every rule is.
InstalledSoFar == privileged.op = "isolate" => Rules \ privileged.todo \subseteq firewall.rules

\* Outside a de-isolation, a DROP policy has every rule beside it.
Bare == firewall.policy = "DROP" /\ firewall.rules # Rules

\* Every step keeps InstalledSoFar, and only one that a de-isolation makes, or
\* that ends it, can leave the host without its rules under DROP; one that ends it
\* restores the policy or is known not to have, until the rules are there.
LEMMA FirewallStep ==
    ASSUME PathTyped, InstalledSoFar, [PathNext]_pathVars
    PROVE  /\ InstalledSoFar'
           /\ privileged.op # "deisolate" /\ ~Bare => ~Bare'
           /\ privileged.op = "deisolate" /\ privileged'.op # "deisolate" =>
                  firewall'.policy = "ACCEPT" \/ unrestored'
           /\ privileged.op # "deisolate" /\ unrestored /\ ~unrestored' => ~Bare'
           /\ privileged.op # "deisolate" /\ privileged'.op = "deisolate" => UNCHANGED firewall
<1> DEFINE Goal == /\ InstalledSoFar'
                   /\ privileged.op # "deisolate" /\ ~Bare => ~Bare'
                   /\ privileged.op = "deisolate" /\ privileged'.op # "deisolate" =>
                          firewall'.policy = "ACCEPT" \/ unrestored'
                   /\ privileged.op # "deisolate" /\ unrestored /\ ~unrestored' => ~Bare'
                   /\ privileged.op # "deisolate" /\ privileged'.op = "deisolate" => UNCHANGED firewall
<1> USE DEF PathTyped, PathTypeOK, InstalledSoFar, Bare, agentVars, hostVars
<1>1. ASSUME UNCHANGED <<firewall, privileged, unrestored>> PROVE Goal
  BY <1>1
<1>2. ASSUME NEW c \in pendingCmd, ExecuteCommand(c) PROVE Goal
  BY <1>2 DEF ExecuteCommand, Delegate, Free
<1>3. ASSUME NEW x \in privileged.todo, InstallRule(x) PROVE Goal
  <2>1. privileged \in [op : {"isolate", "deisolate"}, todo : SUBSET Rules]
    BY <1>3 DEF InstallRule, Free
  <2>2. /\ privileged.op = "isolate" /\ privileged'.op = "isolate"
        /\ privileged'.todo = privileged.todo \ {x}
        /\ firewall'.policy = firewall.policy /\ firewall'.rules = firewall.rules \cup {x}
    BY <1>3, <2>1 DEF InstallRule
  <2>4. unrestored' = unrestored
    BY <1>3 DEF InstallRule
  <2>3. x \in Rules /\ firewall.rules \subseteq Rules
    BY <2>1
  <2> QED
    BY <2>2, <2>3, <2>4
<1>4. ASSUME NEW x \in privileged.todo, DeleteRule(x) PROVE Goal
  BY <1>4 DEF DeleteRule, Free
<1>5. CASE SetDropPolicy
  BY <1>5 DEF SetDropPolicy, Free
<1>6. CASE IsolationFails
  BY <1>6 DEF IsolationFails, Free
<1>7. CASE SetAcceptPolicy
  BY <1>7 DEF SetAcceptPolicy, Free
<1>8. CASE PrivilegedRestart
  BY <1>8 DEF PrivilegedRestart, PrivilegedStep, Free
<1>9. CASE \/ Tick \/ (\E a \in RootActions \cup {"other"} : EnqueueCommand(a))
           \/ ExpireStaleCommands \/ DequeueCommands \/ CommanderRestart
           \/ (\E c \in pendingCmds : AckCommand(c))
           \/ ConnectionLost \/ ResponseArrives \/ AgentRestart
           \/ (\E c \in pendingCmd : RejectCommand(c))
           \/ UNCHANGED pathVars
  BY <1>1, <1>9 DEF Tick, EnqueueCommand, ExpireStaleCommands, DequeueCommands, CommanderRestart,
     AckCommand, ConnectionLost, ResponseArrives, AgentRestart, RejectCommand, pathVars
<1> QED
  BY <1>2, <1>3, <1>4, <1>5, <1>6, <1>7, <1>8, <1>9 DEF PathNext

LEMMA InstalledInv == PathSpec => [](PathTyped /\ InstalledSoFar)
<1>1. PathInit => InstalledSoFar
  BY DEF PathInit, InstalledSoFar, Free
<1>2. PathTyped /\ InstalledSoFar /\ [PathNext]_pathVars => InstalledSoFar'
  BY FirewallStep
<1> QED
  BY <1>1, <1>2, PathTypeCorrect, PTL DEF PathSpec

\* ManagementReachable: the management connections of the host survive isolations that
\* fail or are cut short by a restart at any rule, repeated isolations, lost and late
\* commands and de-isolations that end; one that did not is repaired by the next that does
\* (executeIsolation, executeDeisolation).
THEOREM ManagementStaysReachable == PathSpec => []ManagementReachable
<1> DEFINE Inv == (privileged.op # "deisolate" /\ ~unrestored => ~Bare) /\ InstalledSoFar
<1>1. PathInit => Inv
  BY DEF PathInit, InstalledSoFar, Bare, Free
<1>2. PathTyped /\ Inv /\ [PathNext]_pathVars => Inv'
  <2> SUFFICES ASSUME PathTyped, Inv, [PathNext]_pathVars PROVE Inv'
    OBVIOUS
  <2>1. InstalledSoFar'
    BY FirewallStep
  <2>2. ASSUME privileged'.op # "deisolate", ~unrestored' PROVE ~Bare'
    <3>1. CASE privileged.op = "deisolate"
      BY <2>2, <3>1, FirewallStep DEF Bare
    <3>2. CASE privileged.op # "deisolate"
      BY <2>2, <3>2, FirewallStep
    <3> QED
      BY <3>1, <3>2
  <2> QED
    BY <2>1, <2>2
<1>3. Inv => ManagementReachable
  BY DEF ManagementReachable, Bare
<1> QED
  BY <1>1, <1>2, <1>3, PathTypeCorrect, PTL DEF PathSpec

\* It is de-isolations alone that take the rules of a host under DROP: no other step,
\* isolation or restart leads from a reachable host to a bare one.
OnlyDeisolationBares ==
    [][~Bare /\ Bare' => privileged.op = "deisolate"]_pathVars

THEOREM OthersKeepTheRules == PathSpec => OnlyDeisolationBares
<1>1. PathTyped /\ InstalledSoFar /\ [PathNext]_pathVars
        => [~Bare /\ Bare' => privileged.op = "deisolate"]_pathVars
  BY FirewallStep
<1> QED
  BY <1>1, InstalledInv, PTL DEF PathSpec, OnlyDeisolationBares

-----------------------------------------------------------------------------
(* CommandPath implements CommandPromise.                                  *)

\* Append and Head and Tail, as sets of commands under way.
LEMMA TravellingAppend ==
    ASSUME PathTypeOK, NEW S \in SUBSET (DOMAIN commands), responses' = Append(responses, S)
    PROVE  Travelling' = Travelling \cup S
<1>1. responses \in Seq(SUBSET (DOMAIN commands))
  BY DEF PathTypeOK
<1>2. /\ DOMAIN responses' = 1..(Len(responses) + 1)
      /\ DOMAIN responses = 1..Len(responses) /\ Len(responses) \in Nat
      /\ \A i \in DOMAIN responses : responses'[i] = responses[i]
      /\ responses'[Len(responses) + 1] = S
  BY <1>1
<1>3. DOMAIN responses' = DOMAIN responses \cup {Len(responses) + 1}
  BY <1>2
<1> QED
  BY <1>2, <1>3 DEF Travelling

LEMMA TravellingTail ==
    ASSUME PathTypeOK, responses # <<>>, responses' = Tail(responses)
    PROVE  Travelling = Head(responses) \cup Travelling'
<1>1. responses \in Seq(SUBSET (DOMAIN commands))
  BY DEF PathTypeOK
<1>2. /\ Len(responses) \in Nat \ {0} /\ DOMAIN responses = 1..Len(responses)
      /\ DOMAIN responses' = 1..(Len(responses) - 1)
      /\ \A i \in DOMAIN responses' : responses'[i] = responses[i + 1]
      /\ Head(responses) = responses[1]
  BY <1>1
<1>3. \A i \in DOMAIN responses : i = 1 \/ (i - 1 \in DOMAIN responses' /\ responses'[i - 1] = responses[i])
  BY <1>2
<1>4. \A i \in DOMAIN responses' : i + 1 \in DOMAIN responses
  BY <1>2
<1>5. 1 \in DOMAIN responses
  BY <1>2
<1>6. Travelling \subseteq Head(responses) \cup Travelling'
  BY <1>2, <1>3 DEF Travelling
<1>7. Head(responses) \cup Travelling' \subseteq Travelling
  BY <1>2, <1>4, <1>5 DEF Travelling
<1> QED
  BY <1>6, <1>7

\* A response is disjoint from those behind it and from what is elsewhere.
LEMMA OnePlaceHead ==
    ASSUME PathTypeOK, OnePlace, responses # <<>>, responses' = Tail(responses)
    PROVE  /\ Head(responses) \cap Travelling' = {}
           /\ \A i, j \in DOMAIN responses' : i # j => responses'[i] \cap responses'[j] = {}
<1>1. responses \in Seq(SUBSET (DOMAIN commands))
  BY DEF PathTypeOK
<1>2. /\ Len(responses) \in Nat \ {0} /\ DOMAIN responses = 1..Len(responses)
      /\ DOMAIN responses' = 1..(Len(responses) - 1)
      /\ \A i \in DOMAIN responses' : responses'[i] = responses[i + 1]
      /\ Head(responses) = responses[1]
  BY <1>1
<1>3. \A i \in DOMAIN responses' : i + 1 \in DOMAIN responses /\ i + 1 # 1
  BY <1>2
<1>4. 1 \in DOMAIN responses
  BY <1>2
<1>5. \A i \in DOMAIN responses' : Head(responses) \cap responses'[i] = {}
  BY <1>2, <1>3, <1>4 DEF OnePlace
<1>6. \A i, j \in DOMAIN responses' : i # j => i + 1 # j + 1
  BY <1>2
<1> QED
  BY <1>2, <1>3, <1>5, <1>6 DEF OnePlace, Travelling

\* A command is pending, in one response, at the agent or executed, and in no two of
\* these: what lets the fate of a command be a function of the state.
THEOREM EveryCommandInOnePlace == PathSpec => []OnePlace
<1> USE DEF PathTyped, agentVars
<1>1. PathInit => OnePlace
  BY DEF PathInit, OnePlace, Travelling, Waiting
<1>2. ASSUME PathTyped, OnePlace, [PathNext]_pathVars PROVE OnePlace'
  <2> USE <1>2
  <2>0. Travelling \subseteq DOMAIN commands
    BY TravellingTyped
  <2>1. ASSUME UNCHANGED <<responses, acted>>, pendingCmds' \subseteq pendingCmds,
               pendingCmd' \subseteq pendingCmd
        PROVE  OnePlace'
    BY <2>1 DEF OnePlace, Waiting, Travelling
  <2>2. ASSUME responses' = <<>>, UNCHANGED acted, pendingCmds' \subseteq pendingCmds,
               pendingCmd' \subseteq pendingCmd
        PROVE  OnePlace'
    <3>1. Travelling' = {}
      BY <2>2 DEF Travelling
    <3> QED
      BY <2>2, <3>1 DEF OnePlace, Waiting
  <2>3. ASSUME NEW a \in RootActions \cup {"other"}, EnqueueCommand(a) PROVE OnePlace'
    <3>1. Len(commands) + 1 \notin DOMAIN commands
      BY DEF PathTypeOK
    <3>2. Len(commands) + 1 \notin Waiting \cup acted
      BY <2>0, <3>1 DEF PathTypeOK, Waiting
    <3> QED
      BY <2>3, <3>2 DEF EnqueueCommand, OnePlace, Waiting, Travelling
  <2>4. CASE DequeueCommands
    <3>1. Travelling' = Travelling \cup pendingCmds
      BY <2>4, TravellingAppend DEF DequeueCommands, PathTypeOK
    <3>2. \A i, j \in DOMAIN responses' : i # j => responses'[i] \cap responses'[j] = {}
      <4>1. responses \in Seq(SUBSET (DOMAIN commands))
        BY DEF PathTypeOK
      <4>2. /\ DOMAIN responses' = DOMAIN responses \cup {Len(responses) + 1}
            /\ \A i \in DOMAIN responses : responses'[i] = responses[i]
            /\ responses'[Len(responses) + 1] = pendingCmds
        BY <2>4, <4>1 DEF DequeueCommands, PathTypeOK
      <4>3. \A i \in DOMAIN responses : responses[i] \cap pendingCmds = {}
        BY DEF OnePlace, Travelling
      <4> QED
        BY <4>2, <4>3 DEF OnePlace
    <3> QED
      BY <2>4, <3>1, <3>2 DEF DequeueCommands, OnePlace, Waiting
  <2>5. CASE ResponseArrives
    <3>1. /\ Travelling = Head(responses) \cup Travelling'
          /\ Head(responses) \cap Travelling' = {}
          /\ \A i, j \in DOMAIN responses' : i # j => responses'[i] \cap responses'[j] = {}
      BY <2>5, TravellingTail, OnePlaceHead DEF ResponseArrives
    <3> QED
      BY <2>5, <3>1 DEF ResponseArrives, OnePlace, Waiting
  <2>6. ASSUME NEW c \in pendingCmd, ExecuteCommand(c) PROVE OnePlace'
    BY <2>6 DEF ExecuteCommand, OnePlace, Waiting, Travelling
  <2>7. CASE Tick \/ ExpireStaleCommands \/ CommanderRestart \/ (\E c \in pendingCmds : AckCommand(c))
             \/ (\E c \in pendingCmd : RejectCommand(c)) \/ UNCHANGED pathVars
    BY <2>1, <2>7 DEF Tick, ExpireStaleCommands, CommanderRestart, AckCommand, RejectCommand, pathVars
  <2>8. CASE ConnectionLost \/ AgentRestart
    BY <2>2, <2>8 DEF ConnectionLost, AgentRestart
  <2>9. CASE (\E x \in privileged.todo : InstallRule(x) \/ DeleteRule(x))
             \/ SetDropPolicy \/ IsolationFails \/ SetAcceptPolicy \/ PrivilegedRestart
    BY <2>1, <2>9 DEF InstallRule, DeleteRule, SetDropPolicy, IsolationFails, SetAcceptPolicy,
       PrivilegedRestart, PrivilegedStep
  <2> QED
    BY <2>3, <2>4, <2>5, <2>6, <2>7, <2>8, <2>9 DEF PathNext
<1> QED
  BY <1>1, <1>2, PathTypeCorrect, PTL DEF PathSpec

\* Commands that are given up together, or moved: a step of the promise, or none.
LEMMA GivenUpTogether ==
    ASSUME PathTyped, OnePlace, UNCHANGED <<commands, acted>>, Waiting' \subseteq Waiting
    PROVE  [Promise!PromiseNext]_Fate
<1> DEFINE C == {c \in Commands : c \in Waiting /\ c \notin Waiting'}
<1>1. Waiting \subseteq DOMAIN commands /\ DOMAIN commands \subseteq Commands
  BY TravellingTyped, PathAssumption DEF PathTyped, PathTypeOK, Waiting, Commands
<1>2. acted \cap Waiting = {}
  BY DEF OnePlace
<1>3. \A c \in C : Fate[c] = "issued"
  BY <1>1, <1>2 DEF Fate
<1>4. Fate' = [c \in Commands |-> IF c \in C THEN "lost" ELSE Fate[c]]
  BY <1>1, <1>2 DEF Fate
<1>5. CASE C = {}
  BY <1>4, <1>5 DEF Fate
<1>6. CASE C # {}
  BY <1>3, <1>4, <1>6 DEF Promise!PromiseNext, Promise!Lose
<1> QED
  BY <1>5, <1>6

\* The path keeps what EnqueueCommand's caller may rely on: through expiry, restarts of
\* all three processes, lost connections and late responses, a command acts at most
\* once, and never after it was given up.
THEOREM PathKeepsPromise == PathSpec => CommandsKeepPromise
<1>1. PathInit => Promise!PromiseInit
  BY DEF PathInit, Promise!PromiseInit, Fate
<1>2. ASSUME PathTyped, OnePlace, OnePlace', [PathNext]_pathVars
      PROVE  [Promise!PromiseNext]_Fate
  <2> USE <1>2
  <2>0. /\ Travelling \subseteq DOMAIN commands /\ Waiting \subseteq DOMAIN commands
        /\ DOMAIN commands \subseteq Commands
    BY TravellingTyped, PathAssumption DEF PathTyped, PathTypeOK, Waiting, Commands
  <2>1. ASSUME UNCHANGED <<commands, responses, acted>>, pendingCmds' \subseteq pendingCmds,
               pendingCmd' \subseteq pendingCmd
        PROVE  [Promise!PromiseNext]_Fate
    <3>1. Waiting' \subseteq Waiting
      BY <2>1 DEF Waiting, Travelling
    <3> QED
      BY <2>1, <3>1, GivenUpTogether
  <2>2. ASSUME responses' = <<>>, UNCHANGED <<commands, acted>>, pendingCmds' \subseteq pendingCmds,
               pendingCmd' \subseteq pendingCmd
        PROVE  [Promise!PromiseNext]_Fate
    <3>1. Waiting' \subseteq Waiting
      BY <2>2 DEF Waiting, Travelling
    <3> QED
      BY <2>2, <3>1, GivenUpTogether
  <2>3. ASSUME NEW a \in RootActions \cup {"other"}, EnqueueCommand(a)
        PROVE  [Promise!PromiseNext]_Fate
    <3> DEFINE new == Len(commands) + 1
    <3>1. new \in Commands /\ new \notin DOMAIN commands /\ new \notin acted
      BY <2>3, PathAssumption DEF EnqueueCommand, PathTyped, PathTypeOK, Commands
    <3>2. DOMAIN commands' = DOMAIN commands \cup {new}
      BY <2>3 DEF EnqueueCommand, PathTyped, PathTypeOK
    <3>3. Waiting' = Waiting \cup {new} /\ acted' = acted
      BY <2>3 DEF EnqueueCommand, agentVars, Waiting, Travelling
    <3>4. Fate[new] = "unissued"
      BY <3>1 DEF Fate
    <3>5. Fate' = [Fate EXCEPT ![new] = "issued"]
      BY <3>1, <3>2, <3>3 DEF Fate
    <3> QED
      BY <3>1, <3>4, <3>5 DEF Promise!PromiseNext, Promise!Issue
  <2>4. CASE DequeueCommands
    <3>1. Travelling' = Travelling \cup pendingCmds
      BY <2>4, TravellingAppend DEF DequeueCommands, PathTyped, PathTypeOK
    <3> QED
      BY <2>4, <3>1, GivenUpTogether DEF DequeueCommands, agentVars, Waiting
  <2>5. CASE ResponseArrives
    <3>1. Travelling = Head(responses) \cup Travelling'
      BY <2>5, TravellingTail DEF ResponseArrives, PathTyped
    <3> QED
      BY <2>5, <3>1, GivenUpTogether DEF ResponseArrives, agentVars, Waiting
  <2>6. ASSUME NEW c \in pendingCmd, ExecuteCommand(c)
        PROVE  [Promise!PromiseNext]_Fate
    <3>1. c \in Commands /\ c \in DOMAIN commands /\ c \in Waiting /\ c \notin acted
      BY <2>0 DEF Waiting, OnePlace
    <3>2. /\ Waiting' = Waiting \ {c} /\ acted' = acted \cup {c} /\ commands' = commands
      BY <2>6 DEF ExecuteCommand, OnePlace, Waiting, Travelling
    <3>3. Fate[c] = "issued"
      BY <3>1 DEF Fate
    <3>4. Fate' = [Fate EXCEPT ![c] = "acted"]
      BY <3>1, <3>2 DEF Fate
    <3> QED
      BY <3>1, <3>3, <3>4 DEF Promise!PromiseNext, Promise!Act
  <2>7. CASE Tick \/ ExpireStaleCommands \/ CommanderRestart \/ (\E c \in pendingCmds : AckCommand(c))
             \/ (\E c \in pendingCmd : RejectCommand(c)) \/ UNCHANGED pathVars
    BY <2>1, <2>7 DEF Tick, ExpireStaleCommands, CommanderRestart, AckCommand, RejectCommand,
       pathVars, agentVars
  <2>8. CASE ConnectionLost \/ AgentRestart
    BY <2>2, <2>8 DEF ConnectionLost, AgentRestart, agentVars
  <2>9. CASE (\E x \in privileged.todo : InstallRule(x) \/ DeleteRule(x))
             \/ SetDropPolicy \/ IsolationFails \/ SetAcceptPolicy \/ PrivilegedRestart
    BY <2>1, <2>9 DEF InstallRule, DeleteRule, SetDropPolicy, IsolationFails, SetAcceptPolicy,
       PrivilegedRestart, PrivilegedStep
  <2> QED
    BY <2>3, <2>4, <2>5, <2>6, <2>7, <2>8, <2>9 DEF PathNext
<1> QED
  BY <1>1, <1>2, PathTypeCorrect, EveryCommandInOnePlace, PTL
     DEF PathSpec, CommandsKeepPromise, Promise!PromiseSpec

-----------------------------------------------------------------------------
(* ThreatResponse.                                                         *)

\* What the policy publishes are its actions, and the isolation comes with the status.
LEMMA ActionsTyped ==
    \A s \in Statuses :
        /\ ActionsOf(s) \in Seq(PolicyActions)
        /\ s = "Isolated" => 1 \in DOMAIN ActionsOf(s) /\ ActionsOf(s)[1] = "isolate_host"
<1>1. /\ ActionsOf("OK") = <<>> /\ ActionsOf("Warning") = <<"notify_admin">>
      /\ ActionsOf("Critical") = <<"notify_admin", "increase_assessment">>
      /\ ActionsOf("Isolated") = <<"isolate_host", "notify_admin">>
  BY DEF ActionsOf
<1>2. <<>> \in Seq(PolicyActions) /\ <<"notify_admin">> \in Seq(PolicyActions)
  BY DEF PolicyActions
<1>3. /\ <<"notify_admin", "increase_assessment">> \in Seq(PolicyActions)
      /\ <<"isolate_host", "notify_admin">> \in Seq(PolicyActions)
  BY DEF PolicyActions
<1>4. LET acts == <<"isolate_host", "notify_admin">>
      IN  1 \in DOMAIN acts /\ acts[1] = "isolate_host"
  OBVIOUS
<1> QED
  BY <1>1, <1>2, <1>3, <1>4 DEF Statuses

LEMMA PublishingTyped ==
    ASSUME ThreatTypeOK, NEW r \in Results, NEW s \in Statuses, NEW c \in BOOLEAN, Publishing(r, s, c)
    PROVE  hostStatus' \in Statuses /\ ordered' \in BOOLEAN /\ eval' \in [Results -> EvalRecord]
<1>1. ActionsOf(s) \in Seq(PolicyActions)
  BY ActionsTyped
<1> QED
  BY <1>1 DEF ThreatTypeOK, Publishing, EvalRecord

\* What the assignments of a run leave in its record.
LEMMA RunMoves ==
    ASSUME run \in [Results -> RunRecord], NEW r \in Results, NEW p \in RunPcs
    PROVE  \A b \in BOOLEAN : \E rec \in RunRecord :
               rec.pc = p /\ [run EXCEPT ![r].pc = p, ![r].seen = b] = [run EXCEPT ![r] = rec]
<1> TAKE b \in BOOLEAN
<1>1. run[r] \in RunRecord
  OBVIOUS
<1>2. /\ [run[r] EXCEPT !.pc = p, !.seen = b] \in RunRecord
      /\ [run[r] EXCEPT !.pc = p, !.seen = b].pc = p
  BY <1>1 DEF RunRecord
<1>3. [run EXCEPT ![r].pc = p, ![r].seen = b]
          = [run EXCEPT ![r] = [run[r] EXCEPT !.pc = p, !.seen = b]]
  OBVIOUS
<1> QED
  BY <1>2, <1>3

LEMMA RunGoesOn ==
    ASSUME run \in [Results -> RunRecord], NEW r \in Results, NEW p \in RunPcs
    PROVE  \E rec \in RunRecord : rec.pc = p /\ [run EXCEPT ![r].pc = p] = [run EXCEPT ![r] = rec]
<1>1. run[r] \in RunRecord
  OBVIOUS
<1>2. [run[r] EXCEPT !.pc = p] \in RunRecord /\ [run[r] EXCEPT !.pc = p].pc = p
  BY <1>1 DEF RunRecord
<1>3. [run EXCEPT ![r].pc = p] = [run EXCEPT ![r] = [run[r] EXCEPT !.pc = p]]
  OBVIOUS
<1> QED
  BY <1>2, <1>3

LEMMA RunAdvances ==
    ASSUME run \in [Results -> RunRecord], NEW r \in Results, run[r].iter + 1 < MaxIterations
    PROVE  \E rec \in RunRecord :
               /\ rec.pc = "top"
               /\ [run EXCEPT ![r].pc = "top", ![r].iter = @ + 1] = [run EXCEPT ![r] = rec]
<1>1. run[r] \in RunRecord /\ run[r].iter + 1 \in 0..(MaxIterations - 1)
  BY ResponseAssumption DEF RunRecord
<1>2. ASSUME NEW i \in 0..(MaxIterations - 1)
      PROVE  /\ [run[r] EXCEPT !.pc = "top", !.iter = i] \in RunRecord
             /\ [run[r] EXCEPT !.pc = "top", !.iter = i].pc = "top"
  BY <1>1 DEF RunRecord, RunPcs
<1>3. [run EXCEPT ![r].pc = "top", ![r].iter = @ + 1]
          = [run EXCEPT ![r] = [run[r] EXCEPT !.pc = "top", !.iter = run[r].iter + 1]]
  OBVIOUS
<1> QED
  BY <1>1, <1>2, <1>3

\* A step of a run leads to another record of the same run, outside Block unless the
\* engine still runs or the run was in Block before.
BlockPcs == {"block", "unblocked"}

LEMMA RunLeadsOn ==
    ASSUME run \in [Results -> RunRecord], NEW r \in Results, RunNext(r)
    PROVE  \E rec \in RunRecord :
               /\ run' = [run EXCEPT ![r] = rec]
               /\ rec.pc \in BlockPcs => ~Cancelled \/ run[r].pc \in BlockPcs
<1> USE DEF BlockPcs
<1>1. run[r] \in RunRecord
  OBVIOUS
<1>2. Ended \in RunRecord /\ Ended.pc = "done"
  BY ResponseAssumption DEF Ended, RunRecord, RunPcs
<1>3. CASE StartRun(r)
  <2>1. run' = [run EXCEPT ![r].pc = "top"] /\ "top" \in RunPcs
    BY <1>3 DEF StartRun, RunGoes, RunPcs
  <2> QED
    BY <2>1, RunGoesOn
<1>4. CASE RunAborts(r)
  BY <1>2, <1>4 DEF RunAborts
<1>5. CASE Locate(r)
  <2>1. PICK to \in {"block", "relocate"} : Guided(r, to)
    BY <1>5 DEF Locate
  <2>2. PICK b \in BOOLEAN : run' = [run EXCEPT ![r].pc = to, ![r].seen = b]
    BY <2>1 DEF Guided
  <2>3. PICK rec \in RunRecord :
            rec.pc = to /\ [run EXCEPT ![r].pc = to, ![r].seen = b] = [run EXCEPT ![r] = rec]
    <3>1. to \in RunPcs
      BY DEF RunPcs
    <3>2. \A c \in BOOLEAN : \E rec \in RunRecord :
              rec.pc = to /\ [run EXCEPT ![r].pc = to, ![r].seen = c] = [run EXCEPT ![r] = rec]
      BY <3>1, RunMoves, Zenon
    <3> QED
      BY <3>2, Zenon
  <2>4. run' = [run EXCEPT ![r] = rec] /\ ~Cancelled
    BY <1>5, <2>2, <2>3 DEF Locate
  <2> QED
    BY <2>4
<1>6. CASE BlockDecides(r)
  <2>1. PICK p \in {"unblocked", "relocate"} :
            run' = [run EXCEPT ![r].pc = p, ![r].seen = FALSE]
    BY <1>6 DEF BlockDecides
  <2>2. PICK rec \in RunRecord :
            rec.pc = p /\ [run EXCEPT ![r].pc = p, ![r].seen = FALSE] = [run EXCEPT ![r] = rec]
    <3>1. p \in RunPcs /\ FALSE \in BOOLEAN
      BY DEF RunPcs
    <3> QED
      BY <3>1, RunMoves, Zenon
  <2>3. run' = [run EXCEPT ![r] = rec] /\ run[r].pc \in BlockPcs
    BY <1>6, <2>1, <2>2 DEF BlockDecides
  <2> QED
    BY <2>3
<1>7. CASE BlockEnqueues(r)
  <2>1. run' = [run EXCEPT ![r].pc = "relocate"] /\ "relocate" \in RunPcs
    BY <1>7 DEF BlockEnqueues, RunGoes, RunPcs
  <2> QED
    BY <2>1, RunGoesOn
<1>8. CASE Relocate(r)
  <2>1. PICK b \in BOOLEAN : run' = [run EXCEPT ![r].pc = "judge", ![r].seen = b]
    <3>1. (hostStatus \in Threats) \in BOOLEAN
      OBVIOUS
    <3> QED
      BY <1>8, <3>1, Zenon DEF Relocate
  <2>2. PICK rec \in RunRecord :
            /\ rec.pc = "judge"
            /\ [run EXCEPT ![r].pc = "judge", ![r].seen = b] = [run EXCEPT ![r] = rec]
    <3>1. "judge" \in RunPcs
      BY DEF RunPcs
    <3>2. \A c \in BOOLEAN : \E rec \in RunRecord :
              /\ rec.pc = "judge"
              /\ [run EXCEPT ![r].pc = "judge", ![r].seen = c] = [run EXCEPT ![r] = rec]
      BY <3>1, RunMoves, Zenon
    <3> QED
      BY <3>2, Zenon
  <2> QED
    BY <2>1, <2>2
<1>9. CASE Judge(r)
  <2>1. CASE run' = [run EXCEPT ![r].pc = "backoff", ![r].seen = FALSE]
    <3>1. "backoff" \in RunPcs /\ FALSE \in BOOLEAN
      BY DEF RunPcs
    <3> QED
      BY <2>1, <3>1, RunMoves
  <2>2. CASE run' = [run EXCEPT ![r] = Ended]
    BY <1>2, <2>2
  <2> QED
    BY <1>9, <2>1, <2>2 DEF Judge
<1>10. CASE NextPass(r)
  <2>1. CASE run[r].iter + 1 < MaxIterations
    <3>1. run' = [run EXCEPT ![r].pc = "top", ![r].iter = @ + 1]
      BY <1>10, <2>1 DEF NextPass
    <3>2. PICK rec \in RunRecord :
              /\ rec.pc = "top"
              /\ [run EXCEPT ![r].pc = "top", ![r].iter = @ + 1] = [run EXCEPT ![r] = rec]
      BY <2>1, RunAdvances
    <3> QED
      BY <3>1, <3>2
  <2>2. CASE ~(run[r].iter + 1 < MaxIterations)
    <3>1. run' = [run EXCEPT ![r] = Ended]
      BY <1>10, <2>2 DEF NextPass
    <3> QED
      BY <1>2, <3>1
  <2> QED
    BY <2>1, <2>2
<1> QED
  BY <1>3, <1>4, <1>5, <1>6, <1>7, <1>8, <1>9, <1>10 DEF RunNext

\* The state of the policy and of the lifecycle engine is well formed in every
\* reachable state.
THEOREM ThreatTypeCorrect == ThreatSpec => []ThreatTypeOK
<1> USE ResponseAssumption DEF ThreatTypeOK
<1>1. ThreatInit => ThreatTypeOK
  <2> SUFFICES ASSUME ThreatInit PROVE ThreatTypeOK
    OBVIOUS
  <2>1. eval \in [Results -> EvalRecord]
    BY DEF ThreatInit, EvalRecord
  <2>2. run \in [Results -> RunRecord]
    BY DEF ThreatInit, RunRecord, RunPcs
  <2> QED
    BY <2>1, <2>2 DEF ThreatInit, Statuses
<1>2. ASSUME ThreatTypeOK, [ThreatNext]_threatVars PROVE ThreatTypeOK'
  <2> USE <1>2 DEF EngineStep
  <2>1. ASSUME NEW r \in Results, PublishResult(r) PROVE ThreatTypeOK'
    <3>1. eval' \in [Results -> EvalRecord]
      BY <2>1 DEF PublishResult, EvalRecord
    <3>2. run' \in [Results -> RunRecord]
      BY <2>1 DEF PublishResult, RunRecord, RunPcs
    <3> QED
      BY <2>1, <3>1, <3>2 DEF PublishResult
  <2>2. ASSUME NEW r \in Results, EvaluateHost(r) PROVE ThreatTypeOK'
    BY <2>2, PublishingTyped DEF EvaluateHost, Statuses
  <2>3. ASSUME NEW r \in Results, PublishAction(r) PROVE ThreatTypeOK'
    <3>1. eval[r].todo \in Seq(PolicyActions)
      BY DEF EvalRecord
    <3>2. Tail(eval[r].todo) \in Seq(PolicyActions)
      BY <2>3, <3>1 DEF PublishAction
    <3>3. eval' \in [Results -> EvalRecord]
      BY <2>3, <3>2 DEF PublishAction, EvalRecord
    <3> QED
      BY <2>3, <3>3 DEF PublishAction
  <2>4. ASSUME NEW r \in Results, Preempt(r) PROVE ThreatTypeOK'
    BY <2>4, PublishingTyped DEF Preempt, Statuses
  <2>5. ASSUME NEW r \in Results, RunNext(r) PROVE ThreatTypeOK'
    <3>1. UNCHANGED <<hostStatus, eval, engine>>
      BY <2>5 DEF RunNext, StartRun, RunAborts, Locate, BlockDecides, BlockEnqueues, Relocate,
         Judge, NextPass
    <3>2. active' \in BOOLEAN /\ ordered' \in BOOLEAN
      BY <2>5 DEF RunNext, StartRun, RunAborts, Locate, BlockDecides, BlockEnqueues, Relocate,
         Judge, NextPass
    <3> QED
      BY <2>5, <3>1, <3>2, RunLeadsOn
  <2>6. CASE StopEngine
    BY <2>6 DEF StopEngine
  <2>7. CASE UNCHANGED threatVars
    BY <2>7 DEF threatVars
  <2> QED
    BY <2>1, <2>2, <2>3, <2>4, <2>5, <2>6, <2>7 DEF ThreatNext, PolicyNext
<1> QED
  BY <1>1, <1>2, PTL DEF ThreatSpec

\* No run is anywhere in Block once Stop has returned: one that starts later finds
\* the context cancelled before it locates anything.
NoneInBlock == engine = "stopped" => \A r \in Results : run[r].pc \notin BlockPcs

\* Whatever results overlap, a status of Isolated has its isolation; and whatever runs
\* were under way when the engine was stopped, none blocks a host afterwards.
THEOREM ResponseStaysSafe == ThreatSpec => []ResponseSafe
<1> DEFINE Inv == IsolatedIsOrdered /\ NoneInBlock
<1> USE DEF IsolatedIsOrdered
<1>1. ThreatInit => Inv
  BY DEF ThreatInit, NoneInBlock, BlockPcs
<1>2. ASSUME ThreatTypeOK, Inv, [ThreatNext]_threatVars PROVE Inv'
  <2> USE <1>2 DEF EngineStep
  <2>1. ASSUME NEW r \in Results, NEW s \in Statuses, NEW c \in BOOLEAN, Publishing(r, s, c)
        PROVE  IsolatedIsOrdered'
    <3>1. hostStatus' = s /\ eval'[r].todo = ActionsOf(s)
      BY <2>1 DEF Publishing, ThreatTypeOK
    <3> QED
      BY <3>1, ActionsTyped
  <2>2. ASSUME UNCHANGED <<run, engine>> PROVE NoneInBlock'
    BY <2>2 DEF NoneInBlock
  <2>3. ASSUME UNCHANGED <<hostStatus, eval>>, ordered => ordered' PROVE IsolatedIsOrdered'
    BY <2>3
  <2>4. ASSUME NEW r \in Results, PublishResult(r) PROVE Inv'
    <3>1. \A q \in Results : eval'[q].todo = eval[q].todo
      BY <2>4 DEF PublishResult, ThreatTypeOK
    <3>2. NoneInBlock'
      BY <2>4 DEF PublishResult, ThreatTypeOK, NoneInBlock, BlockPcs
    <3> QED
      BY <2>4, <3>1, <3>2 DEF PublishResult
  <2>5. ASSUME NEW r \in Results, EvaluateHost(r) PROVE Inv'
    BY <2>1, <2>2, <2>5, ResponseAssumption DEF EvaluateHost, Statuses
  <2>6. ASSUME NEW r \in Results, Preempt(r) PROVE Inv'
    BY <2>1, <2>2, <2>6 DEF Preempt, Statuses
  <2>7. ASSUME NEW r \in Results, PublishAction(r) PROVE Inv'
    <3>1. eval[r].todo \in Seq(PolicyActions)
      BY DEF ThreatTypeOK, EvalRecord
    <3>2. /\ \A q \in Results : q # r => eval'[q].todo = eval[q].todo
          /\ eval'[r].todo = Tail(eval[r].todo)
      BY <2>7 DEF PublishAction, ThreatTypeOK
    <3>3. ASSUME NEW i \in DOMAIN eval[r].todo, eval[r].todo[i] = "isolate_host"
          PROVE  ordered' \/ \E j \in DOMAIN eval'[r].todo : eval'[r].todo[j] = "isolate_host"
      <4>1. CASE i = 1
        <5>1. Head(eval[r].todo) = "isolate_host"
          BY <3>1, <3>3, <4>1
        <5> QED
          BY <2>7, <5>1 DEF PublishAction
      <4>2. CASE i # 1
        <5>1. i - 1 \in DOMAIN Tail(eval[r].todo) /\ Tail(eval[r].todo)[i - 1] = eval[r].todo[i]
          BY <3>1, <4>2
        <5> QED
          BY <3>2, <3>3, <5>1
      <4> QED
        BY <4>1, <4>2
    <3>4. IsolatedIsOrdered'
      BY <2>7, <3>2, <3>3 DEF PublishAction
    <3> QED
      BY <2>2, <2>7, <3>4 DEF PublishAction
  <2>8. ASSUME NEW r \in Results, RunNext(r) PROVE Inv'
    <3>1. UNCHANGED <<hostStatus, eval, engine>> /\ (ordered => ordered')
      BY <2>8 DEF RunNext, StartRun, RunAborts, Locate, BlockDecides, BlockEnqueues, Relocate,
         Judge, NextPass
    <3>2. PICK rec \in RunRecord :
              /\ run' = [run EXCEPT ![r] = rec]
              /\ rec.pc \in BlockPcs => ~Cancelled \/ run[r].pc \in BlockPcs
      BY <2>8, RunLeadsOn DEF ThreatTypeOK
    <3>3. NoneInBlock'
      BY <3>1, <3>2 DEF NoneInBlock, ThreatTypeOK, Cancelled
    <3> QED
      BY <2>3, <3>1, <3>3
  <2>9. CASE StopEngine
    BY <2>3, <2>9 DEF StopEngine, NoneInBlock, BlockPcs, Counted
  <2>10. CASE UNCHANGED threatVars
    BY <2>2, <2>3, <2>10 DEF threatVars
  <2> QED
    BY <2>4, <2>5, <2>6, <2>7, <2>8, <2>9, <2>10 DEF ThreatNext, PolicyNext
<1>3. Inv => ResponseSafe
  BY DEF ResponseSafe, NoneInBlock, BlockPcs, NoBlockAfterStop
<1> QED
  BY <1>1, <1>2, <1>3, ThreatTypeCorrect, PTL DEF ThreatSpec

-----------------------------------------------------------------------------
(* AgentSession.                                                           *)

\* What the wire may hold of two sets of calls and answers after the kernel's step.
LEMMA ServedTyped ==
    ASSUME NEW C, NEW req \in Seq(C), req # <<>>, NEW rep \in Seq([to : C, ok : BOOLEAN]),
           NEW b \in BOOLEAN
    PROVE  /\ Tail(req) \in Seq(C)
           /\ Append(rep, [to |-> Head(req), ok |-> b]) \in Seq([to : C, ok : BOOLEAN])
<1>1. Head(req) \in C
  OBVIOUS
<1>2. [to |-> Head(req), ok |-> b] \in [to : C, ok : BOOLEAN]
  BY <1>1
<1> QED
  BY <1>2

LEMMA SessionStepTyped ==
    ASSUME SessionTypeOK, [SessionNext]_sessionVars
    PROVE  SessionTypeOK'
<1> USE DEF SessionTypeOK, KernelSame, wireVars, memoryVars, Goes
<1>0. /\ 0 \in Nat /\ \A n \in Nat : n + 1 \in Nat
      /\ \A f \in 0..MaxFaults : f < MaxFaults => f + 1 \in 0..MaxFaults
      /\ <<>> \in Seq(Calls) /\ <<>> \in Seq(Answers)
      /\ \A c \in Calls : Append(requests, c) \in Seq(Calls)
      /\ replies # <<>> => Tail(replies) \in Seq(Answers)
  BY SessionAssumption
<1> USE <1>0
<1>1. CASE Serve
  <2>1. Tail(requests) \in Seq(Calls)
        /\ Append(replies, [to |-> Head(requests), ok |-> TRUE]) \in Seq(Answers)
    BY <1>1, ServedTyped DEF Serve, Answers
  <2> QED
    BY <1>1, <2>1 DEF Serve
<1>2. CASE Refuse
  <2>1. Tail(requests) \in Seq(Calls)
        /\ Append(replies, [to |-> Head(requests), ok |-> FALSE]) \in Seq(Answers)
    BY <1>2, ServedTyped DEF Refuse, Answers
  <2> QED
    BY <1>2, <2>1 DEF Refuse, Fault
<1>3. CASE KernelCrash \/ KernelStarts \/ IdleClose
  BY <1>3 DEF KernelCrash, KernelStarts, IdleClose, Fault, Break
<1>4. CASE Connect \/ ConnectFails \/ RegisterFails \/ RegisterTimesOut
  BY <1>4 DEF Connect, ConnectFails, RegisterFails, RegisterTimesOut, SessionError, Fault
<1>5. CASE Register \/ Heartbeat
  <2>1. requests' \in Seq(Calls)
    <3>1. \E c \in Calls : requests' \in {requests, Append(requests, c)}
      BY <1>5 DEF Register, Heartbeat, Send, Calls
    <3> QED
      BY <3>1
  <2> QED
    BY <1>5, <2>1 DEF Register, Heartbeat, Send
<1>6. CASE Registered \/ HeartbeatOk
  <2>1. replies' \in Seq(Answers)
    BY <1>6 DEF Registered, HeartbeatOk, Answered
  <2> QED
    BY <1>6, <2>1 DEF Registered, HeartbeatOk
<1>7. CASE HeartbeatFails
  <2>1. replies' \in Seq(Answers)
    BY <1>7 DEF HeartbeatFails, CycleError, Answered
  <2> QED
    BY <1>7, <2>1 DEF HeartbeatFails, CycleError
<1>8. CASE CallTimesOut
  BY <1>8 DEF CallTimesOut, Answered, CycleError, Fault
<1>9. CASE Signal \/ UNCHANGED sessionVars
  BY <1>9 DEF Signal, sessionVars
<1>10. CASE Exit \/ Restart \/ Reconnect
  BY <1>10 DEF Exit, Restart, Reconnect
<1> QED
  BY <1>1, <1>2, <1>3, <1>4, <1>5, <1>6, <1>7, <1>8, <1>9, <1>10 DEF SessionNext, AgentStep

\* The session's variables have their types in every reachable state, whatever fails.
THEOREM SessionTypeCorrect == SessionSpec => []SessionTypeOK
<1>1. SessionInit => SessionTypeOK
  <2>1. 0 \in Nat /\ 0 \in 0..MaxFaults /\ <<>> \in Seq(Calls) /\ <<>> \in Seq(Answers)
    BY SessionAssumption
  <2> QED
    BY <2>1 DEF SessionInit, SessionTypeOK
<1>2. SessionTypeOK /\ [SessionNext]_sessionVars => SessionTypeOK'
  BY SessionStepTyped
<1> QED
  BY <1>1, <1>2, PTL DEF SessionSpec

\* Between two connections nothing is owed: no call or answer outlives its connection,
\* the agent is without one whenever it is about to connect, and it has then forgotten
\* what it sent.  So the first call of a connection finds it empty.
BetweenSessions ==
    /\ link # "open" => requests = <<>> /\ replies = <<>>
    /\ pc \in {"dial", "reconnect", "exited"} => link = "none"
    /\ pc \in {"dial", "reconnect"} => ~pkgSent
    /\ pc = "register" => requests = <<>> /\ replies = <<>>

OnlyRegister ==
    pc = "registering" => /\ requests \in Seq({"register"})
                          /\ replies \in Seq([to : {"register"}, ok : BOOLEAN])

HasFull(s) == \E i \in DOMAIN s : s[i] = "full"

FullOnItsWay == pkgSent /\ link = "open" /\ ~hurt => asset \/ HasFull(requests)

LEMMA FullServed ==
    ASSUME NEW s \in Seq(Calls), s # <<>>, HasFull(s)
    PROVE  Head(s) = "full" \/ HasFull(Tail(s))
<1>1. PICK i \in DOMAIN s : s[i] = "full"
  BY DEF HasFull
<1>2. CASE i = 1
  BY <1>1, <1>2
<1>3. CASE i # 1
  <2>1. i - 1 \in DOMAIN Tail(s) /\ Tail(s)[i - 1] = "full"
    BY <1>1, <1>3
  <2> QED
    BY <2>1 DEF HasFull
<1> QED
  BY <1>2, <1>3

LEMMA FullSent ==
    ASSUME NEW s \in Seq(Calls), NEW c \in Calls
    PROVE  /\ c = "full" => HasFull(Append(s, c))
           /\ HasFull(s) => HasFull(Append(s, c))
<1>1. DOMAIN Append(s, c) = 1..(Len(s) + 1) /\ Append(s, c)[Len(s) + 1] = c
  OBVIOUS
<1>2. \A i \in DOMAIN s : i \in DOMAIN Append(s, c) /\ Append(s, c)[i] = s[i]
  OBVIOUS
<1>3. Len(s) + 1 \in DOMAIN Append(s, c)
  BY <1>1
<1> QED
  BY <1>1, <1>2, <1>3 DEF HasFull

\* However the kernel crashes, refuses or is late, the agent takes its session id from
\* an answer to Register, and a package list that counts as sent on a connection whose
\* calls all succeeded is with the kernel or on its way.
THEOREM SessionStaysSafe == SessionSpec => []SessionSafe
<1> DEFINE Inv == BetweenSessions /\ OnlyRegister /\ FullOnItsWay
<1>1. SessionInit => Inv
  BY DEF SessionInit, BetweenSessions, OnlyRegister, FullOnItsWay
<1>2. ASSUME SessionTypeOK, Inv, [SessionNext]_sessionVars PROVE Inv'
  <2> USE <1>2 DEF KernelSame, wireVars, memoryVars, Goes
  <2>1. CASE Serve \/ Refuse
    <3>1. /\ requests # <<>> /\ link' = link /\ link = "open" /\ pc' = pc /\ pkgSent' = pkgSent
          /\ requests' = Tail(requests)
          /\ \E b \in BOOLEAN : replies' = Append(replies, [to |-> Head(requests), ok |-> b])
      BY <2>1 DEF Serve, Refuse
    <3>2. BetweenSessions'
      BY <3>1 DEF BetweenSessions
    <3>3. OnlyRegister'
      BY <3>1, ServedTyped DEF OnlyRegister
    <3>4. FullOnItsWay'
      BY <2>1, <3>1, FullServed DEF Serve, Refuse, FullOnItsWay, SessionTypeOK
    <3> QED
      BY <3>2, <3>3, <3>4
  <2>2. CASE KernelCrash \/ IdleClose
    <3>1. link' # "open" /\ requests' = <<>> /\ replies' = <<>> /\ pc' = pc /\ pkgSent' = pkgSent
          /\ (link = "none" => link' = "none")
      BY <2>2 DEF KernelCrash, IdleClose, Break
    <3>2. <<>> \in Seq({"register"}) /\ <<>> \in Seq([to : {"register"}, ok : BOOLEAN])
      OBVIOUS
    <3> QED
      BY <3>1, <3>2 DEF BetweenSessions, OnlyRegister, FullOnItsWay
  <2>3. CASE KernelStarts \/ Signal \/ UNCHANGED sessionVars
    BY <2>3 DEF KernelStarts, Signal, sessionVars, BetweenSessions, OnlyRegister, FullOnItsWay
  <2>4. CASE Connect
    BY <2>4 DEF Connect, BetweenSessions, OnlyRegister, FullOnItsWay
  <2>5. CASE ConnectFails \/ RegisterFails \/ RegisterTimesOut
    BY <2>5 DEF ConnectFails, RegisterFails, RegisterTimesOut, SessionError, BetweenSessions,
       OnlyRegister, FullOnItsWay
  <2>6. CASE Register
    <3>1. requests' \in {<<>>, Append(<<>>, "register")} /\ replies' = <<>>
      BY <2>6 DEF Register, Send, BetweenSessions
    <3>2. /\ <<>> \in Seq({"register"}) /\ Append(<<>>, "register") \in Seq({"register"})
          /\ <<>> \in Seq([to : {"register"}, ok : BOOLEAN])
      OBVIOUS
    <3>3. OnlyRegister'
      BY <3>1, <3>2 DEF OnlyRegister
    <3>4. FullOnItsWay'
      BY <2>6, FullSent DEF Register, Send, FullOnItsWay, SessionTypeOK, Calls
    <3>5. BetweenSessions'
      BY <2>6 DEF Register, Send, BetweenSessions
    <3> QED
      BY <3>3, <3>4, <3>5
  <2>7. CASE Heartbeat
    <3>1. FullOnItsWay'
      BY <2>7, FullSent DEF Heartbeat, Send, FullOnItsWay, SessionTypeOK, Calls
    <3>2. BetweenSessions' /\ OnlyRegister'
      BY <2>7 DEF Heartbeat, Send, BetweenSessions, OnlyRegister
    <3> QED
      BY <3>1, <3>2
  <2>8. CASE Registered \/ HeartbeatOk
    BY <2>8 DEF Registered, HeartbeatOk, Answered, BetweenSessions, OnlyRegister, FullOnItsWay
  <2>9. CASE HeartbeatFails
    BY <2>9 DEF HeartbeatFails, CallFailed, Answered, CycleError, BetweenSessions, OnlyRegister,
       FullOnItsWay
  <2>10. CASE CallTimesOut
    BY <2>10 DEF CallTimesOut, Answered, CycleError, BetweenSessions, OnlyRegister, FullOnItsWay
  <2>11. CASE Reconnect \/ Exit \/ Restart
    BY <2>11 DEF Reconnect, Exit, Restart, BetweenSessions, OnlyRegister, FullOnItsWay
  <2> QED
    BY <2>1, <2>2, <2>3, <2>4, <2>5, <2>6, <2>7, <2>8, <2>9, <2>10, <2>11
       DEF SessionNext, AgentStep
<1>3. Inv => SessionSafe
  <2> SUFFICES ASSUME Inv PROVE SessionSafe
    OBVIOUS
  <2>1. RegisterHearsRegister
    <3> SUFFICES ASSUME pc = "registering" PROVE RegisterHearsRegister
      BY DEF RegisterHearsRegister
    <3>1. \A i \in DOMAIN requests : requests[i] \in {"register"}
      BY DEF OnlyRegister
    <3>2. ASSUME NEW i \in DOMAIN replies PROVE replies[i].to = "register"
      <4>1. ASSUME NEW R, replies \in Seq(R) PROVE replies[i] \in R
        BY <4>1
      <4> QED
        BY <4>1 DEF OnlyRegister
    <3> QED
      BY <3>1, <3>2 DEF RegisterHearsRegister
  <2>2. SentMeansKnown
    BY DEF SentMeansKnown, FullOnItsWay, HasFull
  <2> QED
    BY <2>1, <2>2 DEF SessionSafe
<1> QED
  BY <1>1, <1>2, <1>3, SessionTypeCorrect, PTL DEF SessionSpec

-----------------------------------------------------------------------------
(* CommanderKey.                                                           *)

\* A start that has its key, the metadata written or not.
HasKey ==
    keyPc \in {"wroteKey", "up"} /\ ~Configured /\ ~unsaved => hmacKey = keyFile

\* The key variables have their types in every reachable state.
THEOREM KeyTypeCorrect == KeySpec => []KeyTypeOK
<1>0. 0 \in Keys /\ 1 \in Keys /\ \A k \in Keys : k < MaxKeys => k + 1 \in Keys
  BY KeyAssumption DEF Keys
<1>1. KeyInit => KeyTypeOK
  BY <1>0 DEF KeyInit, KeyTypeOK
<1>2. KeyTypeOK /\ [KeyNext]_keyVars => KeyTypeOK'
  <2> SUFFICES ASSUME KeyTypeOK, [KeyNext]_keyVars PROVE KeyTypeOK'
    OBVIOUS
  <2>1. CASE DrawKey
    <3>1. drawn' \in Keys /\ hmacKey' \in Keys /\ keyFile' \in Keys
      BY <1>0, <2>1 DEF KeyTypeOK, DrawKey
    <3>2. unsaved' \in BOOLEAN
      BY <2>1, Zenon DEF DrawKey
    <3> QED
      BY <2>1, <3>1, <3>2 DEF KeyTypeOK, DrawKey
  <2>2. CASE LoadKey
    BY <1>0, <2>2 DEF KeyTypeOK, LoadKey
  <2>3. CASE WriteMeta \/ KernelStops \/ KeyExpires \/ UNCHANGED keyVars
    BY <1>0, <2>3 DEF KeyTypeOK, WriteMeta, KernelStops, KeyExpires, keyVars
  <2> QED
    BY <2>1, <2>2, <2>3 DEF KeyNext
<1> QED
  BY <1>1, <1>2, PTL DEF KeySpec

\* Wherever a start stops between its two writes, a kernel that is up and saved its key
\* signs with the key in the file.
THEOREM SignsWithItsFile == KeySpec => []SignsWithFile
<1>1. KeyInit => HasKey
  BY DEF KeyInit, HasKey
<1>2. HasKey /\ [KeyNext]_keyVars => HasKey'
  <2> SUFFICES ASSUME HasKey, [KeyNext]_keyVars PROVE HasKey'
    OBVIOUS
  <2>1. CASE LoadKey
    BY <2>1 DEF HasKey, LoadKey
  <2>2. CASE DrawKey
    BY <2>2 DEF HasKey, DrawKey
  <2>3. CASE WriteMeta \/ KernelStops \/ KeyExpires \/ UNCHANGED keyVars
    BY <2>3 DEF HasKey, WriteMeta, KernelStops, KeyExpires, keyVars
  <2> QED
    BY <2>1, <2>2, <2>3 DEF KeyNext
<1>3. HasKey => SignsWithFile
  BY DEF HasKey, SignsWithFile
<1> QED
  BY <1>1, <1>2, <1>3, PTL DEF KeySpec

-----------------------------------------------------------------------------
(* Bus, for any number of publications, subscribers and any capacities:    *)
(* the two semaphores are exact, and a drained bus stays quiet for         *)
(* publications under the kernel's context.                                *)

\* What one label contributes to the number of labels in S.
In(label, S) == IF label \in S THEN 1 ELSE 0

\* The deliveries whose goroutine is at one of the places S.
At(S) == {x \in Deliveries : delivery[x] \in S}

\* Every place a delivery can be at.
Places == {"none", "sync", "done"} \cup Waited

\* There are finitely many deliveries.
LEMMA DeliveriesFinite == IsFiniteSet(Deliveries)
  BY FiniteAssumption, FS_Product DEF Deliveries

\* Moving one delivery changes the count by the difference of its places.
LEMMA CountMove ==
    ASSUME TypeOK, NEW d \in Deliveries, NEW label \in Places, Became(d, label), NEW S
    PROVE  /\ Cardinality(At(S)) \in Nat
           /\ Cardinality(At(S)') = Cardinality(At(S)) + In(label, S) - In(delivery[d], S)
           /\ delivery[d] \in S => Cardinality(At(S)) # 0
<1>1. IsFiniteSet(At(S)) /\ Cardinality(At(S)) \in Nat
  BY DeliveriesFinite, FS_Subset, FS_CardinalityType DEF At, TypeOK, Became
<1>2. CASE delivery[d] \in S /\ label \in S
  <2>1. At(S)' = At(S)
    BY <1>2 DEF At, TypeOK, Became
  <2>2. Cardinality(At(S)) # 0
    BY <1>1, <1>2, FS_EmptySet DEF At, TypeOK, Became
  <2> QED
    BY <1>1, <1>2, <2>1, <2>2 DEF In
<1>3. CASE delivery[d] \in S /\ label \notin S
  <2>1. At(S)' = At(S) \ {d} /\ d \in At(S)
    BY <1>3 DEF At, TypeOK, Became
  <2>2. Cardinality(At(S)') = Cardinality(At(S)) - 1
    BY <1>1, <2>1, FS_RemoveElement
  <2>3. Cardinality(At(S)) # 0
    BY <1>1, <2>1, FS_EmptySet
  <2> QED
    BY <1>1, <1>3, <2>2, <2>3 DEF In
<1>4. CASE delivery[d] \notin S /\ label \in S
  <2>1. At(S)' = At(S) \cup {d} /\ d \notin At(S)
    BY <1>4 DEF At, TypeOK, Became
  <2>2. Cardinality(At(S)') = Cardinality(At(S)) + 1
    BY <1>1, <2>1, FS_AddElement
  <2> QED
    BY <1>1, <1>4, <2>2 DEF In
<1>5. CASE delivery[d] \notin S /\ label \notin S
  <2>1. At(S)' = At(S)
    BY <1>5 DEF At, TypeOK, Became
  <2> QED
    BY <1>1, <1>5, <2>1 DEF In
<1> QED
  BY <1>2, <1>3, <1>4, <1>5

\* The context is done before the bus is stopped, and a drained bus has no
\* running handler of a publication under it.
Quiet == (shutdown # "no" => cancelled) /\ QuietAfterDrain

\* A subscriber that is still to be dispatched has no goroutine yet.
NewUntouched ==
    \A p \in Pubs, i \in Ids :
        pub[p].pc \in {"idle", "checked"} \/ i \in todo[p] => delivery[<<p, i>>] = "none"

IInv == TypeOK /\ TokensAccounted /\ Quiet /\ NewUntouched

\* How one relabelled delivery moves the two counters.
LEMMA Tokens ==
    ASSUME TypeOK, TokensAccounted, NEW d \in Deliveries, NEW label \in Places, Became(d, label),
           goroutines' = goroutines + In(label, HoldsGoroutine) - In(delivery[d], HoldsGoroutine),
           dispatching' = dispatching + In(label, HoldsDispatch) - In(delivery[d], HoldsDispatch)
    PROVE  /\ TokensAccounted'
           /\ delivery[d] \in HoldsGoroutine => goroutines > 0
           /\ delivery[d] \in HoldsDispatch => dispatching > 0
<1>1. /\ Cardinality(At(HoldsGoroutine)) \in Nat
      /\ Cardinality(At(HoldsGoroutine)')
           = Cardinality(At(HoldsGoroutine))
               + In(label, HoldsGoroutine) - In(delivery[d], HoldsGoroutine)
      /\ delivery[d] \in HoldsGoroutine => Cardinality(At(HoldsGoroutine)) # 0
  BY CountMove
<1>2. /\ Cardinality(At(HoldsDispatch)) \in Nat
      /\ Cardinality(At(HoldsDispatch)')
           = Cardinality(At(HoldsDispatch))
               + In(label, HoldsDispatch) - In(delivery[d], HoldsDispatch)
      /\ delivery[d] \in HoldsDispatch => Cardinality(At(HoldsDispatch)) # 0
  BY CountMove
<1>3. /\ goroutines = Cardinality(At(HoldsGoroutine))
      /\ dispatching = Cardinality(At(HoldsDispatch))
  BY DEF TokensAccounted, At
<1>4. TokensAccounted'
  BY <1>1, <1>2, <1>3 DEF TokensAccounted, At
<1> QED
  BY <1>1, <1>2, <1>3, <1>4

\* The bus starts in the invariant.
LEMMA InitInv == Init => IInv
<1> SUFFICES ASSUME Init PROVE IInv
  OBVIOUS
<1>1. TypeOK
  <2>1. goroutines \in 0..MaxGoroutines /\ dispatching \in 0..QueueSize
    BY CapacityAssumption DEF Init
  <2>2. pub \in [Pubs -> [pc : {"idle", "checked", "loop", "done"}, topic : Topics, kind : Kinds]]
    BY DEF Init
  <2> QED
    BY <2>1, <2>2 DEF Init, TypeOK
<1>2. /\ {d \in Deliveries : delivery[d] \in HoldsGoroutine} = {}
      /\ {d \in Deliveries : delivery[d] \in HoldsDispatch} = {}
  BY DEF Init, HoldsGoroutine, HoldsDispatch
<1>3. TokensAccounted
  BY <1>2, FS_EmptySet DEF TokensAccounted, Init
<1>4. Quiet /\ NewUntouched
  BY DEF Quiet, QuietAfterDrain, NewUntouched, Init, Deliveries
<1> QED
  BY <1>1, <1>3, <1>4 DEF IInv

\* A step that leaves the goroutines of the deliveries alone and lets nothing be
\* drained keeps the token counts.
LEMMA SameTokens ==
    ASSUME TokensAccounted, UNCHANGED <<delivery, goroutines, dispatching>>
    PROVE  TokensAccounted'
  BY DEF TokensAccounted

\* Operators that change subscriptions only.
LEMMA SubscriptionSteps ==
    ASSUME IInv, subscribers' \in [Topics -> SUBSET Ids],
           UNCHANGED <<stopped, cancelled, shutdown, pub, todo, delivery, goroutines, dispatching>>
    PROVE  IInv'
<1>1. TypeOK'
  BY DEF IInv, TypeOK
<1>2. TokensAccounted'
  BY SameTokens DEF IInv
<1>3. Quiet' /\ NewUntouched'
  BY DEF IInv, Quiet, QuietAfterDrain, NewUntouched
<1> QED
  BY <1>1, <1>2, <1>3 DEF IInv

\* Steps of a publisher that start no delivery.
LEMMA PublisherSteps ==
    ASSUME IInv, NEW p \in Pubs, CheckStopped(p) \/ CopySubscribers(p) \/ PublishReturns(p)
    PROVE  IInv'
<1>1. TypeOK'
  BY DEF IInv, TypeOK, CheckStopped, CopySubscribers, PublishReturns, Step
<1>2. TokensAccounted'
  BY SameTokens DEF IInv, CheckStopped, CopySubscribers, PublishReturns
<1>3. Quiet'
  <2>1. \A q \in Pubs : pub'[q].kind = pub[q].kind
    BY DEF IInv, TypeOK, CheckStopped, CopySubscribers, PublishReturns, Step
  <2>2. UNCHANGED <<delivery, shutdown, cancelled>>
    BY DEF CheckStopped, CopySubscribers, PublishReturns
  <2> QED
    BY <2>1, <2>2 DEF IInv, Quiet, QuietAfterDrain, Deliveries
<1>4. NewUntouched'
  BY DEF IInv, TypeOK, NewUntouched, CheckStopped, CopySubscribers, PublishReturns, Step
<1> QED
  BY <1>1, <1>2, <1>3, <1>4 DEF IInv

\* Steps of Kernel.Shutdown and Bus.Stop.
LEMMA ShutdownSteps == ASSUME IInv, Shutdown PROVE IInv'
<1>1. UNCHANGED <<pub, todo, delivery, goroutines, dispatching>>
  BY DEF Shutdown, CancelContext, StopFlag, StopClear, WaitDone, StopReturns
<1>2. TypeOK'
  BY DEF IInv, TypeOK, Shutdown, CancelContext, StopFlag, StopClear, WaitDone, StopReturns
<1>3. TokensAccounted' /\ NewUntouched'
  BY <1>1, SameTokens DEF IInv, NewUntouched
<1>4. Quiet'
  <2>1. CASE WaitDone
    BY <1>1, <2>1 DEF IInv, Quiet, QuietAfterDrain, WaitDone, Waited, HoldsGoroutine
  <2>2. CASE ~WaitDone
    BY <1>1, <2>2 DEF IInv, Quiet, QuietAfterDrain, Shutdown, CancelContext, StopFlag, StopClear,
                      StopReturns
  <2> QED
    BY <2>1, <2>2
<1> QED
  BY <1>2, <1>3, <1>4 DEF IInv

\* What every step of a delivery's goroutine has to show.
LEMMA DeliverySteps ==
    ASSUME IInv, NEW d \in Deliveries, NEW label \in Places, Became(d, label),
           UNCHANGED <<subscribers, stopped, cancelled, shutdown, pub>>,
           todo' \in [Pubs -> SUBSET Ids],
           \A p \in Pubs, i \in Ids : i \in todo'[p] => i \in todo[p] /\ <<p, i>> # d,
           pub[d[1]].pc \notin {"idle", "checked"},
           goroutines' = goroutines + In(label, HoldsGoroutine) - In(delivery[d], HoldsGoroutine),
           dispatching' = dispatching + In(label, HoldsDispatch) - In(delivery[d], HoldsDispatch),
           goroutines' <= MaxGoroutines, dispatching' <= QueueSize,
           label = "running" => delivery[d] = "running" \/ ~cancelled \/ pub[d[1]].kind # "async"
    PROVE  IInv'
<1>1. TypeOK /\ TokensAccounted /\ Quiet /\ NewUntouched
  BY DEF IInv
<1>2. /\ TokensAccounted'
      /\ delivery[d] \in HoldsGoroutine => goroutines > 0
      /\ delivery[d] \in HoldsDispatch => dispatching > 0
  BY <1>1, Tokens
<1>3. goroutines' \in 0..MaxGoroutines /\ dispatching' \in 0..QueueSize
  BY <1>1, <1>2, CapacityAssumption DEF In, TypeOK
<1>4. TypeOK'
  BY <1>1, <1>3 DEF TypeOK, Became, Places
<1>5. Quiet'
  <2>1. shutdown \in {"drained", "returned"} => cancelled
    BY <1>1 DEF Quiet
  <2>2. \A e \in Deliveries : delivery'[e] = IF e = d THEN label ELSE delivery[e]
    BY <1>1 DEF TypeOK, Became
  <2> QED
    BY <1>1, <2>1, <2>2 DEF Quiet, QuietAfterDrain
<1>6. NewUntouched'
  <2> SUFFICES ASSUME NEW p \in Pubs, NEW i \in Ids,
                      pub[p].pc \in {"idle", "checked"} \/ i \in todo'[p]
               PROVE  delivery'[<<p, i>>] = "none"
    BY DEF NewUntouched
  <2>1. <<p, i>> # d
    OBVIOUS
  <2>2. delivery'[<<p, i>>] = delivery[<<p, i>>]
    BY <1>1, <2>1 DEF TypeOK, Became, Deliveries
  <2> QED
    BY <1>1, <2>2 DEF NewUntouched
<1> QED
  BY <1>2, <1>4, <1>5, <1>6 DEF IInv

\* A delivery that has begun is not in the list of its publisher any more.
LEMMA Begun ==
    ASSUME IInv, NEW d \in Deliveries, delivery[d] # "none"
    PROVE  /\ pub[d[1]].pc \notin {"idle", "checked"}
           /\ \A p \in Pubs, i \in Ids : i \in todo[p] => <<p, i>> # d
<1>1. PICK p \in Pubs, i \in Ids : d = <<p, i>>
  BY DEF Deliveries
<1> QED
  BY <1>1 DEF IInv, NewUntouched

\* Where a goroutine holds which token.
LEMMA Places1 ==
    /\ In("none", HoldsGoroutine) = 0 /\ In("none", HoldsDispatch) = 0
    /\ In("sync", HoldsGoroutine) = 0 /\ In("sync", HoldsDispatch) = 0
    /\ In("done", HoldsGoroutine) = 0 /\ In("done", HoldsDispatch) = 0
    /\ In("spawned", HoldsGoroutine) = 1 /\ In("spawned", HoldsDispatch) = 0
    /\ In("acquired", HoldsGoroutine) = 1 /\ In("acquired", HoldsDispatch) = 1
    /\ In("running", HoldsGoroutine) = 1 /\ In("running", HoldsDispatch) = 1
    /\ In("ending", HoldsGoroutine) = 1 /\ In("ending", HoldsDispatch) = 1
    /\ In("refused", HoldsGoroutine) = 1 /\ In("refused", HoldsDispatch) = 0
    /\ In("releasing", HoldsGoroutine) = 0 /\ In("releasing", HoldsDispatch) = 1
    /\ {"spawned", "acquired", "running", "ending", "refused", "releasing", "sync", "done"}
         \subseteq Places
  BY DEF In, HoldsGoroutine, HoldsDispatch, Places, Waited

\* Publish and PublishSync start a delivery.
LEMMA StartSteps ==
    ASSUME IInv, NEW p \in Pubs, NEW i \in Ids, Dispatch(p, i) \/ CallSync(p, i)
    PROVE  IInv'
<1> DEFINE d == <<p, i>>
<1>1. d \in Deliveries /\ delivery[d] = "none" /\ pub[d[1]].pc = "loop"
  BY DEF Deliveries, IInv, NewUntouched, Dispatch, CallSync
<1>2. /\ todo' \in [Pubs -> SUBSET Ids]
      /\ \A q \in Pubs, j \in Ids : j \in todo'[q] => j \in todo[q] /\ <<q, j>> # d
  BY DEF IInv, TypeOK, Dispatch, CallSync
<1>3. goroutines \in 0..MaxGoroutines /\ dispatching \in 0..QueueSize
  BY DEF IInv, TypeOK
<1>4. UNCHANGED <<subscribers, stopped, cancelled, shutdown, pub, dispatching>>
  BY DEF Dispatch, CallSync
<1> HIDE DEF d
<1>5. CASE Became(d, "spawned") /\ goroutines < MaxGoroutines /\ goroutines' = goroutines + 1
  BY <1>1, <1>2, <1>3, <1>4, <1>5, Places1, DeliverySteps, CapacityAssumption
<1>6. CASE Became(d, "done") /\ UNCHANGED goroutines
  BY <1>1, <1>2, <1>3, <1>4, <1>6, Places1, DeliverySteps, CapacityAssumption
<1>7. CASE Became(d, "sync") /\ UNCHANGED goroutines
  BY <1>1, <1>2, <1>3, <1>4, <1>7, Places1, DeliverySteps, CapacityAssumption
<1> QED
  BY <1>5, <1>6, <1>7 DEF Dispatch, CallSync, d

\* A delivery goes on or ends.
LEMMA GoroutineSteps ==
    ASSUME IInv, NEW d \in Deliveries,
           \/ Goroutine(d) \/ HandlerReturns(d)
           \/ \E p \in Pubs, i \in Ids : d = <<p, i>> /\ ReturnSync(p, i)
    PROVE  IInv'
<1>1. /\ UNCHANGED <<subscribers, stopped, cancelled, shutdown, pub, todo>>
      /\ delivery[d] # "none"
  BY DEF Goroutine, AcquireDispatch, CallHandler, ReleaseGoroutine, ReleaseDispatch,
         HandlerReturns, ReturnSync
<1>2. /\ todo' \in [Pubs -> SUBSET Ids]
      /\ \A p \in Pubs, i \in Ids : i \in todo'[p] => i \in todo[p] /\ <<p, i>> # d
      /\ pub[d[1]].pc \notin {"idle", "checked"}
  BY <1>1, Begun DEF IInv, TypeOK
<1>3. goroutines \in 0..MaxGoroutines /\ dispatching \in 0..QueueSize
  BY DEF IInv, TypeOK
<1>4. CASE AcquireDispatch(d)
  <2>1. CASE dispatching < QueueSize /\ dispatching' = dispatching + 1 /\ Became(d, "acquired")
    BY <1>1, <1>2, <1>3, <1>4, <2>1, Places1, DeliverySteps, CapacityAssumption
       DEF AcquireDispatch
  <2>2. CASE Became(d, "refused") /\ UNCHANGED dispatching
    BY <1>1, <1>2, <1>3, <1>4, <2>2, Places1, DeliverySteps, CapacityAssumption
       DEF AcquireDispatch
  <2> QED
    BY <1>4, <2>1, <2>2 DEF AcquireDispatch
<1>5. CASE CallHandler(d)
  <2>1. CASE Became(d, "ending")
    BY <1>1, <1>2, <1>3, <1>5, <2>1, Places1, DeliverySteps, CapacityAssumption DEF CallHandler
  <2>2. CASE Became(d, "running") /\ ~(cancelled /\ pub[d[1]].kind = "async")
    BY <1>1, <1>2, <1>3, <1>5, <2>2, Places1, DeliverySteps, CapacityAssumption DEF CallHandler
  <2> QED
    BY <1>5, <2>1, <2>2 DEF CallHandler
<1>6. CASE HandlerReturns(d)
  BY <1>1, <1>2, <1>3, <1>6, Places1, DeliverySteps, CapacityAssumption DEF HandlerReturns
<1>7. CASE ReleaseGoroutine(d)
  <2>1. CASE delivery[d] = "ending"
    BY <1>1, <1>2, <1>3, <1>7, <2>1, Places1, DeliverySteps, CapacityAssumption
       DEF ReleaseGoroutine
  <2>2. CASE delivery[d] = "refused"
    BY <1>1, <1>2, <1>3, <1>7, <2>2, Places1, DeliverySteps, CapacityAssumption
       DEF ReleaseGoroutine
  <2> QED
    BY <1>7, <2>1, <2>2 DEF ReleaseGoroutine
<1>8. CASE ReleaseDispatch(d)
  BY <1>1, <1>2, <1>3, <1>8, Places1, DeliverySteps, CapacityAssumption DEF ReleaseDispatch
<1>9. CASE \E p \in Pubs, i \in Ids : d = <<p, i>> /\ ReturnSync(p, i)
  <2>1. /\ delivery[d] = "sync" /\ Became(d, "done")
        /\ UNCHANGED <<goroutines, dispatching>>
    BY <1>9 DEF ReturnSync
  <2> QED
    BY <1>1, <1>2, <1>3, <2>1, Places1, DeliverySteps, CapacityAssumption
<1> QED
  BY <1>4, <1>5, <1>6, <1>7, <1>8, <1>9 DEF Goroutine

\* Every step preserves the invariant.
LEMMA StepInv == IInv /\ [Next]_vars => IInv'
<1> SUFFICES ASSUME IInv, [Next]_vars PROVE IInv'
  OBVIOUS
<1>1. CASE UNCHANGED vars
  BY <1>1 DEF vars, IInv, TypeOK, TokensAccounted, Quiet, QuietAfterDrain, NewUntouched
<1>2. ASSUME NEW t \in Topics, NEW i \in Ids, Subscribe(t, i) \/ Unsubscribe(t, i)
      PROVE  IInv'
  BY <1>2, SubscriptionSteps DEF IInv, TypeOK, Subscribe, Unsubscribe
<1>3. ASSUME NEW i \in Ids, UnsubscribeAll(i)
      PROVE  IInv'
  BY <1>3, SubscriptionSteps DEF IInv, TypeOK, UnsubscribeAll
<1>4. ASSUME NEW p \in Pubs, CheckStopped(p) \/ Publisher(p)
      PROVE  IInv'
  BY <1>4, PublisherSteps, StartSteps DEF Publisher
<1>5. ASSUME NEW p \in Pubs, NEW i \in Ids, ReturnSync(p, i)
      PROVE  IInv'
  <2>1. <<p, i>> \in Deliveries
    BY DEF Deliveries
  <2> QED
    BY <1>5, <2>1, GoroutineSteps
<1>6. ASSUME NEW d \in Deliveries, Goroutine(d) \/ HandlerReturns(d)
      PROVE  IInv'
  BY <1>6, GoroutineSteps
<1>7. CASE Shutdown
  BY <1>7, ShutdownSteps
<1> QED
  BY <1>1, <1>2, <1>3, <1>4, <1>5, <1>6, <1>7 DEF Next

\* Types of the bus's variables: in particular neither channel ever holds more
\* tokens than its capacity, nor is emptied twice.
THEOREM TypeCorrect == Spec => []TypeOK
<1>1. IInv => TypeOK
  BY DEF IInv
<1> QED
  BY InitInv, StepInv, <1>1, PTL DEF Spec

\* No token of the two semaphores is leaked or returned twice.
THEOREM TokensExact == Spec => []TokensAccounted
<1>1. IInv => TokensAccounted
  BY DEF IInv
<1> QED
  BY InitInv, StepInv, <1>1, PTL DEF Spec

\* A drained bus runs no handler of a publication under the kernel's context.
THEOREM DrainedIsQuiet == Spec => []QuietAfterDrain
<1>1. IInv => QuietAfterDrain
  BY DEF IInv, Quiet
<1> QED
  BY InitInv, StepInv, <1>1, PTL DEF Spec
=============================================================================
