----------------------- MODULE SecureModeAgentProofs ------------------------
(***************************************************************************)
(* Proofs about SecureModeAgent, for every bound on commands, crashes and  *)
(* losses, every threshold and both sources of the agent's key.            *)
(***************************************************************************)
EXTENDS SecureModeAgent, TLAPS

-----------------------------------------------------------------------------
(* The inductive invariant.                                                *)

\* The two files.  Both are there only inside secureMaybeBootstrap and
\* securemode_exit, or after a crash in one of them.
OnDisk ==
    /\ enc.pw = 0 <=> enc.text = "none"
    /\ plain = "none" => enc.pw # 0
    /\ agent = "up" /\ plain # "none" /\ enc.pw # 0 => phase \in {"encrypted", "decrypted"}
    /\ phase \in {"encrypted", "decrypted"} => plain # "none" /\ enc.pw # 0
    /\ phase = "encrypted" => ~locked /\ password = 0

\* A process that does not run, or has no session yet, holds nothing.
AtRest ==
    /\ agent # "up" => link = "none"
    /\ link = "none" => phase = "idle" /\ password = 0 /\ ~reported
    /\ link # "open" => requests = <<>> /\ replies = <<>>

\* A locked agent has reported nothing and has no plaintext to serve.
LockedHolds ==
    agent = "up" /\ locked => ~reported /\ (phase # "decrypted" => plain = "none")

\* A kernel that never crashed is never in run mode without its registry, and
\* the registry on its disk is the one in memory.
KernelNeverLost ==
    kernelCrashes = 0 =>
        /\ kernel # "locked"
        /\ kernel = "run" => registryFile = registry
        /\ kernel \in {"down", "default"} => kernelMarker = "default"

\* Calls and answers alternate until one is owed.
InTurn ==
    ~owed /\ link = "open" => Len(requests) + Len(replies) = IF phase = "wait" THEN 1 ELSE 0

\* What the cycle in progress carries.
Carried ==
    /\ secureReported => phase = "wait" /\ ~reported /\ ~locked
    /\ ~owed /\ phase = "wait" /\ requests # <<>> =>
            (secureReported <=> requests[1].kind = "password")

\* A locked agent has only asked for its password, and what it is told is still true.
AllLocked(rs) == \A i \in 1..Len(rs) : rs[i].kind = "locked"
UnlocksWith(ans, r) == \A i \in 1..Len(ans) : ans[i].kind = "ok" => ans[i].unlock = r
Told ==
    locked => /\ AllLocked(requests)
              /\ secureKernel /\ kernelCrashes = 0 => UnlocksWith(replies, registry)

\* The last report among the requests is that of p; there is none.
Report(p) == [kind |-> "password", pw |-> p]
NoReport(rs) == \A i \in 1..Len(rs) : rs[i].kind # "password"
LastReport(rs, p) ==
    \E i \in 1..Len(rs) : /\ rs[i] = Report(p)
                          /\ \A j \in 1..Len(rs) : j > i => rs[j].kind # "password"

\* Where the report is that an agent has stopped making, or is waiting for.
Reported(rs, r, p) == LastReport(rs, p) \/ (NoReport(rs) /\ r = p)
Refused == ~owed /\ replies # <<>> /\ replies[1].kind = "error"
Registering ==
    secureKernel /\ kernelCrashes = 0 /\ link = "open" /\ (reported \/ secureReported)
        => \/ Reported(requests, registry, password)
           \/ owed /\ password \in strayed
           \/ secureReported /\ Refused

Exchange ==
    /\ OnDisk /\ AtRest /\ LockedHolds /\ KernelNeverLost /\ InTurn /\ Carried /\ Told
    /\ Registering /\ PasswordOpensConfig

-----------------------------------------------------------------------------
(* Queues of calls and answers.                                            *)

LEMMA QueueFacts ==
    ASSUME NEW S, NEW s \in Seq(S)
    PROVE  /\ Len(s) \in Nat
           /\ s # <<>> <=> Len(s) > 0
           /\ \A i \in 1..Len(s) : s[i] \in S
           /\ s # <<>> => /\ Tail(s) \in Seq(S) /\ Len(Tail(s)) = Len(s) - 1
                          /\ Head(s) = s[1] /\ 1 \in 1..Len(s)
                          /\ \A i \in 1..Len(Tail(s)) : i + 1 \in 1..Len(s) /\ Tail(s)[i] = s[i + 1]
  OBVIOUS

LEMMA AppendFacts ==
    ASSUME NEW S, NEW s \in Seq(S), NEW x \in S
    PROVE  /\ Append(s, x) \in Seq(S) /\ Len(Append(s, x)) = Len(s) + 1
           /\ \A i \in 1..Len(s) : Append(s, x)[i] = s[i]
           /\ Append(s, x)[Len(s) + 1] = x
           /\ Append(s, x) # <<>>
  OBVIOUS

LEMMA AppendCall ==
    ASSUME NEW rs \in Seq(Requests), NEW r \in Requests, NEW p
    PROVE  /\ AllLocked(rs) /\ r.kind = "locked" => AllLocked(Append(rs, r))
           /\ NoReport(rs) /\ r.kind # "password" => NoReport(Append(rs, r))
           /\ LastReport(rs, p) /\ r.kind # "password" => LastReport(Append(rs, r), p)
           /\ r = Report(p) => LastReport(Append(rs, r), p)
<1>1. Len(rs) \in Nat /\ \A i \in 1..(Len(rs) + 1) : i \in 1..Len(rs) \/ i = Len(rs) + 1
  BY QueueFacts
<1>2. /\ Len(Append(rs, r)) = Len(rs) + 1 /\ \A i \in 1..Len(rs) : Append(rs, r)[i] = rs[i]
      /\ Append(rs, r)[Len(rs) + 1] = r
  BY AppendFacts
<1>3. AllLocked(rs) /\ r.kind = "locked" => AllLocked(Append(rs, r))
  BY <1>1, <1>2 DEF AllLocked
<1>4. NoReport(rs) /\ r.kind # "password" => NoReport(Append(rs, r))
  BY <1>1, <1>2 DEF NoReport
<1>5. ASSUME LastReport(rs, p), r.kind # "password" PROVE LastReport(Append(rs, r), p)
  <2>1. PICK i \in 1..Len(rs) : rs[i] = Report(p) /\ \A j \in 1..Len(rs) : j > i => rs[j].kind # "password"
    BY <1>5 DEF LastReport
  <2>2. i \in 1..Len(Append(rs, r)) /\ Append(rs, r)[i] = Report(p)
    BY <1>1, <1>2, <2>1
  <2>3. ASSUME NEW j \in 1..Len(Append(rs, r)), j > i PROVE Append(rs, r)[j].kind # "password"
    BY <1>1, <1>2, <1>5, <2>1, <2>3
  <2> QED
    BY <2>2, <2>3 DEF LastReport
<1>6. ASSUME r = Report(p) PROVE LastReport(Append(rs, r), p)
  <2>1. /\ Len(rs) + 1 \in 1..Len(Append(rs, r))
        /\ \A j \in 1..Len(Append(rs, r)) : ~(j > Len(rs) + 1)
    BY <1>1, <1>2
  <2> QED
    BY <1>2, <1>6, <2>1 DEF LastReport
<1> QED
  BY <1>3, <1>4, <1>5, <1>6

LEMMA ServedCall ==
    ASSUME NEW rs \in Seq(Requests), rs # <<>>, NEW p
    PROVE  /\ AllLocked(rs) => AllLocked(Tail(rs)) /\ rs[1].kind = "locked"
           /\ NoReport(rs) => NoReport(Tail(rs)) /\ rs[1].kind # "password"
           /\ LastReport(rs, p) => \/ LastReport(Tail(rs), p)
                                   \/ rs[1] = Report(p) /\ NoReport(Tail(rs))
<1>1. /\ Len(rs) \in Nat /\ Len(Tail(rs)) = Len(rs) - 1 /\ 1 \in 1..Len(rs)
      /\ \A i \in 1..Len(Tail(rs)) : i + 1 \in 1..Len(rs) /\ Tail(rs)[i] = rs[i + 1]
  BY QueueFacts
<1>2. AllLocked(rs) => AllLocked(Tail(rs)) /\ rs[1].kind = "locked"
  BY <1>1 DEF AllLocked
<1>3. NoReport(rs) => NoReport(Tail(rs)) /\ rs[1].kind # "password"
  BY <1>1 DEF NoReport
<1>4. ASSUME LastReport(rs, p)
      PROVE  \/ LastReport(Tail(rs), p)
             \/ rs[1] = Report(p) /\ NoReport(Tail(rs))
  <2>1. PICK i \in 1..Len(rs) : rs[i] = Report(p) /\ \A j \in 1..Len(rs) : j > i => rs[j].kind # "password"
    BY <1>4 DEF LastReport
  <2>2. CASE i = 1
    <3>1. \A j \in 1..Len(Tail(rs)) : j + 1 > i
      BY <1>1, <2>2
    <3> QED
      BY <1>1, <2>1, <2>2, <3>1 DEF NoReport
  <2>3. CASE i # 1
    <3>1. i - 1 \in 1..Len(Tail(rs)) /\ (i - 1) + 1 = i
      BY <1>1, <2>3
    <3>2. Tail(rs)[i - 1] = Report(p)
      BY <1>1, <2>1, <3>1
    <3>3. ASSUME NEW j \in 1..Len(Tail(rs)), j > i - 1 PROVE Tail(rs)[j].kind # "password"
      <4>1. j + 1 > i
        BY <1>1, <3>3
      <4> QED
        BY <1>1, <2>1, <4>1
    <3> QED
      BY <3>1, <3>2, <3>3 DEF LastReport
  <2> QED
    BY <2>2, <2>3
<1> QED
  BY <1>2, <1>3, <1>4

LEMMA UpTo ==
    ASSUME NEW n \in Nat
    PROVE  \A i \in 1..(n + 1) : i \in 1..n \/ i = n + 1
  OBVIOUS

LEMMA AnsweredCall ==
    ASSUME NEW ans \in Seq(Responses), NEW r
    PROVE  /\ \A a \in Responses : UnlocksWith(ans, r) /\ (a.kind = "ok" => a.unlock = r)
                                  => UnlocksWith(Append(ans, a), r)
           /\ ans # <<>> /\ UnlocksWith(ans, r) => UnlocksWith(Tail(ans), r)
           /\ ans # <<>> /\ UnlocksWith(ans, r) /\ Head(ans).kind = "ok" => Head(ans).unlock = r
<1>0. Len(ans) \in Nat
  BY QueueFacts
<1>1. \A i \in 1..(Len(ans) + 1) : i \in 1..Len(ans) \/ i = Len(ans) + 1
  BY <1>0, UpTo
<1>2. ASSUME NEW a \in Responses, UnlocksWith(ans, r), a.kind = "ok" => a.unlock = r
      PROVE  UnlocksWith(Append(ans, a), r)
  <2>1. /\ Len(Append(ans, a)) = Len(ans) + 1 /\ \A i \in 1..Len(ans) : Append(ans, a)[i] = ans[i]
        /\ Append(ans, a)[Len(ans) + 1] = a
    BY AppendFacts
  <2> QED
    BY <1>0, <1>1, <1>2, <2>1 DEF UnlocksWith
<1>3. ASSUME ans # <<>>, UnlocksWith(ans, r)
      PROVE  UnlocksWith(Tail(ans), r) /\ (Head(ans).kind = "ok" => Head(ans).unlock = r)
  <2>1. /\ Head(ans) = ans[1] /\ 1 \in 1..Len(ans)
        /\ \A i \in 1..Len(Tail(ans)) : i + 1 \in 1..Len(ans) /\ Tail(ans)[i] = ans[i + 1]
    BY <1>3, QueueFacts
  <2> QED
    BY <1>3, <2>1 DEF UnlocksWith
<1> QED
  BY <1>2, <1>3

\* No requests and no answers.
LEMMA EmptyFacts ==
    /\ <<>> \in Seq(Requests) /\ <<>> \in Seq(Responses)
    /\ AllLocked(<<>>) /\ NoReport(<<>>)
    /\ \A r : UnlocksWith(<<>>, r)
    /\ \A p : ~LastReport(<<>>, p)
    /\ Len(<<>>) = 0
  BY DEF AllLocked, NoReport, UnlocksWith, LastReport

-----------------------------------------------------------------------------
(* Types.                                                                  *)

\* The records of files and messages.
LEMMA RecordFacts ==
    /\ NoEnc \in EncFiles /\ Refusal \in Responses
    /\ \A p \in Passwords, t \in Texts : [pw |-> p, text |-> t] \in EncFiles
    /\ \A f \in EncFiles : f.pw \in Passwords /\ f.text \in Texts
    /\ \A f \in EncFiles, p \in Passwords : [f EXCEPT !.pw = p] = [pw |-> p, text |-> f.text]
    /\ \A k \in {"locked", "password", "nil"}, p \in Passwords :
            [kind |-> k, pw |-> p] \in Requests
    /\ \A r \in Requests : r.pw \in Passwords
    /\ \A r \in Responses : r.unlock \in Passwords /\ r.cmds \subseteq Command
    /\ \A u \in Passwords, b \in BOOLEAN, c \in SUBSET Command :
            [kind |-> "ok", unlock |-> u, noSecret |-> b, cmds |-> c] \in Responses
    /\ \A k \in {"enter", "exit", "rotate"}, p \in Passwords : [cmd |-> k, pw |-> p] \in Command
    /\ 0 \in Passwords
    /\ \A n \in Passwords : n + 1 \in Passwords /\ n + 1 # 0
  BY DEF NoEnc, Refusal, EncFiles, Requests, Responses, Command, Passwords, Texts

\* Both processes start down, with the config in plaintext.
LEMMA InitTyped == Init => TypeOK /\ Exchange
<1> SUFFICES ASSUME Init PROVE TypeOK /\ Exchange
  OBVIOUS
<1>1. TypeOK
  <2>1. plain \in Texts /\ enc \in EncFiles /\ requests \in Seq(Requests)
        /\ replies \in Seq(Responses)
    BY RecordFacts, EmptyFacts DEF Init, Texts
  <2>2. /\ password \in Passwords /\ registry \in Passwords /\ registryFile \in Passwords
        /\ noUnlockCount \in Nat /\ nextPw \in Passwords \ {0}
        /\ issued \in 0..MaxCommands /\ losses \in 0..MaxLosses
        /\ agentCrashes \in 0..MaxAgentCrashes /\ kernelCrashes \in 0..MaxKernelCrashes
    BY AgentAssumption DEF Init, Passwords
  <2> QED
    BY <2>1, <2>2 DEF Init, TypeOK
<1>2. Exchange
  BY EmptyFacts
     DEF Init, Exchange, OnDisk, AtRest, LockedHolds, KernelNeverLost, InTurn, Carried, Told,
         Registering, PasswordOpensConfig, NoEnc
<1> QED
  BY <1>1, <1>2

-----------------------------------------------------------------------------
(* One step keeps the types.                                               *)

\* A command, and secureMaybeBootstrap, generate at most one password.
LEMMA CommandTyped ==
    ASSUME TypeOK, NEW c \in Command, UNCHANGED <<locked, noUnlockCount>>,
           \/ UNCHANGED <<agentDisk, phase, agentSecure, nextPw>>
           \/ CommandEnter(c)
           \/ CommandExit(c)
           \/ CommandRotate(c)
           \/ Encrypt
    PROVE  /\ plain' \in Texts /\ enc' \in EncFiles
           /\ phase' \in {"idle", "exec", "encrypted", "decrypted", "wait"}
           /\ password' \in Passwords /\ reported' \in BOOLEAN
           /\ nextPw' \in Passwords \ {0}
<1>0. nextPw \in Passwords /\ nextPw + 1 \in Passwords \ {0} /\ enc.text \in Texts
  BY RecordFacts DEF TypeOK
<1>1. CASE UNCHANGED <<agentDisk, phase, agentSecure, nextPw>>
  BY <1>1 DEF TypeOK, agentDisk, agentSecure
<1>2. CASE Encrypt
  BY <1>0, <1>2, RecordFacts DEF TypeOK, Encrypt, agentSecure
<1>3. CASE CommandEnter(c)
  BY <1>1, <1>2, <1>3 DEF CommandEnter
<1>4. CASE CommandExit(c)
  BY <1>0, <1>4 DEF TypeOK, CommandExit, agentSecure
<1>5. CASE CommandRotate(c)
  <2>1. CASE enc.pw # 0 /\ enc.pw = c.pw
    <3>1. enc' = [pw |-> nextPw, text |-> enc.text]
      BY <1>0, <1>5, <2>1, RecordFacts DEF TypeOK, CommandRotate
    <3>2. enc' \in EncFiles
      BY <1>0, <3>1, RecordFacts
    <3> QED
      BY <1>0, <1>5, <2>1, <3>2 DEF TypeOK, CommandRotate
  <2>2. CASE ~(enc.pw # 0 /\ enc.pw = c.pw)
    BY <1>5, <2>2 DEF TypeOK, CommandRotate
  <2> QED
    BY <2>1, <2>2
<1> QED
  BY <1>1, <1>2, <1>3, <1>4, <1>5

\* The first of a queue.
LEMMA FirstFacts ==
    ASSUME TypeOK
    PROVE  /\ requests # <<>> => request \in Requests /\ request = requests[1]
           /\ replies # <<>> => resp \in Responses /\ resp = replies[1]
  BY QueueFacts DEF TypeOK, request, resp

\* A process that ends, a call that fails and what is lost.
LEMMA EndTyped ==
    ASSUME AgentEnds
    PROVE  /\ agent' \in {"down", "up", "refused"} /\ link' \in {"none", "open", "broken"}
           /\ phase' \in {"idle", "exec", "encrypted", "decrypted", "wait"}
           /\ secureReported' \in BOOLEAN /\ errors' \in Nat /\ password' \in Passwords
           /\ reported' \in BOOLEAN /\ locked' \in BOOLEAN /\ noUnlockCount' \in Nat
           /\ pendingCmd' \subseteq Command /\ hmacKey' \in BOOLEAN /\ owed' \in BOOLEAN
           /\ requests' \in Seq(Requests) /\ replies' \in Seq(Responses)
  BY EmptyFacts, RecordFacts DEF AgentEnds

LEMMA FailureTyped ==
    ASSUME TypeOK, NEW rest \in Seq(Responses), NEW late \in BOOLEAN, CycleFails(rest, late)
    PROVE  /\ agent' \in {"down", "up", "refused"} /\ link' \in {"none", "open", "broken"}
           /\ phase' \in {"idle", "exec", "encrypted", "decrypted", "wait"}
           /\ secureReported' \in BOOLEAN /\ errors' \in Nat /\ password' \in Passwords
           /\ reported' \in BOOLEAN /\ locked' \in BOOLEAN /\ noUnlockCount' \in Nat
           /\ pendingCmd' \subseteq Command /\ hmacKey' \in BOOLEAN /\ owed' \in BOOLEAN
           /\ requests' \in Seq(Requests) /\ replies' \in Seq(Responses)
<1>1. CASE AgentEnds
  BY <1>1, EndTyped
<1>2. CASE ~AgentEnds
  <2>1. errors' = errors + 1 /\ errors \in Nat
    BY <1>2 DEF CycleFails, TypeOK
  <2>2. errors' \in Nat
    BY <2>1
  <2> QED
    BY <1>2, <2>2 DEF CycleFails, TypeOK, agentSecure
<1> QED
  BY <1>1, <1>2

LEMMA StraysTyped ==
    ASSUME TypeOK, NEW rs \in Seq(Requests), Strays(rs)
    PROVE  strayed' \subseteq Passwords
<1>1. \A i \in DOMAIN rs : rs[i] \in Requests /\ rs[i].pw \in Passwords
  BY QueueFacts, RecordFacts
<1> QED
  BY <1>1 DEF Strays, TypeOK

\* The response to a locked agent, and to an unlocked one.
LEMMA ResponseTyped ==
    ASSUME TypeOK, replies # <<>>, HandleLocked \/ HandleUnlocked
    PROVE  /\ enc' \in EncFiles /\ nextPw' \in Passwords \ {0} /\ password' \in Passwords
           /\ reported' \in BOOLEAN /\ locked' \in BOOLEAN /\ hmacKey' \in BOOLEAN
           /\ noUnlockCount' \in Nat
<1>0. /\ nextPw \in Passwords /\ nextPw + 1 \in Passwords \ {0} /\ "minimal" \in Texts
      /\ resp.unlock \in Passwords
      /\ noUnlockCount + 1 \in Nat /\ 0 \in Nat /\ MaxNoUnlock \in Nat
  <2>1. resp \in Responses
    BY FirstFacts
  <2>2. resp.unlock \in Passwords
    BY <2>1, RecordFacts
  <2>3. noUnlockCount + 1 \in Nat /\ 0 \in Nat /\ MaxNoUnlock \in Nat
    BY AgentAssumption DEF TypeOK
  <2>4. nextPw \in Passwords /\ nextPw + 1 \in Passwords \ {0} /\ "minimal" \in Texts
    BY RecordFacts DEF TypeOK, Texts
  <2> QED
    BY <2>2, <2>3, <2>4
<1>1. CASE resp.unlock # 0 /\ ApplyUnlock
  BY <1>0, <1>1, ZenonT(30) DEF TypeOK, ApplyUnlock
<1>2. CASE SelfRecover
  BY <1>0, <1>2, RecordFacts DEF TypeOK, SelfRecover
<1>3. CASE /\ UNCHANGED <<enc, nextPw, password, reported, locked, hmacKey>>
           /\ noUnlockCount' = Misses
  BY <1>0, <1>3 DEF TypeOK, Misses
<1>4. CASE HandleUnlocked
  BY <1>4 DEF TypeOK, HandleUnlocked
<1> QED
  BY <1>1, <1>2, <1>3, <1>4 DEF HandleLocked

\* Every step keeps the types.
LEMMA StepTyped == TypeOK /\ [Next]_vars => TypeOK'
<1> SUFFICES ASSUME TypeOK, [Next]_vars PROVE TypeOK'
  OBVIOUS
<1> USE DEF agentDisk, cycle, agentSecure, network, kernelVars, budget, history
<1>1. CASE AgentStart
  <2>1. hmacKey' \in BOOLEAN /\ locked' \in BOOLEAN /\ agent' \in {"down", "up", "refused"}
    BY <1>1, AgentAssumption DEF TypeOK, AgentStart
  <2> QED
    BY <1>1, <2>1 DEF TypeOK, AgentStart
<1>2. CASE AgentCrash
  <2>1. agentCrashes' \in 0..MaxAgentCrashes /\ 0 \in Nat /\ 0 \in Passwords
    BY <1>2, AgentAssumption DEF TypeOK, AgentCrash, Passwords
  <2>2. AgentEnds
    BY <1>2 DEF AgentCrash
  <2> QED
    BY <1>2, <2>1, <2>2, EndTyped DEF TypeOK, AgentCrash
<1>3. CASE OpenSession
  BY <1>3 DEF TypeOK, OpenSession
<1>17. CASE StartCycle
  BY <1>17 DEF TypeOK, StartCycle
<1>4. CASE RemovePlaintext
  <2>1. "none" \in Texts /\ password' \in Passwords
    BY <1>4, RecordFacts DEF TypeOK, RemovePlaintext, Texts
  <2> QED
    BY <1>4, <2>1 DEF TypeOK, RemovePlaintext
<1>18. CASE RemoveCiphertext
  <2>1. enc' \in EncFiles /\ password' \in Passwords
    BY <1>18, RecordFacts DEF RemoveCiphertext
  <2> QED
    BY <1>18, <2>1 DEF TypeOK, RemoveCiphertext
<1>5. CASE ExecuteCommand
  <2>1. PICK c \in pendingCmd :
            /\ pendingCmd' = pendingCmd \ {c}
            /\ \/ UNCHANGED <<agentDisk, phase, agentSecure, nextPw>>
               \/ hmacKey /\ CommandEnter(c)
               \/ hmacKey /\ CommandExit(c)
               \/ hmacKey /\ CommandRotate(c)
    BY <1>5 DEF ExecuteCommand
  <2>2. c \in Command /\ pendingCmd' \subseteq Command
    BY <2>1 DEF TypeOK
  <2>3. UNCHANGED <<locked, noUnlockCount>>
    BY <2>1 DEF CommandEnter, CommandExit, CommandRotate, Encrypt
  <2>4. /\ plain' \in Texts /\ enc' \in EncFiles
        /\ phase' \in {"idle", "exec", "encrypted", "decrypted", "wait"}
        /\ password' \in Passwords /\ reported' \in BOOLEAN /\ nextPw' \in Passwords \ {0}
    BY <2>1, <2>2, <2>3, CommandTyped
  <2> QED
    BY <1>5, <2>2, <2>3, <2>4 DEF TypeOK, ExecuteCommand
<1>6. CASE SecureMaybeBootstrap
  <2>1. nextPw \in Passwords /\ nextPw + 1 \in Passwords \ {0}
    BY RecordFacts DEF TypeOK
  <2> QED
    BY <1>6, <2>1, RecordFacts DEF TypeOK, SecureMaybeBootstrap, Encrypt
<1>7. CASE SendHeartbeat
  <2>1. PICK r \in Requests : Call(r)
    BY <1>7, RecordFacts DEF TypeOK, SendHeartbeat
  <2>2. requests' \in Seq(Requests)
    BY <2>1, AppendFacts DEF TypeOK, Call
  <2> QED
    BY <2>1, <2>2 DEF TypeOK, Call
<1>8. CASE HeartbeatError \/ HeartbeatTimeout
  <2>1. losses' \in 0..MaxLosses
    <3>1. CASE HeartbeatError
      BY <3>1 DEF TypeOK, HeartbeatError
    <3>2. CASE HeartbeatTimeout
      BY <3>2, AgentAssumption DEF TypeOK, HeartbeatTimeout
    <3> QED
      BY <1>8, <3>1, <3>2
  <2>2. PICK rest \in Seq(Responses), late \in BOOLEAN : CycleFails(rest, late)
    <3>1. replies \in Seq(Responses) /\ owed \in BOOLEAN /\ TRUE \in BOOLEAN
          /\ (replies # <<>> => Tail(replies) \in Seq(Responses))
      BY QueueFacts DEF TypeOK
    <3>2. \/ CycleFails(replies, owed) \/ CycleFails(replies, TRUE)
          \/ replies # <<>> /\ CycleFails(Tail(replies), owed)
      BY <1>8 DEF HeartbeatError, HeartbeatTimeout
    <3> QED
      BY <3>1, <3>2
  <2> QED
    BY <1>8, <2>1, <2>2, FailureTyped DEF TypeOK, HeartbeatError, HeartbeatTimeout
<1>9. CASE ReceiveResponse
  <2>1. HandleLocked \/ HandleUnlocked
    BY <1>9 DEF ReceiveResponse
  <2>2. pendingCmd' \subseteq Command
    BY <1>9, RecordFacts, FirstFacts DEF TypeOK, ReceiveResponse
  <2>3. replies' \in Seq(Responses) /\ replies # <<>>
    BY <1>9, QueueFacts DEF TypeOK, ReceiveResponse
  <2> QED
    BY <1>9, <2>1, <2>2, <2>3, ResponseTyped, RecordFacts DEF TypeOK, ReceiveResponse
<1>10. CASE KernelHeartbeat
  <2>1. PICK a \in Responses : Answer(a)
    BY <1>10, RecordFacts DEF TypeOK, KernelHeartbeat
  <2>2. requests' \in Seq(Requests) /\ replies' \in Seq(Responses)
    BY <1>10, <2>1, QueueFacts, AppendFacts DEF TypeOK, KernelHeartbeat, ToAnswer, Answer
  <2>3. registry' \in Passwords /\ registryFile' \in Passwords
    BY <1>10, RecordFacts, FirstFacts DEF TypeOK, KernelHeartbeat, ToAnswer
  <2> QED
    BY <1>10, <2>1, <2>2, <2>3 DEF TypeOK, KernelHeartbeat, Answer
<1>15. CASE RefuseHeartbeat
  <2>1. requests' \in Seq(Requests) /\ replies' \in Seq(Responses)
    BY <1>15, RecordFacts, QueueFacts, AppendFacts DEF TypeOK, RefuseHeartbeat, ToAnswer, Answer
  <2>2. losses' \in 0..MaxLosses
    BY <1>15, AgentAssumption DEF TypeOK, RefuseHeartbeat
  <2>3. strayed' \subseteq Passwords
    <3>1. <<request>> \in Seq(Requests)
      BY <1>15, FirstFacts DEF TypeOK, RefuseHeartbeat, ToAnswer
    <3> QED
      BY <1>15, <3>1, StraysTyped DEF TypeOK, RefuseHeartbeat
  <2> QED
    BY <1>15, <2>1, <2>2, <2>3 DEF TypeOK, RefuseHeartbeat, Answer
<1>16. CASE LinkBreaks
  <2>1. losses' \in 0..MaxLosses
    BY <1>16, AgentAssumption DEF TypeOK, LinkBreaks
  <2>2. strayed' \subseteq Passwords
    BY <1>16, StraysTyped DEF TypeOK, LinkBreaks
  <2> QED
    BY <1>16, <2>1, <2>2, EmptyFacts DEF TypeOK, LinkBreaks
<1>11. ASSUME NEW cmd \in {"enter", "exit", "rotate"}, EnqueueCommand(cmd) PROVE TypeOK'
  <2>1. commands' \subseteq Command
    BY <1>11, RecordFacts DEF TypeOK, EnqueueCommand
  <2>2. issued' \in 0..MaxCommands
    BY <1>11, AgentAssumption DEF TypeOK, EnqueueCommand
  <2> QED
    BY <1>11, <2>1, <2>2 DEF TypeOK, EnqueueCommand
<1>12. CASE KernelEnterRun \/ KernelExitRun \/ KernelUnlock \/ KernelStart
  BY <1>12, RecordFacts
     DEF TypeOK, KernelEnterRun, KernelExitRun, KernelUnlock, KernelStart
<1>13. CASE KernelCrash
  <2>1. kernelCrashes' \in 0..MaxKernelCrashes
    BY <1>13, AgentAssumption DEF TypeOK, KernelCrash
  <2> QED
    BY <1>13, <2>1, RecordFacts, EmptyFacts DEF TypeOK, KernelCrash
<1>14. CASE UNCHANGED vars
  BY <1>14 DEF TypeOK, vars
<1> QED
  BY <1>1, <1>2, <1>3, <1>4, <1>5, <1>6, <1>7, <1>8, <1>9, <1>10, <1>11, <1>12,
     <1>13, <1>14, <1>15, <1>16, <1>17, <1>18
    DEF Next, AgentStep

-----------------------------------------------------------------------------
(* One step keeps the exchange.                                            *)

\* What the messages say.
LEMMA MessageFacts ==
    /\ NoEnc.pw = 0 /\ NoEnc.text = "none" /\ Refusal.kind = "error"
    /\ \A p, t : [pw |-> p, text |-> t].pw = p /\ [pw |-> p, text |-> t].text = t
    /\ \A k, p : [kind |-> k, pw |-> p].kind = k /\ [kind |-> k, pw |-> p].pw = p
  BY DEF NoEnc, Refusal

\* The files, and what the processes hold of them.
Files == OnDisk /\ AtRest /\ LockedHolds /\ KernelNeverLost /\ PasswordOpensConfig
Queues == InTurn /\ Carried /\ Told /\ Registering

\* The end of a process leaves its files as they are.
LEMMA EndKeeps ==
    ASSUME Exchange, AgentEnds, agent = "up", UNCHANGED <<agentDisk, kernelVars, kernelCrashes>>
    PROVE  Exchange'
<1>1. Files'
  BY DEF AgentEnds, Exchange, Files, OnDisk, AtRest, LockedHolds, KernelNeverLost,
         PasswordOpensConfig, agentDisk, kernelVars
<1>2. Queues'
  BY EmptyFacts DEF AgentEnds, Queues, InTurn, Carried, Told, Registering
<1> QED
  BY <1>1, <1>2 DEF Files, Queues, Exchange

\* A step of the agent that neither calls nor hears keeps the queues, unless it has a
\* password to report.
LEMMA QueuesAside ==
    ASSUME Exchange, UNCHANGED <<network, owed, strayed, secureKernel, kernelCrashes, registry>>,
           UNCHANGED secureReported, phase' = "wait" <=> phase = "wait",
           locked' => locked \/ link = "none", ~secureReported \/ (~reported' /\ ~locked'),
           reported' => reported, UNCHANGED password \/ (~reported' /\ ~secureReported)
    PROVE  Queues'
<1> USE DEF network
<1>1. InTurn' /\ Carried'
  BY DEF Exchange, InTurn, Carried
<1>2. Told'
  <2>1. CASE locked
    BY <2>1 DEF Exchange, Told
  <2>2. CASE link = "none"
    BY <2>2, EmptyFacts DEF Exchange, AtRest, Told
  <2> QED
    BY <2>1, <2>2 DEF Told
<1>3. Registering'
  BY DEF Exchange, Registering, Refused
<1> QED
  BY <1>1, <1>2, <1>3 DEF Queues

\* EncryptFile runs when there is no other ciphertext.
LEMMA BootstrapKeeps ==
    ASSUME TypeOK, Exchange, agent = "up", phase = "exec", NeedsBootstrap, Encrypt,
           UNCHANGED <<agent, secureReported, errors, hmacKey, network, kernelVars, budget, history>>
    PROVE  Exchange'
<1> USE DEF agentSecure, network, kernelVars, budget, history
<1>1. enc'.pw = nextPw /\ enc'.text = plain /\ nextPw # 0
  BY MessageFacts DEF Encrypt, TypeOK
<1>2. Files'
  BY <1>1 DEF NeedsBootstrap, Encrypt, Exchange, Files, OnDisk, AtRest, LockedHolds,
     KernelNeverLost, PasswordOpensConfig
<1>3. Queues'
  <2>1. ~secureReported
    BY DEF Exchange, Carried
  <2> QED
    BY <2>1, QueuesAside DEF Encrypt
<1> QED
  BY <1>2, <1>3 DEF Exchange, Files, Queues

\* A rotation changes the password of the ciphertext and the one in memory.
LEMMA RotationKeeps ==
    ASSUME TypeOK, Exchange, agent = "up", phase = "exec", NEW c, CommandRotate(c),
           UNCHANGED <<agent, secureReported, errors, hmacKey, network, kernelVars, budget, history>>
    PROVE  Exchange'
<1> USE DEF agentSecure, network, kernelVars, budget, history
<1>1. \/ /\ enc'.pw = nextPw /\ enc'.text = enc.text /\ nextPw # 0 /\ enc.pw # 0
         /\ password' = nextPw /\ reported' = FALSE
      \/ UNCHANGED <<enc, password, reported, nextPw>>
  <2>1. /\ nextPw \in Passwords \ {0} /\ enc \in EncFiles
        /\ [enc EXCEPT !.pw = nextPw] = [pw |-> nextPw, text |-> enc.text]
    BY RecordFacts DEF TypeOK
  <2> QED
    BY <2>1, MessageFacts DEF CommandRotate
<1>2. Files'
  <2>1. link # "none"
    BY DEF Exchange, AtRest
  <2> QED
    BY <1>1, <2>1 DEF CommandRotate, Exchange, Files, OnDisk, AtRest, LockedHolds,
       KernelNeverLost, PasswordOpensConfig
<1>3. Queues'
  <2>1. ~secureReported
    BY DEF Exchange, Carried
  <2> QED
    BY <1>1, <2>1, QueuesAside DEF CommandRotate
<1> QED
  BY <1>2, <1>3 DEF Exchange, Files, Queues

\* What a locked agent does with its response: unlocked with what opens its
\* config, recovered over it, or locked as before.
LEMMA LockedKeeps ==
    ASSUME TypeOK, Exchange, ReceiveResponse, locked, HandleLocked
    PROVE  Exchange'
<1> USE DEF network, kernelVars, budget, history
<1>1. /\ agent = "up" /\ plain = "none" /\ ~reported /\ enc.pw # 0 /\ plain' = plain
      /\ phase = "wait" /\ phase' = "idle" /\ secureReported' = FALSE
      /\ UNCHANGED <<agent, link, requests, kernelVars, budget, history>>
      /\ replies # <<>> /\ replies' = Tail(replies)
  BY DEF ReceiveResponse, Exchange, LockedHolds, OnDisk
<1>2. \/ enc' = enc /\ password' = enc.pw /\ reported' = FALSE /\ locked' = FALSE
      \/ /\ enc'.pw = nextPw /\ enc'.text = "minimal" /\ nextPw # 0 /\ password' = nextPw
         /\ reported' = FALSE /\ locked' = FALSE
      \/ UNCHANGED <<enc, password, reported, locked>>
  <2>1. nextPw # 0
    BY DEF TypeOK
  <2>2. CASE resp.unlock # 0 /\ ApplyUnlock
    BY <2>2 DEF ApplyUnlock
  <2>3. CASE SelfRecover
    BY <2>1, <2>3, MessageFacts DEF SelfRecover
  <2> QED
    BY <2>2, <2>3 DEF HandleLocked
<1>3. ~reported'
  BY <1>1, <1>2
<1>4. link = "open"
  BY <1>1 DEF Exchange, AtRest
<1>5. OnDisk' /\ PasswordOpensConfig'
  BY <1>1, <1>2 DEF Exchange, OnDisk, PasswordOpensConfig
<1>6. AtRest' /\ LockedHolds' /\ KernelNeverLost'
  BY <1>1, <1>3, <1>4 DEF Exchange, AtRest, LockedHolds, KernelNeverLost
<1>7. InTurn' /\ Carried'
  <2>1. Len(requests) \in Nat /\ Len(replies) \in Nat /\ Len(replies') = Len(replies) - 1
    BY <1>1, QueueFacts DEF TypeOK
  <2> QED
    BY <1>1, <2>1 DEF Exchange, InTurn, Carried
<1>8. Told'
  BY <1>1, <1>2, AnsweredCall DEF TypeOK, Exchange, Told
<1>9. Registering'
  BY <1>1, <1>3 DEF Registering
<1> QED
  BY <1>5, <1>6, <1>7, <1>8, <1>9 DEF Exchange

\* The answer to an unlocked agent, its own or one that was owed.
LEMMA UnlockedKeeps ==
    ASSUME TypeOK, Exchange, ReceiveResponse, ~locked, HandleUnlocked
    PROVE  Exchange'
<1> USE DEF network, kernelVars, budget, history
<1>1. /\ agent = "up" /\ phase = "wait" /\ phase' = "idle" /\ secureReported' = FALSE
      /\ UNCHANGED <<agent, plain, enc, link, requests, kernelVars, budget, history>>
      /\ UNCHANGED <<password, locked>>
      /\ replies # <<>> /\ replies' = Tail(replies) /\ replies[1].kind = "ok"
  BY FirstFacts DEF ReceiveResponse, HandleUnlocked
<1>2. reported' => reported \/ secureReported
  BY DEF HandleUnlocked
<1>3. link = "open"
  BY <1>1 DEF Exchange, AtRest
<1>4. Files'
  BY <1>1, <1>3 DEF Exchange, Files, OnDisk, AtRest, LockedHolds, KernelNeverLost, PasswordOpensConfig
<1>5. InTurn' /\ Carried'
  <2>1. Len(requests) \in Nat /\ Len(replies) \in Nat /\ Len(replies') = Len(replies) - 1
    BY <1>1, QueueFacts DEF TypeOK
  <2> QED
    BY <1>1, <2>1 DEF Exchange, InTurn, Carried
<1>6. Told'
  BY <1>1 DEF Told
<1>7. Registering'
  <2>1. ~Refused
    BY <1>1 DEF Refused
  <2> QED
    BY <1>1, <1>2, <2>1 DEF Exchange, Registering
<1> QED
  BY <1>4, <1>5, <1>6, <1>7 DEF Exchange, Files

\* A call on an open connection, or on a broken one.
LEMMA CallKeeps ==
    ASSUME TypeOK, Exchange, SendHeartbeat
    PROVE  Exchange'
<1> USE DEF agentDisk, agentSecure, kernelVars, budget, history
<1>1. PICK r \in Requests :
          /\ Call(r)
          /\ locked => r.kind = "locked"
          /\ r.kind = "password" => ~locked /\ ~reported /\ r = Report(password)
          /\ ~locked => r.kind # "locked"
  <2>1. /\ [kind |-> "locked", pw |-> 0] \in Requests /\ [kind |-> "nil", pw |-> 0] \in Requests
        /\ [kind |-> "password", pw |-> password] \in Requests
    BY RecordFacts DEF TypeOK
  <2>2. CASE locked
    BY <2>1, <2>2, MessageFacts DEF SendHeartbeat
  <2>3. CASE ~locked /\ (password = 0 \/ reported)
    BY <2>1, <2>3, MessageFacts DEF SendHeartbeat
  <2>4. CASE ~locked /\ ~(password = 0 \/ reported)
    BY <2>1, <2>4, MessageFacts DEF SendHeartbeat, Report
  <2> QED
    BY <2>2, <2>3, <2>4
<1>2. /\ agent = "up" /\ phase = "exec" /\ phase' = "wait" /\ link # "none" /\ ~secureReported
      /\ secureReported' = (r.kind = "password")
      /\ UNCHANGED <<agentDisk, agent, agentSecure, link, replies, kernelVars, budget, history>>
  BY <1>1 DEF SendHeartbeat, Call, Exchange, AtRest, Carried
<1>3. Files'
  BY <1>1, <1>2 DEF Exchange, Files, OnDisk, AtRest, LockedHolds, KernelNeverLost,
     PasswordOpensConfig, Call
<1>4. CASE link # "open"
  <2>1. requests' = requests /\ requests = <<>>
    BY <1>1, <1>2, <1>4 DEF Call, Exchange, AtRest
  <2> QED
    BY <1>1, <1>2, <1>3, <1>4, <2>1 DEF Exchange, Files, InTurn, Carried, Told, Registering
<1>5. CASE link = "open"
  <2>1. requests' = Append(requests, r)
    BY <1>1, <1>5 DEF Call
  <2>2. /\ requests \in Seq(Requests) /\ requests' # <<>> /\ Len(requests) \in Nat
        /\ Len(replies) \in Nat /\ Len(requests') = Len(requests) + 1
        /\ \A i \in 1..Len(requests) : requests'[i] = requests[i]
        /\ requests'[Len(requests) + 1] = r
    BY <2>1, AppendFacts, QueueFacts DEF TypeOK
  <2>3. InTurn'
    BY <1>2, <1>5, <2>2 DEF Exchange, InTurn
  <2>4. Carried'
    <3>1. ~owed => Len(requests) = 0
      BY <1>2, <1>5, <2>2 DEF Exchange, InTurn
    <3>2. ~owed => requests'[1] = r
      BY <2>2, <3>1
    <3>3. secureReported' => ~reported' /\ ~locked'
      BY <1>1, <1>2
    <3> QED
      BY <1>2, <3>2, <3>3 DEF Carried
  <2>5. Told'
    BY <1>1, <1>2, <2>1, <2>2, AppendCall DEF Exchange, Told
  <2>6. Registering'
    <3>1. CASE r.kind = "password"
      <4>1. LastReport(requests', password)
        BY <1>1, <2>1, <2>2, <3>1, AppendCall
      <4> QED
        BY <1>2, <4>1 DEF Registering, Reported
    <3>2. CASE r.kind # "password"
      <4>1. Reported(requests, registry, password) => Reported(requests', registry, password)
        BY <2>1, <2>2, <3>2, AppendCall DEF Reported
      <4> QED
        BY <1>2, <3>2, <4>1 DEF Exchange, Registering
    <3> QED
      BY <3>1, <3>2
  <2> QED
    BY <1>3, <2>3, <2>4, <2>5, <2>6 DEF Exchange, Files
<1> QED
  BY <1>4, <1>5

\* A call that fails, with an answer or without.
LEMMA FailureKeeps ==
    ASSUME TypeOK, Exchange, HeartbeatError \/ HeartbeatTimeout
    PROVE  Exchange'
<1> USE DEF agentDisk, agentSecure, kernelVars, budget, history
<1>1. /\ agent = "up" /\ phase = "wait"
      /\ UNCHANGED <<agentDisk, kernelVars, nextPw, kernelCrashes, strayed>>
  BY DEF HeartbeatError, HeartbeatTimeout
<1>2. PICK rest, late :
         /\ CycleFails(rest, late)
         /\ \/ link = "broken" /\ rest = replies /\ late = owed
            \/ replies # <<>> /\ rest = Tail(replies) /\ late = owed
            \/ replies = <<>> /\ rest = replies /\ late = TRUE
  BY DEF HeartbeatError, HeartbeatTimeout
<1>3. CASE AgentEnds
  BY <1>1, <1>3, EndKeeps
<1>4. CASE ~AgentEnds
  <2>1. /\ phase' = "idle" /\ secureReported' = FALSE /\ replies' = rest /\ owed' = late
        /\ UNCHANGED <<agent, agentSecure, link, requests>>
    BY <1>2, <1>4 DEF CycleFails
  <2>2. link # "none"
    BY <1>1 DEF Exchange, AtRest
  <2>3. link = "broken" => replies = <<>> /\ replies' = <<>> /\ requests = <<>>
    BY <1>2, <2>1 DEF Exchange, AtRest
  <2>8. AtRest'
    BY <1>1, <2>1, <2>2, <2>3 DEF TypeOK, AtRest
  <2>4. Files'
    BY <1>1, <2>1, <2>2, <2>8 DEF Exchange, Files, OnDisk, AtRest, LockedHolds, KernelNeverLost,
       PasswordOpensConfig
  <2>5. InTurn' /\ Carried'
    <3>1. Len(requests) \in Nat /\ Len(replies) \in Nat
          /\ (replies # <<>> => Len(Tail(replies)) = Len(replies) - 1)
      BY QueueFacts DEF TypeOK
    <3> QED
      BY <1>1, <1>2, <2>1, <2>2, <2>3, <3>1 DEF Exchange, InTurn, Carried
  <2>6. Told'
    <3>1. UnlocksWith(replies, registry) => UnlocksWith(replies', registry)
      BY <1>2, <2>1, AnsweredCall DEF TypeOK
    <3> QED
      BY <1>1, <2>1, <3>1 DEF Exchange, Told
  <2>7. Registering'
    <3>1. reported => ~secureReported
      BY DEF Exchange, Carried
    <3>2. owed => owed'
      BY <1>2, <2>1
    <3> QED
      BY <1>1, <2>1, <3>1, <3>2 DEF Exchange, Registering
  <2> QED
    BY <2>4, <2>5, <2>6, <2>7 DEF Exchange, Files
<1> QED
  BY <1>3, <1>4

\* A call that the kernel serves.
LEMMA ServiceKeeps ==
    ASSUME TypeOK, Exchange, KernelHeartbeat
    PROVE  Exchange'
<1> USE DEF agentDisk, cycle, agentSecure, kernelVars, budget
<1>1. PICK a \in Responses :
          /\ Answer(a) /\ a.kind = "ok"
          /\ a.unlock = IF secureKernel /\ request.kind = "locked" THEN registry ELSE 0
  <2>1. PICK a : /\ Answer(a)
                 /\ a = [kind |-> "ok",
                         unlock |-> IF secureKernel /\ request.kind = "locked" THEN registry ELSE 0,
                         noSecret |-> secureKernel /\ request.kind # "password" /\ registry = 0,
                         cmds |-> commands]
    BY DEF KernelHeartbeat
  <2>2. a \in Responses
    BY <2>1, RecordFacts DEF TypeOK
  <2>3. /\ a.kind = "ok"
        /\ a.unlock = IF secureKernel /\ request.kind = "locked" THEN registry ELSE 0
    BY <2>1
  <2> QED
    BY <2>1, <2>2, <2>3
<1>2. /\ requests # <<>> /\ request = requests[1] /\ requests' = Tail(requests)
      /\ replies' = Append(replies, a)
      /\ UNCHANGED <<agentDisk, agent, cycle, agentSecure, link, secureKernel, kernel, kernelMarker,
                     kernelCrashes, owed, strayed>>
  BY <1>1, FirstFacts DEF KernelHeartbeat, ToAnswer, Answer
<1>3. /\ secureKernel /\ request.kind = "password" => registry' = request.pw
      /\ ~(secureKernel /\ request.kind = "password") => UNCHANGED <<registry, registryFile>>
      /\ kernel = "run" /\ registry' # registry => registryFile' = registry'
  BY DEF KernelHeartbeat
<1>9. link = "open"
  BY <1>2 DEF Exchange, AtRest
<1>4. Files'
  <2>1. kernel = "run" /\ registryFile = registry => registryFile' = registry'
    BY DEF KernelHeartbeat
  <2> QED
    BY <1>2, <1>9, <2>1 DEF Exchange, Files, OnDisk, AtRest, LockedHolds, KernelNeverLost, PasswordOpensConfig
<1>5. InTurn' /\ Carried'
  <2>1. /\ Len(requests) \in Nat /\ Len(replies) \in Nat /\ Len(requests') = Len(requests) - 1
        /\ Len(replies') = Len(replies) + 1 /\ Len(requests) > 0
        /\ requests' # <<>> => Len(requests') > 0
    BY <1>2, QueueFacts, AppendFacts DEF TypeOK
  <2>2. InTurn'
    BY <1>2, <2>1 DEF Exchange, InTurn
  <2>3. ~owed => requests' = <<>>
    <3>1. ~owed => Len(requests) + Len(replies) = IF phase = "wait" THEN 1 ELSE 0
      BY <1>9 DEF Exchange, InTurn
    <3> QED
      BY <2>1, <3>1
  <2>4. Carried'
    BY <1>2, <2>3 DEF Exchange, Carried
  <2> QED
    BY <2>2, <2>4
<1>6. Told'
  <2> SUFFICES ASSUME locked PROVE Told'
    BY <1>2 DEF Told
  <2>1. AllLocked(requests) /\ AllLocked(requests') /\ request.kind = "locked"
    BY <1>2, ServedCall DEF TypeOK, Exchange, Told
  <2>2. registry' = registry
    BY <1>3, <2>1
  <2>3. secureKernel /\ kernelCrashes = 0 => UnlocksWith(replies', registry)
    BY <1>1, <1>2, <2>1, AnsweredCall DEF TypeOK, Exchange, Told
  <2> QED
    BY <1>2, <2>1, <2>2, <2>3 DEF Told
<1>7. Registering'
  <2> SUFFICES ASSUME secureKernel, kernelCrashes = 0, reported \/ secureReported,
                      ~(owed /\ password \in strayed)
               PROVE  Reported(requests', registry', password)
    BY <1>2 DEF Registering
  <2>1. ~(secureReported /\ Refused)
    <3>1. Len(requests) \in Nat /\ Len(replies) \in Nat /\ Len(requests) > 0
          /\ (replies # <<>> => Len(replies) > 0)
      BY <1>2, QueueFacts DEF TypeOK
    <3> QED
      BY <1>9, <3>1 DEF Exchange, InTurn, Refused
  <2>2. Reported(requests, registry, password)
    BY <1>9, <2>1 DEF Exchange, Registering
  <2>3. CASE NoReport(requests) /\ registry = password
    BY <1>2, <1>3, <2>3, ServedCall DEF TypeOK, Reported
  <2>4. CASE LastReport(requests, password)
    <3>1. CASE LastReport(requests', password)
      BY <3>1 DEF Reported
    <3>2. CASE requests[1] = Report(password) /\ NoReport(requests')
      <4>1. request.kind = "password" /\ request.pw = password
        BY <1>2, <3>2, MessageFacts DEF Report
      <4> QED
        BY <1>3, <3>2, <4>1 DEF Reported
    <3> QED
      BY <1>2, <2>4, <3>1, <3>2, ServedCall DEF TypeOK
  <2> QED
    BY <2>2, <2>3, <2>4 DEF Reported
<1> QED
  BY <1>4, <1>5, <1>6, <1>7 DEF Exchange, Files

\* A call that the kernel refuses.
LEMMA RefusalKeeps ==
    ASSUME TypeOK, Exchange, RefuseHeartbeat
    PROVE  Exchange'
<1> USE DEF agentDisk, cycle, agentSecure, kernelVars, budget
<1>2. /\ requests # <<>> /\ request = requests[1] /\ requests' = Tail(requests)
      /\ replies' = Append(replies, Refusal)
      /\ UNCHANGED <<agentDisk, agent, cycle, agentSecure, link, kernelVars, kernelCrashes, owed>>
      /\ Strays(<<request>>)
  BY FirstFacts DEF RefuseHeartbeat, ToAnswer, Answer
<1>3. /\ Len(requests) \in Nat /\ Len(replies) \in Nat /\ Len(requests') = Len(requests) - 1
      /\ Len(replies') = Len(replies) + 1 /\ Len(requests) > 0
      /\ requests' # <<>> => Len(requests') > 0
      /\ (Len(replies) = 0 => replies'[1] = Refusal) /\ replies' # <<>>
  BY <1>2, QueueFacts, AppendFacts, RecordFacts DEF TypeOK
<1>9. link = "open"
  BY <1>2 DEF Exchange, AtRest
<1>4. Files'
  BY <1>2, <1>9 DEF Exchange, Files, OnDisk, AtRest, LockedHolds, KernelNeverLost, PasswordOpensConfig
<1>5. InTurn' /\ Carried'
  <2>1. InTurn'
    BY <1>2, <1>3 DEF Exchange, InTurn
  <2>2. ~owed => requests' = <<>>
    <3>1. ~owed => Len(requests) + Len(replies) = IF phase = "wait" THEN 1 ELSE 0
      BY <1>9 DEF Exchange, InTurn
    <3> QED
      BY <1>3, <3>1
  <2>3. Carried'
    BY <1>2, <2>2 DEF Exchange, Carried
  <2> QED
    BY <2>1, <2>3
<1>6. Told'
  <2>1. locked => AllLocked(requests')
    BY <1>2, ServedCall DEF TypeOK, Exchange, Told
  <2>2. UnlocksWith(replies, registry) => UnlocksWith(replies', registry)
    BY <1>2, AnsweredCall, RecordFacts, MessageFacts DEF TypeOK
  <2> QED
    BY <1>2, <2>1, <2>2 DEF Exchange, Told
<1>7. Registering'
  <2> SUFFICES ASSUME secureKernel, kernelCrashes = 0, reported \/ secureReported,
                      ~(owed /\ password \in strayed')
               PROVE  Reported(requests', registry, password) \/ (secureReported /\ Refused')
    BY <1>2 DEF Registering
  <2>1. ~(secureReported /\ Refused)
    <3>1. replies # <<>> => Len(replies) > 0
      BY QueueFacts DEF TypeOK
    <3> QED
      BY <1>3, <1>9, <3>1 DEF Exchange, InTurn, Refused
  <2>5. ~(owed /\ password \in strayed)
    BY <1>2 DEF Strays
  <2>2. Reported(requests, registry, password)
    BY <1>9, <2>1, <2>5 DEF Exchange, Registering
  <2>3. CASE NoReport(requests) /\ registry = password
    BY <1>2, <2>3, ServedCall DEF TypeOK, Reported
  <2>4. CASE LastReport(requests, password)
    <3>1. CASE LastReport(requests', password)
      BY <3>1 DEF Reported
    <3>2. CASE requests[1] = Report(password) /\ NoReport(requests')
      <4>1. request.kind = "password" /\ request.pw = password
        BY <1>2, <3>2, MessageFacts DEF Report
      <4>2. ~owed
        <5>1. owed => strayed' = strayed \cup
                {<<request>>[i].pw : i \in {j \in DOMAIN <<request>> : <<request>>[j].kind = "password"}}
          BY <1>2 DEF Strays
        <5>2. 1 \in {j \in DOMAIN <<request>> : <<request>>[j].kind = "password"}
          BY <4>1
        <5>3. <<request>>[1].pw = password
          BY <4>1
        <5>4. password \in {<<request>>[i].pw : i \in {j \in DOMAIN <<request>> : <<request>>[j].kind = "password"}}
          BY <5>2, <5>3
        <5> QED
          BY <5>1, <5>4
      <4>3. phase = "wait" /\ Len(replies) = 0
        BY <1>3, <1>9, <4>2 DEF Exchange, InTurn
      <4>4. secureReported
        BY <1>2, <4>1, <4>2, <4>3 DEF Exchange, Carried
      <4>5. Refused'
        BY <1>2, <1>3, <4>2, <4>3, MessageFacts DEF Refused
      <4> QED
        BY <4>4, <4>5
    <3> QED
      BY <1>2, <2>4, <3>1, <3>2, ServedCall DEF TypeOK
  <2> QED
    BY <2>2, <2>3, <2>4 DEF Reported
<1> QED
  BY <1>4, <1>5, <1>6, <1>7 DEF Exchange, Files

\* Every step keeps files, messages and registry in agreement.
LEMMA StepExchange == TypeOK /\ Exchange /\ [Next]_vars => Exchange'
<1> SUFFICES ASSUME TypeOK, Exchange, [Next]_vars PROVE Exchange'
  OBVIOUS
<1> USE DEF agentDisk, cycle, agentSecure, network, kernelVars, budget, history
<1>1. CASE AgentStart
  <2>1. link = "none" /\ ~reported /\ ~secureReported
    BY <1>1 DEF AgentStart, Exchange, AtRest, Carried
  <2>2. Files'
    BY <1>1, <2>1 DEF Exchange, Files, OnDisk, AtRest, LockedHolds, KernelNeverLost,
       PasswordOpensConfig, AgentStart
  <2>3. Queues'
    BY <1>1, <2>1, QueuesAside DEF AgentStart
  <2> QED
    BY <2>2, <2>3 DEF Exchange, Files, Queues
<1>2. CASE AgentCrash
  BY <1>2, EndKeeps DEF AgentCrash
<1>3. CASE OpenSession
  <2>1. Files' /\ InTurn' /\ Carried' /\ Told' /\ Registering'
    BY <1>3, EmptyFacts DEF Exchange, Files, OnDisk, AtRest, LockedHolds, KernelNeverLost,
       PasswordOpensConfig, InTurn, Carried, Told, Registering, OpenSession
  <2> QED
    BY <2>1 DEF Exchange, Files
<1>4. CASE StartCycle \/ RemovePlaintext \/ RemoveCiphertext
  <2>1. ~secureReported /\ link # "none"
    BY <1>4 DEF StartCycle, RemovePlaintext, RemoveCiphertext, Exchange, AtRest, Carried
  <2>2. CASE StartCycle
    <3>1. Files'
      BY <2>1, <2>2 DEF Exchange, Files, OnDisk, AtRest, LockedHolds, KernelNeverLost,
         PasswordOpensConfig, StartCycle
    <3>2. Queues'
      BY <2>1, <2>2, QueuesAside DEF StartCycle
    <3> QED
      BY <3>1, <3>2 DEF Exchange, Files, Queues
  <2>3. CASE RemovePlaintext
    <3>1. Files'
      BY <2>1, <2>3, MessageFacts DEF Exchange, Files, OnDisk, AtRest, LockedHolds, KernelNeverLost,
         PasswordOpensConfig, RemovePlaintext
    <3>2. Queues'
      BY <2>1, <2>3, QueuesAside DEF RemovePlaintext
    <3> QED
      BY <3>1, <3>2 DEF Exchange, Files, Queues
  <2>4. CASE RemoveCiphertext
    <3>1. Files'
      BY <2>1, <2>4, MessageFacts DEF Exchange, Files, OnDisk, AtRest, LockedHolds, KernelNeverLost,
         PasswordOpensConfig, RemoveCiphertext
    <3>2. Queues'
      BY <2>1, <2>4, QueuesAside DEF RemoveCiphertext
    <3> QED
      BY <3>1, <3>2 DEF Exchange, Files, Queues
  <2> QED
    BY <1>4, <2>2, <2>3, <2>4
<1>6. CASE ExecuteCommand
  <2>1. PICK c \in pendingCmd :
            \/ UNCHANGED <<agentDisk, phase, agentSecure, nextPw>>
            \/ hmacKey /\ CommandEnter(c)
            \/ hmacKey /\ CommandExit(c)
            \/ hmacKey /\ CommandRotate(c)
    BY <1>6 DEF ExecuteCommand
  <2>2. /\ agent = "up" /\ phase = "exec"
        /\ UNCHANGED <<agent, secureReported, errors, hmacKey, network, kernelVars, budget, history>>
    BY <1>6 DEF ExecuteCommand
  <2>6. ~secureReported
    BY <2>2 DEF Exchange, Carried
  <2>3. CASE UNCHANGED <<agentDisk, phase, agentSecure, nextPw>>
    <3>1. Files'
      BY <2>2, <2>3 DEF Exchange, Files, OnDisk, AtRest, LockedHolds, KernelNeverLost, PasswordOpensConfig
    <3>2. Queues'
      BY <2>2, <2>3, <2>6, QueuesAside
    <3> QED
      BY <3>1, <3>2 DEF Exchange, Files, Queues
  <2>4. CASE CommandEnter(c)
    BY <2>2, <2>3, <2>4, BootstrapKeeps DEF CommandEnter
  <2>5. CASE CommandExit(c)
    <3>1. Files'
      BY <2>2, <2>5 DEF Exchange, Files, OnDisk, AtRest, LockedHolds, KernelNeverLost,
         PasswordOpensConfig, CommandExit
    <3>2. Queues'
      BY <2>2, <2>5, <2>6, QueuesAside DEF CommandExit
    <3> QED
      BY <3>1, <3>2 DEF Exchange, Files, Queues
  <2>7. CASE CommandRotate(c)
    BY <2>2, <2>7, RotationKeeps
  <2> QED
    BY <2>1, <2>3, <2>4, <2>5, <2>7
<1>7. CASE SecureMaybeBootstrap
  BY <1>7, BootstrapKeeps DEF SecureMaybeBootstrap
<1>8. CASE SendHeartbeat
  BY <1>8, CallKeeps
<1>9. CASE HeartbeatError \/ HeartbeatTimeout
  BY <1>9, FailureKeeps
<1>10. CASE ReceiveResponse
  BY <1>10, LockedKeeps, UnlockedKeeps DEF ReceiveResponse
<1>11. CASE KernelHeartbeat
  BY <1>11, ServiceKeeps
<1>20. CASE RefuseHeartbeat
  BY <1>20, RefusalKeeps
<1>21. CASE LinkBreaks
  <2>1. Files'
    BY <1>21 DEF Exchange, Files, OnDisk, AtRest, LockedHolds, KernelNeverLost, PasswordOpensConfig, LinkBreaks
  <2>2. Queues'
    BY <1>21, EmptyFacts DEF Exchange, Queues, InTurn, Carried, Told, Registering, LinkBreaks
  <2> QED
    BY <2>1, <2>2 DEF Exchange, Files, Queues
<1>12. CASE \/ \E cmd \in {"enter", "exit", "rotate"} : EnqueueCommand(cmd)
            \/ KernelEnterRun \/ KernelExitRun \/ KernelUnlock \/ KernelStart
  <2>1. /\ UNCHANGED <<agentDisk, agent, cycle, agentSecure, network, secureKernel, history, kernelCrashes>>
        /\ kernelCrashes = 0 => registry' = registry /\ KernelNeverLost'
    BY <1>12 DEF Exchange, KernelNeverLost, EnqueueCommand, KernelEnterRun, KernelExitRun,
       KernelUnlock, KernelStart
  <2>2. KernelNeverLost'
    BY <2>1 DEF KernelNeverLost
  <2>3. Files'
    BY <2>1, <2>2 DEF Exchange, Files, OnDisk, AtRest, LockedHolds, PasswordOpensConfig
  <2>4. Queues'
    BY <2>1 DEF Exchange, Queues, InTurn, Carried, Told, Registering, Refused
  <2> QED
    BY <2>3, <2>4 DEF Exchange, Files, Queues
<1>17. CASE KernelCrash
  <2>1. kernelCrashes' # 0
    BY <1>17, AgentAssumption DEF TypeOK, KernelCrash
  <2>2. Files'
    BY <1>17, <2>1 DEF Exchange, Files, OnDisk, AtRest, LockedHolds, KernelNeverLost,
       PasswordOpensConfig, KernelCrash
  <2>3. Queues'
    BY <1>17, <2>1, EmptyFacts DEF Exchange, Queues, AtRest, InTurn, Carried, Told, Registering, KernelCrash
  <2> QED
    BY <2>2, <2>3 DEF Exchange, Files, Queues
<1>18. CASE UNCHANGED vars
  <2>1. Files' /\ Queues'
    BY <1>18 DEF Exchange, Files, OnDisk, AtRest, LockedHolds, KernelNeverLost,
       PasswordOpensConfig, Queues, InTurn, Carried, Told, Registering, Refused, vars
  <2> QED
    BY <2>1 DEF Exchange, Files, Queues
<1> QED
  BY <1>1, <1>2, <1>3, <1>4, <1>6, <1>7, <1>8, <1>9, <1>10, <1>11, <1>12,
     <1>17, <1>18, <1>20, <1>21
    DEF Next, AgentStep

\* The inductive invariant holds in every reachable state.
LEMMA WellFormed == Spec => [](TypeOK /\ Exchange)
<1>1. TypeOK /\ Exchange /\ [Next]_vars => (TypeOK /\ Exchange)'
  BY StepTyped, StepExchange
<1> QED
  BY <1>1, InitTyped, PTL DEF Spec

\* The secure-mode variables of agent and kernel stay in their domains.
THEOREM TypeCorrect == Spec => []TypeOK
  BY WellFormed, PTL

\* What an agent holds opens its config, and an agent that has stopped reporting its
\* password is registered with it (handleSecureModeResponse, secureReArmReport, the
\* registry in HandleHeartbeat), or will be when the kernel reads the report, or took a
\* late answer for that of a report that was refused or lost: for any number of commands,
\* failed calls and crashes of the agent.
THEOREM SecretsStayTogether == Spec => []SecretsAgree
<1>1. TypeOK /\ Exchange => SecretsAgree
  <2> SUFFICES ASSUME TypeOK, Exchange PROVE SecretsAgree
    OBVIOUS
  <2>1. PasswordOpensConfig
    BY DEF Exchange
  <2>2. ASSUME secureKernel, kernelCrashes = 0, link = "open", reported
        PROVE  registry = password \/ (owed /\ (ReportPending \/ password \in strayed))
    <3>1. ~secureReported
      BY <2>2 DEF Exchange, Carried
    <3>2. Reported(requests, registry, password) \/ (owed /\ password \in strayed)
      BY <2>2, <3>1 DEF Exchange, Registering
    <3>3. CASE LastReport(requests, password)
      <4>1. PICK i \in 1..Len(requests) : requests[i] = Report(password)
        BY <3>3 DEF LastReport
      <4>2. ReportPending
        BY <4>1 DEF ReportPending, Report, TypeOK
      <4>3. owed
        <5>1. /\ Len(requests) \in Nat /\ Len(replies) \in Nat /\ Len(requests) > 0
              /\ requests # <<>>
          BY <4>1, QueueFacts DEF TypeOK
        <5>2. ASSUME ~owed PROVE phase = "wait" /\ Len(requests) = 1
          <6>1. Len(requests) + Len(replies) = IF phase = "wait" THEN 1 ELSE 0
            BY <2>2, <5>2 DEF Exchange, InTurn
          <6> QED
            BY <5>1, <6>1
        <5>3. requests[i].kind = "password"
          BY <4>1, MessageFacts DEF Report
        <5> QED
          BY <3>1, <4>1, <5>1, <5>2, <5>3 DEF Exchange, Carried
      <4> QED
        BY <4>2, <4>3
    <3> QED
      BY <3>2, <3>3 DEF Reported
  <2> QED
    BY <2>1, <2>2 DEF SecretsAgree, ReportedMeansRegistered
<1> QED
  BY <1>1, WellFormed, PTL

-----------------------------------------------------------------------------
(* When the protected settings are given up.                               *)

\* The ciphertext loses its protected text only in secureSelfRecover.
LEMMA OnlyRecoveryReplaces ==
    ASSUME TypeOK, Exchange, [Next]_vars, enc.text = "full", enc'.text = "minimal"
    PROVE  ReceiveResponse /\ locked /\ resp.unlock = 0
<1> USE DEF agentDisk, agentSecure, network, kernelVars, budget, history
<1>1. enc' # enc
  OBVIOUS
<1>2. \/ ExecuteCommand \/ SecureMaybeBootstrap \/ RemoveCiphertext \/ ReceiveResponse
  BY <1>1 DEF Next, AgentStep, vars, AgentStart, AgentCrash, OpenSession, StartCycle,
         RemovePlaintext, SendHeartbeat, Call, HeartbeatError, HeartbeatTimeout, KernelHeartbeat,
         RefuseHeartbeat, LinkBreaks, Answer, KernelEnterRun, KernelExitRun, KernelUnlock, KernelStart, KernelCrash, EnqueueCommand
<1>3. ~(agent = "up" /\ phase = "exec" /\ NeedsBootstrap)
  BY DEF Exchange, OnDisk, NeedsBootstrap
<1>4. ~RemoveCiphertext
  BY MessageFacts DEF RemoveCiphertext
<1>5. ~SecureMaybeBootstrap
  BY <1>3 DEF SecureMaybeBootstrap
<1>6. ~ExecuteCommand
  <2> SUFFICES ASSUME ExecuteCommand PROVE FALSE
    OBVIOUS
  <2>1. PICK c \in pendingCmd :
            \/ UNCHANGED <<agentDisk, phase, agentSecure, nextPw>>
            \/ CommandEnter(c)
            \/ CommandExit(c)
            \/ CommandRotate(c)
    BY DEF ExecuteCommand
  <2>2. agent = "up" /\ phase = "exec"
    BY DEF ExecuteCommand
  <2>3. CASE CommandEnter(c)
    BY <1>1, <1>3, <2>2, <2>3 DEF CommandEnter
  <2>4. CASE CommandRotate(c)
    <3>1. enc' = [enc EXCEPT !.pw = nextPw]
      BY <1>1, <2>4 DEF CommandRotate
    <3>2. enc'.text = enc.text
      BY <3>1, RecordFacts, MessageFacts DEF TypeOK
    <3> QED
      BY <3>2
  <2> QED
    BY <1>1, <2>1, <2>3, <2>4 DEF CommandExit
<1>7. locked /\ resp.unlock = 0
  BY <1>1, <1>2, <1>4, <1>5, <1>6
     DEF ReceiveResponse, HandleLocked, HandleUnlocked, ApplyUnlock
<1> QED
  BY <1>2, <1>4, <1>5, <1>6, <1>7

\* secureSelfRecover replaces the protected settings only when a kernel that
\* never restarted has no password that opens them: no order of losses, agent
\* crashes, mode switches and commands makes a locked agent give up settings
\* its kernel could still unlock.
THEOREM RecoveryIsJustified == Spec => SelfRecoveryJustified
<1>1. TypeOK /\ Exchange /\ [Next]_vars
      => [secureKernel /\ kernelCrashes = 0 /\ enc.text = "full" /\ enc'.text = "minimal"
          => registry # enc.pw]_vars
  <2> SUFFICES ASSUME TypeOK, Exchange, [Next]_vars, secureKernel, kernelCrashes = 0,
                      enc.text = "full", enc'.text = "minimal"
               PROVE  registry # enc.pw
    OBVIOUS
  <2>1. ReceiveResponse /\ locked /\ resp.unlock = 0
    BY OnlyRecoveryReplaces
  <2>2. registry = 0
    BY <2>1, AnsweredCall DEF TypeOK, ReceiveResponse, Exchange, Told, resp
  <2> QED
    BY <2>2 DEF Exchange, OnDisk
<1> QED
  BY <1>1, WellFormed, PTL DEF Spec, SelfRecoveryJustified

=============================================================================
