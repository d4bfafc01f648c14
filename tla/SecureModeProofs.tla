-------------------------- MODULE SecureModeProofs --------------------------
(***************************************************************************)
(* Proofs about SecureModeController, for every number of vaults, every    *)
(* number and place of failing file operations, and crashes anywhere.      *)
(***************************************************************************)
EXTENDS SecureModeController, TLAPS

-----------------------------------------------------------------------------
(* The phases of the operations: what the steps an operation has taken     *)
(* guarantee to the ones it has yet to take, while it holds c.Mu.          *)

EnterPcs == {"enterEncrypt", "enterRemove", "enterVerifier", "enterMarker"}
ExitPcs == {"exitSecrets", "exitDecrypt", "exitRemove", "exitVerifier", "exitMarker"}
SetPcs == {"setVerifier", "setReencrypt", "setPersist", "rollbackVault", "rollbackVerifier"}

\* A vault that EnterRun, and one that ExitRun, is done with.
Sealed(v) == plain[v] = NoFile /\ Decrypts(v, pw)
Opened(v) == plain[v] # NoFile /\ enc[v] = NoFile

\* A kernel that is not up has nothing in memory, and default mode no password.
NothingHeld ==
    /\ status # "up" => /\ pc = "idle" /\ mode = "default" /\ guard = NoFile
                        /\ ret = "none"
    /\ mode = "default" => runPassword = NoFile

\* An operation runs in the mode it was called in, with its arguments.
CalledIn ==
    /\ pc \in EnterPcs => mode = "default"
    /\ pc \in ExitPcs \cup SetPcs \cup {"enterPersist"} => mode = "run"
    /\ pc # "idle" => pw \in Passwords
    /\ pc \in SetPcs => newPw \in Passwords
    /\ pc \in {"exitSecrets", "setVerifier", "setPersist"} => vi = 1

EnterPhases ==
    /\ pc \in {"enterEncrypt", "enterRemove"} => \A v \in Vaults : v < vi => Sealed(v)
    /\ pc = "enterRemove" => plain[vi] # NoFile /\ enc[vi] = [pw |-> pw, text |-> plain[vi]]
    /\ pc \in {"enterVerifier", "enterMarker", "enterPersist"} => \A v \in Vaults : Sealed(v)
    /\ pc \in {"enterMarker", "enterPersist"} => verifier = pw
    /\ pc = "enterPersist" => marker = "run" /\ runPassword = pw

ExitPhases ==
    /\ pc \in ExitPcs => runPassword = NoFile
    /\ pc \in ExitPcs \ {"exitSecrets"} => secretsFile = NoFile
    /\ pc \in {"exitDecrypt", "exitRemove"} => \A v \in Vaults : v < vi => Opened(v)
    /\ pc = "exitRemove" => enc[vi] # NoFile /\ plain[vi] = enc[vi].text
    /\ pc \in {"exitVerifier", "exitMarker"} => \A v \in Vaults : Opened(v)
    /\ pc = "exitMarker" => verifier = NoFile

SetPhases == pc \in SetPcs => \A v \in Vaults : enc[v] # NoFile

\* An edit holds c.Mu for reading: no operation is in progress, the config it began with is
\* there, and one that is alone is the only one.
EditReturns == {"editing", "configOk", "configErr", "refused"}
EditPhases ==
    /\ \A k \in Keys : edit[k] # NoFile =>
            /\ MayRead /\ ret \in EditReturns
            /\ mode = "run" => guard # NoFile /\ edit[k].pw \in Passwords
    /\ \A j, k \in Keys : edit[k] # NoFile /\ edit[k].alone /\ edit[j] # NoFile => j = k

OperationPhases == NothingHeld /\ CalledIn /\ EnterPhases /\ ExitPhases /\ SetPhases
Phases == OperationPhases /\ EditPhases

\* Where the last edit of the config is: in run mode the .enc file if there is one, in
\* default mode the plaintext file if there is one, else the other; and in the guard.
Latest ==
    /\ mode = "default" => IF plain[1] # NoFile THEN saved \subseteq plain[1]
                           ELSE saved \subseteq enc[1].text
    /\ mode = "run" => IF enc[1] # NoFile THEN saved \subseteq enc[1].text
                       ELSE saved \subseteq plain[1]
    /\ guard # NoFile => saved \subseteq guard

Few == faults.before =< 1 /\ faults.after = 0
None == faults.before = 0 /\ faults.after = 0

\* A rotation with at most one failing write.
Rotating ==
    /\ pc = "setVerifier" => verifier = pw /\ \A v \in Vaults : Decrypts(v, pw)
    /\ pc = "setReencrypt" => /\ verifier = newPw
                              /\ \A v \in Vaults : Decrypts(v, IF v < vi THEN newPw ELSE pw)
    /\ pc = "setPersist" => verifier = newPw /\ \A v \in Vaults : Decrypts(v, newPw)
    /\ pc = "rollbackVault" => \A v \in Vaults : IF v < vi THEN Decrypts(v, pw)
                                                  ELSE Decrypts(v, pw) \/ Decrypts(v, newPw)
    /\ pc = "rollbackVerifier" => \A v \in Vaults : Decrypts(v, pw)
    /\ runPassword \in {NoFile, IF pc \in SetPcs THEN pw ELSE verifier}

RotationInv ==
    /\ pc \in {"rollbackVault", "rollbackVerifier"} => ~None
    /\ Few => Rotating

RegistryInv ==
    /\ None /\ MayRead /\ mode = "run" /\ runPassword # NoFile /\ secretsFile # NoFile
    => /\ secretsFile.pw = runPassword
       /\ secretsFile.reg \subseteq secrets /\ secrets \subseteq secretsFile.reg \cup persisting


-----------------------------------------------------------------------------
(* Every step keeps types and phases.                                      *)

\* What a counted outcome does to the faults.
LEMMA FaultsCounted ==
    ASSUME TypeOK, NEW o \in Outcomes, CountFault(o)
    PROVE  /\ o \in {"ok", "before", "after"}
           /\ faults' \in [before : 0..MaxFaults, after : 0..MaxFaults]
           /\ o = "ok" => faults' = faults
           /\ Few' => Few /\ o # "after" /\ (o = "before" => None)
           /\ None' => None /\ o = "ok"
           /\ o # "ok" => ~None'
<1>1. o = "ok" \/ (o \in {"before", "after"} /\ faults.before + faults.after < MaxFaults)
  BY FaultAssumption DEF Outcomes
<1>2. faults.before \in 0..MaxFaults /\ faults.after \in 0..MaxFaults
  BY DEF TypeOK
<1>3. CASE o = "ok"
  BY <1>3 DEF CountFault, TypeOK, Few, None
<1>4. CASE o = "before"
  BY <1>1, <1>2, <1>4, FaultAssumption DEF CountFault, TypeOK, Few, None
<1>5. CASE o = "after"
  BY <1>1, <1>2, <1>5, FaultAssumption DEF CountFault, TypeOK, Few, None
<1> QED
  BY <1>1, <1>3, <1>4, <1>5

\* The files and texts, and an absent one.
LEMMA FileFacts ==
    /\ NoFile \notin Passwords /\ NoFile \notin Contents
    /\ NoFile \notin EncFiles /\ NoFile \notin SecretsFiles
    /\ \A p \in Passwords, c \in Contents : [pw |-> p, text |-> c] \in EncFiles
    /\ \A p \in Passwords, r \in SUBSET Entries : [pw |-> p, reg |-> r] \in SecretsFiles
    /\ \A f \in EncFiles : f.text \in Contents
    /\ Torn \in EncFiles /\ NoFile \notin Edits
    /\ \A f \in SecretsFiles : f.pw \in Passwords /\ f.reg \in SUBSET Entries
    /\ \A c \in Contents, k \in Keys : c \cup {k} \in Contents
    /\ {} \in Contents
  BY NoFileAssumption DEF EncFiles, SecretsFiles, Contents, Torn

\* The loops run over 1..NumVaults.
LEMMA VaultFacts ==
    ASSUME TypeOK
    PROVE  1 \in Vaults /\ vi \in Vaults /\ (vi < NumVaults => vi + 1 \in Vaults)
  BY VaultAssumption DEF TypeOK, Vaults

\* A vault is re-encrypted: the text stays.
LEMMA Rekeyed ==
    ASSUME TypeOK, NEW v \in Vaults, enc[v] # NoFile, NEW p \in Passwords
    PROVE  [enc EXCEPT ![v].pw = p] = [enc EXCEPT ![v] = [pw |-> p, text |-> enc[v].text]]
<1>1. enc[v] \in EncFiles
  BY DEF TypeOK
<1>2. [enc[v] EXCEPT !.pw = p] = [pw |-> p, text |-> enc[v].text]
  BY <1>1 DEF EncFiles
<1> QED
  BY <1>2

\* After a vault: the next one, or what follows the loop.
LEMMA LoopStep ==
    ASSUME TypeOK, NEW loop, NEW after, NextVault(loop, after)
    PROVE  /\ vi' \in Vaults /\ ret' = ret
           /\ vi < NumVaults => pc' = loop /\ vi' = vi + 1
           /\ ~(vi < NumVaults) => pc' = after /\ vi' = 1
           /\ ~(vi < NumVaults) => \A v \in Vaults : v = vi \/ v < vi
           /\ vi < NumVaults => \A v \in Vaults : v < vi' => v = vi \/ v < vi
  BY VaultAssumption DEF TypeOK, Vaults, NextVault, Goto

\* The failing operations are counted, and nothing else is.
LEMMA StepFaults ==
    ASSUME TypeOK, [Next]_vars
    PROVE  /\ faults' \in [before : 0..MaxFaults, after : 0..MaxFaults]
           /\ Few' => Few
           /\ None' => None
<1>1. CASE faults' = faults
  BY <1>1 DEF TypeOK, Few, None
<1>2. CASE \E o \in Outcomes : CountFault(o)
  BY <1>2, FaultsCounted
<1>3. faults' = faults \/ \E o \in Outcomes : CountFault(o)
  BY
    DEF Next, vars, EnterEncrypt, EnterRemove, EnterVerifier, EnterMarker,
        EnterPersist, ExitSecrets, ExitDecrypt, ExitRemove, ExitVerifier, ExitMarker,
        SetVerifier, SetReencrypt, SetPersist, RollbackVault, RollbackVerifier, NoOpCall,
        RefusedCall, Crash, Startup, EnterRun, ExitRun, Unlock, SetPassword,
        BeginConfigSet, ReplaceGuard, WriteTemporary, Publish, Register, PersistSecrets
<1> QED
  BY <1>1, <1>2, <1>3

\* A step of an edit.
Editing(k) ==
    \/ \E p \in Passwords, persist \in BOOLEAN : BeginConfigSet(k, p, persist)
    \/ ReplaceGuard(k) \/ WriteTemporary(k) \/ Publish(k)

\* A begun edit.
LEMMA BegunEdit ==
    ASSUME TypeOK, Phases, NEW k \in Keys, NEW p \in Passwords, NEW persist \in BOOLEAN,
           BeginConfigSet(k, p, persist)
    PROVE  /\ edit' \in [Keys -> {NoFile} \cup Edits]
           /\ edit'[k].text = ConfigBase \cup {k} /\ edit'[k].alone = Ready
           /\ edit'[k].others = {} /\ (mode = "run" => edit'[k].pw = p)
           /\ edit'[k].at = "replace"
           /\ \A j \in Keys : j # k /\ edit[j] = NoFile => edit'[j] = NoFile
           /\ \A j \in Keys : j # k /\ edit[j] # NoFile =>
                    /\ edit'[j].text = edit[j].text /\ edit'[j].others = edit[j].others
                    /\ edit'[j].pw = edit[j].pw /\ ~edit'[j].alone
<1> DEFINE new == [at |-> "replace", text |-> ConfigBase \cup {k},
                   pw |-> IF mode = "run" THEN p ELSE NoFile, persist |-> persist,
                   alone |-> Ready, others |-> {}]
           old(j) == IF edit[j] = NoFile THEN NoFile ELSE [edit[j] EXCEPT !.alone = FALSE]
<1>1. edit' = [j \in Keys |-> IF j = k THEN new ELSE old(j)]
  BY DEF BeginConfigSet
<1>2. ConfigBase \in Contents
  BY VaultFacts DEF BeginConfigSet, TypeOK, ConfigBase
<1>3. new \in Edits
  <2>1. ConfigBase \cup {k} \in Contents /\ Ready \in BOOLEAN
    BY <1>2, FileFacts DEF Ready, MayRead, MayRead
  <2> QED
    BY <2>1 DEF Edits
<1>4. ASSUME NEW j \in Keys, edit[j] # NoFile
      PROVE  /\ old(j) \in Edits /\ old(j).text = edit[j].text /\ old(j).others = edit[j].others
             /\ old(j).pw = edit[j].pw /\ ~old(j).alone
  <2>1. edit[j] \in Edits
    BY <1>4 DEF TypeOK
  <2> QED
    BY <1>4, <2>1 DEF Edits
<1>5. edit'[k] = new /\ \A j \in Keys : j # k => edit'[j] = old(j)
  BY <1>1
<1>6. \A j \in Keys : edit[j] = NoFile => old(j) = NoFile
  OBVIOUS
<1>7. edit' \in [Keys -> {NoFile} \cup Edits]
  BY <1>1, <1>3, <1>4, <1>6
<1>8. /\ new.text = ConfigBase \cup {k} /\ new.alone = Ready /\ new.others = {}
      /\ new.at = "replace"
      /\ mode = "run" => new.pw = p
  OBVIOUS
<1> HIDE DEF new, old
<1> QED
  BY <1>4, <1>5, <1>6, <1>7, <1>8

\* An edit that has written the temporary file, and the others that have it open.
LEMMA WrittenEdit ==
    ASSUME TypeOK, NEW k \in Keys, WriteTemporary(k)
    PROVE  /\ edit' \in [Keys -> {NoFile} \cup Edits]
           /\ \A j \in Keys : edit[j] = NoFile => edit'[j] = NoFile
           /\ \A j \in Keys : edit'[j] # NoFile =>
                    /\ edit'[j].text = edit[j].text /\ edit'[j].pw = edit[j].pw
                    /\ edit'[j].alone = edit[j].alone /\ (edit[j].at # "replace" \/ edit'[j] = edit[j])
                    /\ Writers(k) = {} /\ edit[j].others = {} => edit'[j].others = {}
<1> DEFINE texts == {edit[j2].text : j2 \in Writers(k)}
           other(j) == [edit[j] EXCEPT !.others = @ \cup {edit[k].text}]
           own == [edit[k] EXCEPT !.at = "rename", !.others = texts]
<1>1. PICK o \in Outcomes \ {"after"} :
          edit' = [j \in Keys |-> IF j \in Writers(k) THEN other(j)
                                  ELSE IF j # k THEN edit[j]
                                  ELSE IF o # "ok" THEN NoFile ELSE own]
  BY DEF WriteTemporary
<1>2. /\ edit[k] # NoFile /\ edit[k] \in Edits /\ edit[k].text \in Contents
      /\ edit[k].at # "replace"
  BY DEF WriteTemporary, InEdit, TypeOK, Edits
<1>3. texts \in SUBSET Contents
  BY DEF Writers, InEdit, TypeOK, Edits
<1>4. /\ own \in Edits /\ own.text = edit[k].text /\ own.pw = edit[k].pw
      /\ own.alone = edit[k].alone /\ own.others = texts
  BY <1>2, <1>3 DEF Edits
<1>5. ASSUME NEW j \in Writers(k)
      PROVE  /\ other(j) \in Edits /\ other(j).text = edit[j].text /\ other(j).pw = edit[j].pw
             /\ other(j).alone = edit[j].alone /\ edit[j] # NoFile /\ edit[j].at # "replace"
  <2>1. edit[j] \in Edits /\ edit[j] # NoFile /\ edit[j].at # "replace"
    BY <1>5 DEF Writers, InEdit, TypeOK
  <2> QED
    BY <1>2, <2>1 DEF Edits
<1>6. ASSUME NEW j \in Keys
      PROVE  \/ j \in Writers(k) /\ edit'[j] = other(j)
             \/ j \notin Writers(k) /\ j # k /\ edit'[j] = edit[j]
             \/ j = k /\ edit'[j] \in {NoFile, own}
  BY <1>1
<1>7. Writers(k) = {} => texts = {}
  OBVIOUS
<1>8. ASSUME NEW j \in Keys PROVE edit'[j] \in {NoFile} \cup Edits
  <2>1. edit[j] \in {NoFile} \cup Edits
    BY DEF TypeOK
  <2>2. j \in Writers(k) => other(j) \in Edits
    BY <1>5
  <2> HIDE DEF other, own
  <2> QED
    BY <1>4, <1>6, <2>1, <2>2
<1>9. edit' = [j \in Keys |-> edit'[j]]
  BY <1>1
<1> HIDE DEF texts, other, own
<1>10. edit' \in [Keys -> {NoFile} \cup Edits]
  BY <1>8, <1>9
<1> QED
  BY <1>2, <1>4, <1>5, <1>6, <1>7, <1>10

\* What an edit leaves alone, and what it does to the files: only those of the first vault,
\* and none appears or disappears.
Framed ==
           /\ MayRead /\ ret' \in EditReturns
           /\ UNCHANGED <<verifier, marker, secretsFile, status, mode, runPassword, secrets,
                          pc, vi, pw, newPw, persisting>>
           /\ plain' \in [Vaults -> {NoFile} \cup Contents]
           /\ enc' \in [Vaults -> {NoFile} \cup EncFiles]
           /\ \A v \in Vaults : v # 1 => plain'[v] = plain[v] /\ enc'[v] = enc[v]
           /\ \A v \in Vaults : plain[v] # NoFile => plain'[v] # NoFile
           /\ \A v \in Vaults : enc[v] # NoFile => enc'[v] # NoFile
           /\ guard' \in {NoFile} \cup Contents /\ (guard # NoFile => guard' # NoFile)
           /\ saved' \in Contents /\ mixed' \in BOOLEAN
           /\ edit' \in [Keys -> {NoFile} \cup Edits]

LEMMA EditFrame ==
    ASSUME TypeOK, Phases, NEW k \in Keys, Editing(k)
    PROVE  Framed
<1> USE FileFacts, VaultFacts DEF Framed, MayRead, disk, memory, args, EditReturns, Phases, EditPhases, EndEdit
<1>1. ASSUME NEW p \in Passwords, NEW persist \in BOOLEAN, BeginConfigSet(k, p, persist)
      PROVE  Framed
  <2>1. edit' \in [Keys -> {NoFile} \cup Edits]
    BY <1>1, BegunEdit
  <2> QED
    BY <1>1, <2>1 DEF BeginConfigSet, TypeOK
<1>2. CASE ReplaceGuard(k)
  <2>1. edit[k] \in Edits /\ edit[k] # NoFile
    BY <1>2 DEF ReplaceGuard, InEdit, TypeOK
  <2>2. [edit[k] EXCEPT !.at = "write"] \in Edits /\ edit[k].text \in Contents
    BY <2>1 DEF Edits
  <2>3. edit' = [edit EXCEPT ![k] = [edit[k] EXCEPT !.at = "write"]] \/ edit' = [edit EXCEPT ![k] = NoFile]
    BY <1>2 DEF ReplaceGuard
  <2>4. edit' \in [Keys -> {NoFile} \cup Edits]
    BY <2>2, <2>3 DEF TypeOK
  <2> QED
    BY <1>2, <2>1, <2>2, <2>4 DEF ReplaceGuard, TypeOK
<1>3. CASE WriteTemporary(k)
  <2>1. edit' \in [Keys -> {NoFile} \cup Edits]
    BY <1>3, WrittenEdit
  <2>2. edit[k] # NoFile
    BY <1>3 DEF WriteTemporary, InEdit
  <2> QED
    BY <1>3, <2>1, <2>2 DEF WriteTemporary, TypeOK
<1>4. CASE Publish(k)
  <2>1. edit[k] \in Edits /\ edit[k] # NoFile
    BY <1>4 DEF Publish, InEdit, TypeOK
  <2>2. edit[k].text \in Contents /\ edit[k].others \in SUBSET Contents
        /\ edit[k].pw \in Passwords \cup {NoFile}
    BY <2>1 DEF Edits
  <2>3. \/ enc' = enc /\ \E o \in Outcomes : \E f \in Published(k, o) : plain' = [plain EXCEPT ![1] = f]
        \/ plain' = plain /\ \E o \in Outcomes : \E f \in PublishedEnc(k, o) : enc' = [enc EXCEPT ![1] = f]
    BY <1>4 DEF Publish
  <2>4. ASSUME NEW o \in Outcomes, NEW f, f \in Published(k, o)
        PROVE  f \in {NoFile} \cup Contents /\ (plain[1] # NoFile => f # NoFile)
    <3>1. ASSUME NEW c \in SUBSET (edit[k].text \cup UNION edit[k].others)
          PROVE  c \in Contents
      BY <2>2 DEF Contents
    <3>2. CASE edit[k].others = {}
      BY <2>2, <3>2, <2>4 DEF Published, TypeOK
    <3>3. CASE edit[k].others # {}
      BY <3>1, <3>3, <2>4 DEF Published, TypeOK
    <3> QED
      BY <3>2, <3>3
  <2>5. ASSUME NEW o \in Outcomes, NEW f, f \in PublishedEnc(k, o)
        PROVE  f \in {NoFile} \cup EncFiles /\ (enc[1] # NoFile => f # NoFile)
    <3>1. \A c \in Contents : [pw |-> edit[k].pw, text |-> c] \in EncFiles
      BY <2>2 DEF EncFiles
    <3>2. CASE edit[k].others = {}
      BY <2>2, <3>1, <3>2, <2>5 DEF PublishedEnc, TypeOK
    <3>3. CASE edit[k].others # {}
      <4>1. ASSUME NEW c \in [pw : {edit[k].pw}, text : {edit[k].text} \cup edit[k].others]
            PROVE  c \in EncFiles
        BY <2>2, <4>1 DEF EncFiles
      <4> QED
        BY <3>3, <4>1, <2>5 DEF PublishedEnc, TypeOK
    <3> QED
      BY <3>2, <3>3
  <2>6. saved' \in Contents /\ edit' \in [Keys -> {NoFile} \cup Edits]
    BY <1>4 DEF Publish, TypeOK
  <2>7. /\ plain' \in [Vaults -> {NoFile} \cup Contents]
        /\ enc' \in [Vaults -> {NoFile} \cup EncFiles]
        /\ \A v \in Vaults : v # 1 => plain'[v] = plain[v] /\ enc'[v] = enc[v]
        /\ \A v \in Vaults : plain[v] # NoFile => plain'[v] # NoFile
        /\ \A v \in Vaults : enc[v] # NoFile => enc'[v] # NoFile
    <3>1. CASE enc' = enc /\ \E o \in Outcomes : \E f \in Published(k, o) : plain' = [plain EXCEPT ![1] = f]
      BY <2>4, <3>1 DEF TypeOK
    <3>2. CASE plain' = plain /\ \E o \in Outcomes : \E f \in PublishedEnc(k, o) : enc' = [enc EXCEPT ![1] = f]
      BY <2>5, <3>2 DEF TypeOK
    <3> QED
      BY <2>3, <3>1, <3>2
  <2> QED
    BY <1>4, <2>1, <2>6, <2>7 DEF Publish, TypeOK
<1> QED
  BY <1>1, <1>2, <1>3, <1>4 DEF Editing
\* Every step keeps the types.
LEMMA StepTyped ==
    ASSUME TypeOK, Phases, [Next]_vars
    PROVE  TypeOK'
<1> USE FileFacts, VaultFacts DEF disk, memory, args, edits, Goto, Return, Labels, Results, Phases, OperationPhases
<1>1. faults' \in [before : 0..MaxFaults, after : 0..MaxFaults]
  BY StepFaults
<1>2. CASE EnterEncrypt
  <2>1. enc' \in [Vaults -> {NoFile} \cup EncFiles]
    <3>1. plain[vi] # NoFile => [pw |-> pw, text |-> plain[vi]] \in EncFiles
      BY <1>2 DEF TypeOK, EnterEncrypt, CalledIn
    <3> QED
      BY <1>2, <3>1 DEF TypeOK, EnterEncrypt
  <2> QED
    BY <1>1, <1>2, <2>1 DEF TypeOK, EnterEncrypt
<1>3. CASE EnterRemove
  <2>1. vi' \in Vaults /\ pc' \in Labels /\ ret' \in Results
    BY <1>3, LoopStep DEF TypeOK, EnterRemove
  <2> QED
    BY <1>1, <1>3, <2>1 DEF TypeOK, EnterRemove
<1>4. CASE EnterVerifier
  BY <1>1, <1>4 DEF TypeOK, EnterVerifier
<1>5. CASE EnterMarker
  <2>1. enc[1] \in EncFiles
    BY <1>5 DEF TypeOK, EnterMarker, EnterPhases, Sealed, Decrypts
  <2> QED
    BY <1>1, <1>5, <2>1 DEF TypeOK, EnterMarker
<1>6. CASE EnterPersist
  <2>1. [pw |-> runPassword, reg |-> secrets] \in SecretsFiles
    BY <1>6 DEF TypeOK, EnterPersist, EnterPhases, CalledIn
  <2> QED
    BY <1>1, <1>6, <2>1 DEF TypeOK, EnterPersist
<1>7. CASE ExitSecrets
  BY <1>1, <1>7 DEF TypeOK, ExitSecrets
<1>8. CASE ExitDecrypt
  <2>1. Decrypts(vi, pw) => enc[vi].text \in Contents
    BY <1>8 DEF TypeOK, Decrypts
  <2> QED
    BY <1>1, <1>8, <2>1 DEF TypeOK, ExitDecrypt
<1>9. CASE ExitRemove
  <2>1. vi' \in Vaults /\ pc' \in Labels /\ ret' \in Results
    BY <1>9, LoopStep DEF TypeOK, ExitRemove
  <2> QED
    BY <1>1, <1>9, <2>1 DEF TypeOK, ExitRemove
<1>10. CASE ExitVerifier
  BY <1>1, <1>10 DEF TypeOK, ExitVerifier
<1>11. CASE ExitMarker
  BY <1>1, <1>11 DEF TypeOK, ExitMarker
<1>12. CASE SetVerifier
  BY <1>1, <1>12 DEF TypeOK, SetVerifier
<1>13. CASE SetReencrypt
  <2>1. vi' \in Vaults /\ pc' \in Labels /\ ret' \in Results
    BY <1>13, LoopStep DEF TypeOK, SetReencrypt
  <2>2. enc[vi] \in EncFiles /\ newPw \in Passwords
    BY <1>13 DEF TypeOK, SetReencrypt, SetPhases, SetPcs, CalledIn
  <2>3. enc' \in {enc, [enc EXCEPT ![vi] = [pw |-> newPw, text |-> enc[vi].text]]}
    BY <1>13, <2>2, Rekeyed DEF SetReencrypt
  <2>4. enc' \in [Vaults -> {NoFile} \cup EncFiles]
    BY <2>2, <2>3 DEF TypeOK
  <2> QED
    BY <1>1, <1>13, <2>1, <2>2, <2>3, <2>4 DEF TypeOK, SetReencrypt
<1>14. CASE SetPersist
  <2>1. [pw |-> newPw, reg |-> secrets] \in SecretsFiles
    BY <1>14 DEF TypeOK, SetPersist, CalledIn, SetPcs
  <2> QED
    BY <1>1, <1>14, <2>1 DEF TypeOK, SetPersist
<1>15. CASE RollbackVault
  <2>1. vi' \in Vaults /\ pc' \in Labels /\ ret' \in Results
    BY <1>15, LoopStep DEF TypeOK, RollbackVault
  <2>2. enc[vi] \in EncFiles /\ pw \in Passwords
    BY <1>15 DEF TypeOK, RollbackVault, SetPhases, SetPcs, CalledIn
  <2>3. enc' \in {enc, [enc EXCEPT ![vi] = [pw |-> pw, text |-> enc[vi].text]]}
    BY <1>15, <2>2, Rekeyed DEF RollbackVault
  <2>4. enc' \in [Vaults -> {NoFile} \cup EncFiles]
    BY <2>2, <2>3 DEF TypeOK
  <2> QED
    BY <1>1, <1>15, <2>1, <2>2, <2>3, <2>4 DEF TypeOK, RollbackVault
<1>16. CASE RollbackVerifier
  BY <1>1, <1>16 DEF TypeOK, RollbackVerifier
<1>17. CASE NoOpCall
  BY <1>1, <1>17 DEF TypeOK, NoOpCall
<1>18. CASE RefusedCall
  BY <1>1, <1>18 DEF TypeOK, RefusedCall
<1>19. CASE Crash
  <2>1. edit' \in [Keys -> {NoFile} \cup Edits]
    BY <1>19 DEF Crash
  <2> QED
    BY <1>1, <1>19, <2>1 DEF TypeOK, Crash
<1>20. CASE Startup
  BY <1>1, <1>20 DEF TypeOK, Startup
<1>21. ASSUME NEW p \in Passwords, EnterRun(p) PROVE TypeOK'
  BY <1>1, <1>21 DEF TypeOK, EnterRun
<1>22. ASSUME NEW p \in Passwords, ExitRun(p) PROVE TypeOK'
  BY <1>1, <1>22 DEF TypeOK, ExitRun
<1>23. ASSUME NEW p \in Passwords, Unlock(p) PROVE TypeOK'
  <2>1. enc[1].text \in Contents /\ (secretsFile # NoFile => secretsFile.reg \in SUBSET Entries)
    BY <1>23 DEF TypeOK, Unlock, Decrypts
  <2> QED
    BY <1>1, <1>23, <2>1 DEF TypeOK, Unlock
<1>24. ASSUME NEW old \in Passwords, NEW new \in Passwords, SetPassword(old, new) PROVE TypeOK'
  BY <1>1, <1>24 DEF TypeOK, SetPassword
<1>25. ASSUME NEW k \in Keys, Editing(k) PROVE TypeOK'
  BY <1>1, <1>25, EditFrame DEF TypeOK, Framed, EditReturns, MayRead
<1>27. ASSUME NEW e \in Entries, Register(e) PROVE TypeOK'
  BY <1>1, <1>27 DEF TypeOK, Register
<1>28. ASSUME NEW e \in Entries, PersistSecrets(e) PROVE TypeOK'
  <2>1. runPassword # NoFile => [pw |-> runPassword, reg |-> secrets] \in SecretsFiles
    BY DEF TypeOK
  <2> QED
    BY <1>1, <1>28, <2>1 DEF TypeOK, PersistSecrets
<1>29. CASE UNCHANGED vars
  BY <1>29 DEF TypeOK, vars
<1> QED
  BY <1>2, <1>3, <1>4, <1>5, <1>6, <1>7, <1>8, <1>9, <1>10, <1>11, <1>12, <1>13,
     <1>14, <1>15, <1>16, <1>17, <1>18, <1>19, <1>20, <1>21, <1>22, <1>23, <1>24,
     <1>25, <1>27, <1>28, <1>29
    DEF Next, Editing

\* The phases of the operations hold after each step.
LEMMA StepOperations ==
    ASSUME TypeOK, Phases, [Next]_vars
    PROVE  OperationPhases'
<1> USE FileFacts, VaultFacts DEF disk, memory, args, Goto, Return, Phases, OperationPhases
<1>1. CASE EnterEncrypt
  <2>1. NothingHeld' /\ CalledIn' /\ ExitPhases' /\ SetPhases'
    BY <1>1
      DEF EnterEncrypt, NothingHeld, CalledIn, ExitPhases, SetPhases, EnterPcs,
          ExitPcs, SetPcs
  <2>2. EnterPhases'
    <3>1. CASE pc' = "enterRemove"
      <4>1. /\ plain[vi] # NoFile /\ UNCHANGED <<plain, vi, pw>>
            /\ enc' = [enc EXCEPT ![vi] = [pw |-> pw, text |-> plain[vi]]]
        BY <1>1, <3>1 DEF EnterEncrypt, Applied
      <4>2. enc'[vi] = [pw |-> pw, text |-> plain[vi]] /\ \A v \in Vaults : v < vi => enc'[v] = enc[v]
        BY <4>1 DEF TypeOK, Vaults
      <4> QED
        BY <1>1, <3>1, <4>1, <4>2 DEF EnterEncrypt, EnterPhases, Sealed, Decrypts
    <3>2. CASE pc' = "idle"
      BY <3>2 DEF EnterPhases
    <3> QED
      BY <1>1, <3>1, <3>2 DEF EnterEncrypt
  <2> QED
    BY <2>1, <2>2
<1>2. CASE EnterRemove
  <2>1. NothingHeld' /\ CalledIn' /\ ExitPhases' /\ SetPhases'
    BY LoopStep, <1>2
      DEF EnterRemove, NothingHeld, CalledIn, ExitPhases, SetPhases, EnterPcs,
          ExitPcs, SetPcs
  <2>2. EnterPhases'
    <3>1. CASE pc' = "idle"
      BY <3>1 DEF EnterPhases
    <3>2. CASE pc' # "idle"
      <4>1. /\ plain' = [plain EXCEPT ![vi] = NoFile] /\ UNCHANGED <<enc, pw>>
            /\ NextVault("enterEncrypt", "enterVerifier")
        BY <1>2, <3>2 DEF EnterRemove, Applied
      <4>2. \A v \in Vaults : (v < vi \/ v = vi) => Sealed(v)'
        <5>1. enc[vi] # NoFile /\ enc[vi].pw = pw
          BY <1>2 DEF EnterRemove, EnterPhases, TypeOK, CalledIn
        <5> QED
          BY <1>2, <4>1, <5>1 DEF EnterRemove, EnterPhases, TypeOK, Sealed, Decrypts
      <4>3. CASE vi < NumVaults
        BY <4>1, <4>2, <4>3, LoopStep DEF EnterPhases
      <4>4. CASE ~(vi < NumVaults)
        BY <4>1, <4>2, <4>4, LoopStep DEF EnterPhases
      <4> QED
        BY <4>3, <4>4
    <3> QED
      BY <3>1, <3>2
  <2> QED
    BY <2>1, <2>2
<1>3. CASE EnterVerifier
  <2>1. NothingHeld' /\ CalledIn' /\ ExitPhases' /\ SetPhases'
    BY <1>3
      DEF EnterVerifier, NothingHeld, CalledIn, ExitPhases, SetPhases, EnterPcs,
          ExitPcs, SetPcs
  <2>2. EnterPhases'
    <3>1. UNCHANGED <<plain, enc, pw>> /\ \A v \in Vaults : Sealed(v)
      BY <1>3 DEF EnterVerifier, EnterPhases
    <3>2. pc' = "idle" \/ (pc' = "enterMarker" /\ verifier' = pw)
      BY <1>3 DEF EnterVerifier, Applied
    <3> QED
      BY <3>1, <3>2 DEF EnterPhases, Sealed, Decrypts
  <2> QED
    BY <2>1, <2>2
<1>4. CASE EnterMarker
  <2>1. NothingHeld' /\ CalledIn' /\ ExitPhases' /\ SetPhases'
    BY <1>4
      DEF EnterMarker, NothingHeld, CalledIn, ExitPhases, SetPhases, EnterPcs,
          ExitPcs, SetPcs
  <2>2. EnterPhases'
    <3>1. UNCHANGED <<plain, enc, pw, verifier>> /\ verifier = pw /\ \A v \in Vaults : Sealed(v)
      BY <1>4 DEF EnterMarker, EnterPhases
    <3>2. pc' = "idle" \/ (pc' = "enterPersist" /\ marker' = "run" /\ runPassword' = pw)
      BY <1>4 DEF EnterMarker, Applied
    <3> QED
      BY <3>1, <3>2 DEF EnterPhases, Sealed, Decrypts
  <2> QED
    BY <2>1, <2>2
<1>5. CASE EnterPersist
  BY <1>5
    DEF EnterPersist, NothingHeld, CalledIn, EnterPhases, ExitPhases, SetPhases,
        EnterPcs, ExitPcs, SetPcs
<1>6. CASE ExitSecrets
  <2>1. NothingHeld' /\ CalledIn' /\ EnterPhases' /\ SetPhases'
    BY <1>6
      DEF ExitSecrets, NothingHeld, CalledIn, EnterPhases, SetPhases, EnterPcs,
          ExitPcs, SetPcs
  <2>2. ExitPhases'
    <3>1. runPassword' = NoFile /\ vi' = 1
      BY <1>6 DEF ExitSecrets, ExitPhases, ExitPcs, CalledIn
    <3>2. pc' = "idle" \/ (pc' = "exitDecrypt" /\ secretsFile' = NoFile)
      BY <1>6 DEF ExitSecrets, Applied
    <3>3. \A v \in Vaults : ~(v < 1)
      BY DEF Vaults
    <3> QED
      BY <3>1, <3>2, <3>3 DEF ExitPhases, ExitPcs
  <2> QED
    BY <2>1, <2>2
<1>7. CASE ExitDecrypt
  <2>1. NothingHeld' /\ CalledIn' /\ EnterPhases' /\ SetPhases'
    BY <1>7
      DEF ExitDecrypt, NothingHeld, CalledIn, EnterPhases, SetPhases, EnterPcs,
          ExitPcs, SetPcs
  <2>2. ExitPhases'
    <3>1. UNCHANGED <<enc, vi, runPassword, secretsFile>> /\ runPassword = NoFile /\ secretsFile = NoFile
      BY <1>7 DEF ExitDecrypt, ExitPhases, ExitPcs
    <3>2. CASE pc' = "exitRemove"
      <4>1. enc[vi] # NoFile /\ plain' = [plain EXCEPT ![vi] = enc[vi].text]
        BY <1>7, <3>2 DEF ExitDecrypt, Applied, Decrypts
      <4>2. plain'[vi] = enc[vi].text /\ \A v \in Vaults : v < vi => plain'[v] = plain[v]
        BY <4>1 DEF TypeOK, Vaults
      <4> QED
        BY <1>7, <3>1, <3>2, <4>1, <4>2 DEF ExitDecrypt, ExitPhases, ExitPcs, Opened
    <3>3. CASE pc' = "idle"
      BY <3>3 DEF ExitPhases, ExitPcs
    <3> QED
      BY <1>7, <3>2, <3>3 DEF ExitDecrypt
  <2> QED
    BY <2>1, <2>2
<1>8. CASE ExitRemove
  <2>1. NothingHeld' /\ CalledIn' /\ EnterPhases' /\ SetPhases'
    BY LoopStep, <1>8
      DEF ExitRemove, NothingHeld, CalledIn, EnterPhases, SetPhases, EnterPcs,
          ExitPcs, SetPcs
  <2>2. ExitPhases'
    <3>1. CASE pc' = "idle"
      BY <3>1 DEF ExitPhases, ExitPcs
    <3>2. CASE pc' # "idle"
      <4>1. /\ enc' = [enc EXCEPT ![vi] = NoFile] /\ UNCHANGED <<plain, runPassword, secretsFile>>
            /\ NextVault("exitDecrypt", "exitVerifier")
            /\ runPassword = NoFile /\ secretsFile = NoFile
        BY <1>8, <3>2 DEF ExitRemove, Applied, ExitPhases, ExitPcs
      <4>2. \A v \in Vaults : (v < vi \/ v = vi) => Opened(v)'
        <5>1. plain[vi] # NoFile
          BY <1>8 DEF ExitRemove, ExitPhases, TypeOK
        <5> QED
          BY <1>8, <4>1, <5>1 DEF ExitRemove, ExitPhases, TypeOK, Opened
      <4>3. CASE vi < NumVaults
        BY <4>1, <4>2, <4>3, LoopStep DEF ExitPhases, ExitPcs
      <4>4. CASE ~(vi < NumVaults)
        BY <4>1, <4>2, <4>4, LoopStep DEF ExitPhases, ExitPcs
      <4> QED
        BY <4>3, <4>4
    <3> QED
      BY <3>1, <3>2
  <2> QED
    BY <2>1, <2>2
<1>9. CASE ExitVerifier
  <2>1. NothingHeld' /\ CalledIn' /\ EnterPhases' /\ SetPhases'
    BY <1>9
      DEF ExitVerifier, NothingHeld, CalledIn, EnterPhases, SetPhases, EnterPcs,
          ExitPcs, SetPcs
  <2>2. ExitPhases'
    <3>1. /\ UNCHANGED <<plain, enc, runPassword, secretsFile>>
          /\ runPassword = NoFile /\ secretsFile = NoFile /\ \A v \in Vaults : Opened(v)
      BY <1>9 DEF ExitVerifier, ExitPhases, ExitPcs
    <3>2. pc' = "idle" \/ (pc' = "exitMarker" /\ verifier' = NoFile)
      BY <1>9 DEF ExitVerifier, Applied
    <3> QED
      BY <3>1, <3>2 DEF ExitPhases, ExitPcs, Opened
  <2> QED
    BY <2>1, <2>2
<1>10. CASE ExitMarker
  <2>1. CalledIn' /\ EnterPhases' /\ ExitPhases' /\ SetPhases'
    BY <1>10
      DEF ExitMarker, CalledIn, EnterPhases, ExitPhases, SetPhases, EnterPcs,
          ExitPcs, SetPcs
  <2>2. NothingHeld'
    BY <1>10 DEF ExitMarker, NothingHeld, ExitPhases, ExitPcs
  <2> QED
    BY <2>1, <2>2
<1>11. CASE SetVerifier
  BY <1>11
    DEF SetVerifier, NothingHeld, CalledIn, EnterPhases, ExitPhases, SetPhases,
        EnterPcs, ExitPcs, SetPcs
<1>12. CASE SetReencrypt
  <2>1. NothingHeld' /\ CalledIn' /\ EnterPhases' /\ ExitPhases'
    BY LoopStep, <1>12
      DEF SetReencrypt, NothingHeld, CalledIn, EnterPhases, ExitPhases, EnterPcs,
          ExitPcs, SetPcs
  <2>2. SetPhases'
    <3>1. /\ enc[vi] \in EncFiles /\ newPw \in Passwords /\ \A v \in Vaults : enc[v] # NoFile
      BY <1>12 DEF TypeOK, SetReencrypt, SetPhases, SetPcs, CalledIn
    <3>2. enc' \in {enc, [enc EXCEPT ![vi] = [pw |-> newPw, text |-> enc[vi].text]]}
      BY <1>12, <3>1, Rekeyed DEF SetReencrypt
    <3>3. [pw |-> newPw, text |-> enc[vi].text] # NoFile
      BY <3>1
    <3> QED
      BY <3>1, <3>2, <3>3 DEF SetPhases, TypeOK
  <2> QED
    BY <2>1, <2>2
<1>13. CASE SetPersist
  <2>1. CalledIn' /\ EnterPhases' /\ ExitPhases' /\ SetPhases'
    BY <1>13
      DEF SetPersist, CalledIn, EnterPhases, ExitPhases, SetPhases, EnterPcs,
          ExitPcs, SetPcs
  <2>2. NothingHeld'
    BY <1>13 DEF SetPersist, NothingHeld, CalledIn, SetPcs
  <2> QED
    BY <2>1, <2>2
<1>14. CASE RollbackVault
  <2>1. NothingHeld' /\ CalledIn' /\ EnterPhases' /\ ExitPhases'
    BY LoopStep, <1>14
      DEF RollbackVault, NothingHeld, CalledIn, EnterPhases, ExitPhases, EnterPcs,
          ExitPcs, SetPcs
  <2>2. SetPhases'
    <3>1. enc[vi] \in EncFiles /\ pw \in Passwords /\ \A v \in Vaults : enc[v] # NoFile
      BY <1>14 DEF TypeOK, RollbackVault, SetPhases, SetPcs, CalledIn
    <3>2. enc' \in {enc, [enc EXCEPT ![vi] = [pw |-> pw, text |-> enc[vi].text]]}
      BY <1>14, <3>1, Rekeyed DEF RollbackVault
    <3>3. [pw |-> pw, text |-> enc[vi].text] # NoFile
      BY <3>1
    <3> QED
      BY <3>1, <3>2, <3>3 DEF SetPhases, TypeOK
  <2> QED
    BY <2>1, <2>2
<1>15. CASE RollbackVerifier
  BY <1>15
    DEF RollbackVerifier, NothingHeld, CalledIn, EnterPhases, ExitPhases, SetPhases,
        EnterPcs, ExitPcs, SetPcs
<1>16. CASE NoOpCall
  BY <1>16
    DEF Ready, MayRead, NoOpCall, NothingHeld, CalledIn, EnterPhases, ExitPhases, SetPhases,
        EnterPcs, ExitPcs, SetPcs, Sealed, Opened, Decrypts
<1>17. CASE RefusedCall
  BY <1>17
    DEF Ready, MayRead, RefusedCall, NothingHeld, CalledIn, EnterPhases, ExitPhases,
        SetPhases, EnterPcs, ExitPcs, SetPcs, Sealed, Opened, Decrypts
<1>18. CASE Crash
  BY <1>18
    DEF Crash, NothingHeld, CalledIn, EnterPhases, ExitPhases, SetPhases, EnterPcs,
        ExitPcs, SetPcs
<1>19. CASE Startup
  <2>1. NothingHeld' /\ EnterPhases' /\ ExitPhases' /\ SetPhases'
    BY <1>19
      DEF Startup, NothingHeld, EnterPhases, ExitPhases, SetPhases, EnterPcs,
          ExitPcs, SetPcs
  <2>2. CalledIn'
    BY <1>19 DEF Startup, NothingHeld, CalledIn, EnterPcs, ExitPcs, SetPcs
  <2> QED
    BY <2>1, <2>2
<1>20. ASSUME NEW p \in Passwords, EnterRun(p) PROVE OperationPhases'
  <2>1. NothingHeld' /\ CalledIn' /\ ExitPhases' /\ SetPhases'
    BY <1>20
      DEF Ready, MayRead, EnterRun, NothingHeld, CalledIn, ExitPhases, SetPhases, EnterPcs,
          ExitPcs, SetPcs, Sealed, Opened, Decrypts
  <2>2. EnterPhases'
    <3>1. pc' = "enterEncrypt" /\ vi' = 1 /\ \A v \in Vaults : ~(v < 1)
      BY <1>20 DEF EnterRun, Vaults
    <3> QED
      BY <3>1 DEF EnterPhases
  <2> QED
    BY <2>1, <2>2
<1>21. ASSUME NEW p \in Passwords, ExitRun(p) PROVE OperationPhases'
  BY <1>21
    DEF Ready, MayRead, ExitRun, NothingHeld, CalledIn, EnterPhases, ExitPhases, SetPhases,
        EnterPcs, ExitPcs, SetPcs, Sealed, Opened, Decrypts
<1>22. ASSUME NEW p \in Passwords, Unlock(p) PROVE OperationPhases'
  BY <1>22
    DEF Ready, MayRead, Unlock, NothingHeld, CalledIn, EnterPhases, ExitPhases, SetPhases,
        EnterPcs, ExitPcs, SetPcs, Sealed, Opened, Decrypts
<1>23. ASSUME NEW old \in Passwords, NEW new \in Passwords, SetPassword(old, new) PROVE OperationPhases'
  BY <1>23
    DEF Ready, MayRead, SetPassword, NothingHeld, CalledIn, EnterPhases, ExitPhases,
        SetPhases, EnterPcs, ExitPcs, SetPcs, Decrypts, Sealed, Opened, Decrypts
<1>24. ASSUME NEW k \in Keys, Editing(k) PROVE OperationPhases'
  BY <1>24, EditFrame
    DEF Framed, MayRead, NothingHeld, CalledIn, EnterPhases, ExitPhases, SetPhases, EnterPcs,
        ExitPcs, SetPcs
<1>26. ASSUME NEW e \in Entries, Register(e) PROVE OperationPhases'
  BY <1>26
    DEF Ready, MayRead, Register, NothingHeld, CalledIn, EnterPhases, ExitPhases, SetPhases,
        EnterPcs, ExitPcs, SetPcs, Sealed, Opened, Decrypts
<1>27. ASSUME NEW e \in Entries, PersistSecrets(e) PROVE OperationPhases'
  BY <1>27
    DEF Ready, MayRead, PersistSecrets, NothingHeld, CalledIn, EnterPhases, ExitPhases,
        SetPhases, EnterPcs, ExitPcs, SetPcs, Sealed, Opened, Decrypts
<1>28. CASE UNCHANGED vars
  BY <1>28
    DEF NothingHeld, CalledIn, EnterPhases, ExitPhases, SetPhases, Sealed, Opened,
        Decrypts, vars
<1> QED
  BY <1>1, <1>2, <1>3, <1>4, <1>5, <1>6, <1>7, <1>8, <1>9, <1>10, <1>11, <1>12,
     <1>13, <1>14, <1>15, <1>16, <1>17, <1>18, <1>19, <1>20, <1>21, <1>22, <1>23,
     <1>24, <1>26, <1>27, <1>28
    DEF Next, Editing

\* No step but those of the edits and a crash changes an edit, and none that needs c.Mu for
\* writing, or holds it, is taken during one.
LEMMA EditOrNot ==
    ASSUME TypeOK, Phases, [Next]_vars
    PROVE  \/ \E k \in Keys : Editing(k)
           \/ \A k \in Keys : edit'[k] = NoFile
           \/ UNCHANGED <<edit, status, pc, mode, guard, saved, mixed>> /\ ret' \in {ret, "refused"}
<1> DEFINE Outcome ==
             \/ \E k \in Keys : Editing(k)
             \/ \A k \in Keys : edit'[k] = NoFile
             \/ /\ UNCHANGED <<edit, status, pc, mode, guard, saved, mixed>>
                /\ ret' \in {ret, "refused"}
           Called == \/ \E p \in Passwords : EnterRun(p) \/ ExitRun(p) \/ Unlock(p)
                     \/ \E old, new \in Passwords : SetPassword(old, new)
                     \/ \E e \in Entries : PersistSecrets(e)
           Edited == \/ \E k \in Keys, p \in Passwords, persist \in BOOLEAN :
                            BeginConfigSet(k, p, persist)
                     \/ \E k \in Keys : ReplaceGuard(k) \/ WriteTemporary(k) \/ Publish(k)
           Aside == RefusedCall \/ UNCHANGED vars \/ \E e \in Entries : Register(e)
           Stepped1 == \/ EnterEncrypt \/ EnterRemove \/ EnterVerifier \/ EnterMarker \/ EnterPersist
                       \/ ExitSecrets \/ ExitDecrypt \/ ExitRemove \/ ExitVerifier \/ ExitMarker
           Stepped2 == \/ SetVerifier \/ SetReencrypt \/ SetPersist \/ RollbackVault
                       \/ RollbackVerifier \/ NoOpCall \/ Startup
<1> USE DEF Phases, EditPhases
<1>4. ASSUME Crash PROVE Outcome
  BY <1>4 DEF Crash
<1>5. ASSUME Aside PROVE Outcome
  <2>1. UNCHANGED <<edit, status, pc, mode, guard, saved, mixed>>
    <3>1. CASE RefusedCall
      BY <3>1 DEF RefusedCall, MayRead, Return, edits, memory
    <3>2. CASE UNCHANGED vars
      BY <3>2 DEF vars, edits, memory
    <3>3. CASE \E e \in Entries : Register(e)
      BY <3>3 DEF Register, edits, memory
    <3> QED
      BY <1>5, <3>1, <3>2, <3>3
  <2>2. ret' \in {ret, "refused"}
    BY <1>5 DEF RefusedCall, Register, vars, Return
  <2> QED
    BY <2>1, <2>2
<1>6. ASSUME edit' = edit, pc # "idle" \/ Ready \/ status # "up" PROVE Outcome
  BY <1>6 DEF Ready, MayRead
<1> HIDE DEF Outcome
<1>7. ASSUME Stepped1 PROVE Outcome
  BY <1>6, <1>7 DEF EnterEncrypt, EnterRemove, EnterVerifier, EnterMarker, EnterPersist,
     ExitSecrets, ExitDecrypt, ExitRemove, ExitVerifier, ExitMarker, edits
<1>8. ASSUME Stepped2 PROVE Outcome
  BY <1>6, <1>8 DEF SetVerifier, SetReencrypt, SetPersist, RollbackVault, RollbackVerifier,
     NoOpCall, Startup, edits
<1>9. ASSUME Called PROVE Outcome
  BY <1>6, <1>9 DEF EnterRun, ExitRun, Unlock, SetPassword, PersistSecrets, edits
<1>10. ASSUME Edited PROVE Outcome
  <2>1. \E k \in Keys : Editing(k)
    BY <1>10 DEF Editing
  <2> QED
    BY <2>1 DEF Outcome
<1>11. Next => Crash \/ Aside \/ Stepped1 \/ Stepped2 \/ Called \/ Edited
  BY DEF Next
<1> HIDE DEF Aside, Stepped1, Stepped2, Called, Edited
<1>12. UNCHANGED vars => Aside
  BY DEF Aside
<1>13. Outcome
  BY <1>4, <1>5, <1>7, <1>8, <1>9, <1>10, <1>11, <1>12
<1> QED
  BY <1>13 DEF Outcome

\* The edits after each step.
LEMMA EditsStay ==
    ASSUME TypeOK, Phases, [Next]_vars
    PROVE  EditPhases'
<1> USE DEF Phases, EditPhases
<1>1. ASSUME \A k \in Keys : edit'[k] = NoFile PROVE EditPhases'
  BY <1>1
<1>2. ASSUME edit' = edit, UNCHANGED <<status, pc, mode, guard>>, ret' \in {ret, "refused"}
      PROVE  EditPhases'
  BY <1>2 DEF MayRead, EditReturns
<1>3. ASSUME NEW k \in Keys, Editing(k) PROVE EditPhases'
  <2>1. /\ MayRead' /\ ret' \in EditReturns /\ mode' = mode
        /\ guard # NoFile => guard' # NoFile
    BY <1>3, EditFrame DEF Framed, MayRead
  <2>2. ASSUME NEW p \in Passwords, NEW persist \in BOOLEAN, BeginConfigSet(k, p, persist)
        PROVE  EditPhases'
    <3>1. mode = "run" => guard # NoFile
      BY <2>2 DEF BeginConfigSet
    <3>2. \A j \in Keys : edit'[j] # NoFile =>
              /\ j = k \/ edit[j] # NoFile
              /\ mode = "run" => edit'[j].pw \in Passwords
      BY <2>2, BegunEdit
    <3>3. \A j \in Keys : edit'[j] # NoFile /\ edit'[j].alone => j = k /\ Ready
      BY <2>2, BegunEdit
    <3>4. Ready => \A j \in Keys : j # k => edit'[j] = NoFile
      BY <2>2, BegunEdit DEF Ready
    <3> QED
      BY <2>1, <3>1, <3>2, <3>3, <3>4
  <2>3. ASSUME \A j \in Keys : edit'[j] # NoFile =>
                   edit[j] # NoFile /\ edit'[j].pw = edit[j].pw /\ edit'[j].alone = edit[j].alone
        PROVE  EditPhases'
    BY <2>1, <2>3
  <2>4. CASE ReplaceGuard(k)
    <3>1. edit[k] \in Edits /\ edit[k] # NoFile
      BY <2>4 DEF ReplaceGuard, InEdit, TypeOK
    <3>2. edit' = [edit EXCEPT ![k] = [edit[k] EXCEPT !.at = "write"]] \/ edit' = [edit EXCEPT ![k] = NoFile]
      BY <2>4 DEF ReplaceGuard, EndEdit
    <3>3. /\ [edit[k] EXCEPT !.at = "write"].pw = edit[k].pw
          /\ [edit[k] EXCEPT !.at = "write"].alone = edit[k].alone
      BY <3>1 DEF Edits
    <3> QED
      BY <2>3, <3>1, <3>2, <3>3 DEF TypeOK
  <2>5. CASE WriteTemporary(k)
    BY <2>3, <2>5, WrittenEdit
  <2>6. CASE Publish(k)
    BY <2>3, <2>6 DEF Publish, EndEdit, TypeOK
  <2> QED
    BY <1>3, <2>2, <2>4, <2>5, <2>6 DEF Editing
<1> QED
  BY <1>1, <1>2, <1>3, EditOrNot

\* The phases hold after each step.
LEMMA StepPhases ==
    ASSUME TypeOK, Phases, [Next]_vars
    PROVE  Phases'
  BY StepOperations, EditsStay DEF Phases

\* Types and phases hold in every reachable state.
LEMMA WellFormed == Spec => [](TypeOK /\ Phases)
<1>1. Init => TypeOK
  <2> SUFFICES ASSUME Init PROVE TypeOK
    OBVIOUS
  <2>1. faults \in [before : 0..MaxFaults, after : 0..MaxFaults]
    BY FaultAssumption DEF Init
  <2>2. 1 \in Vaults
    BY VaultAssumption DEF Vaults
  <2>3. plain \in [Vaults -> {NoFile} \cup Contents] /\ enc \in [Vaults -> {NoFile} \cup EncFiles]
    BY FileFacts DEF Init
  <2>4. /\ saved \in Contents /\ secrets \in SUBSET Entries /\ persisting \in SUBSET Entries
        /\ edit \in [Keys -> {NoFile} \cup Edits]
    BY FileFacts DEF Init
  <2> QED
    BY <2>1, <2>2, <2>3, <2>4 DEF Init, TypeOK, Labels, Results
<1>2. Init => Phases
  BY DEF Init, Phases, OperationPhases, EditPhases, NothingHeld, CalledIn, EnterPhases, ExitPhases, SetPhases, EnterPcs,
     ExitPcs, SetPcs
<1>3. TypeOK /\ Phases /\ [Next]_vars => TypeOK' /\ Phases'
  BY StepTyped, StepPhases
<1> QED
  BY <1>1, <1>2, <1>3, PTL DEF Spec

\* The state of the controller and its files is well formed in every reachable state.
THEOREM TypeCorrect == Spec => []TypeOK
  BY WellFormed, PTL

-----------------------------------------------------------------------------
(* The last copy of a config.                                              *)

\* One of the two files of each vault is there, and a password opens the ciphertext.
Filed == \A v \in Vaults : plain[v] # NoFile \/ enc[v] # NoFile
Sound(v) == enc[v] # NoFile => enc[v].pw # NoFile
Whole == \A v \in Vaults : v # 1 \/ ~mixed => Sound(v)

\* One of the two files of the first vault has the edits.
Kept ==
    /\ Filed
    /\ \/ plain[1] # NoFile /\ saved \subseteq plain[1]
       \/ enc[1] # NoFile /\ saved \subseteq enc[1].text

\* An edit in progress has them in its text, and the temporary file for itself; one that is
\* alone is in the guard too.
EditsLatest ==
    \A k \in Keys : edit[k] # NoFile =>
        /\ saved \subseteq edit[k].text /\ k \in edit[k].text /\ edit[k].others = {}
        /\ edit[k].alone /\ edit[k].at # "replace" /\ guard # NoFile => k \in guard

SavedInv == Kept /\ (status = "up" => Latest)

CopiesInv == Filed /\ Whole /\ (~mixed => SavedInv /\ EditsLatest)

\* The inductive form implies the property.
LEMMA KeptSurvives == TypeOK /\ CopiesInv => SavedConfigSurvives
<1> SUFFICES ASSUME TypeOK, CopiesInv PROVE SavedConfigSurvives
  OBVIOUS
<1>1. \A v \in Vaults : enc[v] # NoFile => enc[v].text # NoFile
  BY FileFacts DEF TypeOK
<1>2. ASSUME NEW v \in Vaults, Sound(v)
      PROVE  /\ plain[v] # NoFile => plain[v] \in Copies(v)
             /\ enc[v] # NoFile => enc[v].text \in Copies(v)
  <2>1. enc[v] # NoFile => enc[v] # Torn
    BY <1>2 DEF Sound, Torn
  <2> QED
    BY <1>1, <2>1 DEF Copies
<1>3. ASSUME NEW v \in Vaults \ {1} PROVE Copies(v) # {}
  BY <1>2 DEF CopiesInv, Filed, Whole
<1>4. ASSUME ~mixed PROVE \E text \in Copies(1) : saved \subseteq text
  BY <1>2, <1>4, VaultFacts DEF CopiesInv, Whole, SavedInv, Kept
<1> QED
  BY <1>3, <1>4 DEF SavedConfigSurvives

\* The two files of a vault after each step.
LEMMA StepFiled ==
    ASSUME TypeOK, Phases, CopiesInv, [Next]_vars
    PROVE  Filed' /\ Whole'
<1> USE FileFacts, VaultFacts DEF Goto, Return, Phases, OperationPhases, CopiesInv
<1>1. ASSUME UNCHANGED <<plain, enc, mixed>> PROVE Filed' /\ Whole'
  BY <1>1 DEF Filed, Whole, Sound
<1>2. ASSUME NEW v \in Vaults, NEW p \in Passwords, NEW c \in Contents,
             enc' = [enc EXCEPT ![v] = [pw |-> p, text |-> c]], UNCHANGED <<plain, mixed>>
      PROVE  Filed' /\ Whole'
  <2>1. enc'[v] = [pw |-> p, text |-> c] /\ \A w \in Vaults : w # v => enc'[w] = enc[w]
    BY <1>2 DEF TypeOK
  <2>2. [pw |-> p, text |-> c] # NoFile /\ [pw |-> p, text |-> c].pw = p
    OBVIOUS
  <2> QED
    BY <1>2, <2>1, <2>2 DEF Filed, Whole, Sound
<1>3. CASE EnterEncrypt
  <2>1. plain[vi] # NoFile => plain[vi] \in Contents
    BY DEF TypeOK
  <2>2. pw \in Passwords
    BY <1>3 DEF EnterEncrypt, CalledIn
  <2>3. UNCHANGED <<plain, mixed>>
    BY <1>3 DEF EnterEncrypt, edits
  <2>4. enc' = enc \/ (plain[vi] # NoFile /\ enc' = [enc EXCEPT ![vi] = [pw |-> pw, text |-> plain[vi]]])
    BY <1>3 DEF EnterEncrypt
  <2> QED
    BY <1>1, <1>2, <2>1, <2>2, <2>3, <2>4
<1>4. CASE EnterRemove
  <2>1. UNCHANGED <<enc, mixed>> /\ enc[vi] # NoFile
    BY <1>4 DEF EnterRemove, EnterPhases, edits, TypeOK, CalledIn, EnterPcs
  <2>2. plain' = plain \/ plain' = [plain EXCEPT ![vi] = NoFile]
    BY <1>4 DEF EnterRemove
  <2> QED
    BY <2>1, <2>2 DEF Filed, Whole, Sound, TypeOK
<1>5. CASE ExitDecrypt
  <2>1. UNCHANGED <<enc, mixed>>
    BY <1>5 DEF ExitDecrypt, edits
  <2>2. plain' = plain \/ (enc[vi] # NoFile /\ plain' = [plain EXCEPT ![vi] = enc[vi].text])
    BY <1>5 DEF ExitDecrypt, Decrypts
  <2>3. enc[vi] # NoFile => enc[vi].text # NoFile
    BY DEF TypeOK
  <2> QED
    BY <2>1, <2>2, <2>3 DEF Filed, Whole, Sound, TypeOK
<1>6. CASE ExitRemove
  <2>1. UNCHANGED <<plain, mixed>> /\ plain[vi] # NoFile
    BY <1>6 DEF ExitRemove, ExitPhases, edits, TypeOK
  <2>2. enc' = enc \/ enc' = [enc EXCEPT ![vi] = NoFile]
    BY <1>6 DEF ExitRemove
  <2> QED
    BY <2>1, <2>2 DEF Filed, Whole, Sound, TypeOK
<1>7. CASE SetReencrypt
  <2>1. /\ UNCHANGED <<plain, mixed>> /\ enc[vi] # NoFile /\ newPw \in Passwords
        /\ enc[vi].text \in Contents
    BY <1>7 DEF SetReencrypt, edits, SetPhases, SetPcs, CalledIn, TypeOK
  <2>2. enc' = enc \/ enc' = [enc EXCEPT ![vi] = [pw |-> newPw, text |-> enc[vi].text]]
    BY <1>7, <2>1, Rekeyed DEF SetReencrypt
  <2> QED
    BY <1>1, <1>2, <2>1, <2>2
<1>8. CASE RollbackVault
  <2>1. /\ UNCHANGED <<plain, mixed>> /\ enc[vi] # NoFile /\ pw \in Passwords
        /\ enc[vi].text \in Contents
    BY <1>8 DEF RollbackVault, edits, SetPhases, SetPcs, CalledIn, TypeOK
  <2>2. enc' = enc \/ enc' = [enc EXCEPT ![vi] = [pw |-> pw, text |-> enc[vi].text]]
    BY <1>8, <2>1, Rekeyed DEF RollbackVault
  <2> QED
    BY <1>1, <1>2, <2>1, <2>2
<1>9. ASSUME NEW k \in Keys, Editing(k) PROVE Filed' /\ Whole'
  <2>1. Filed' /\ \A v \in Vaults : v # 1 => Sound(v)'
    BY <1>9, EditFrame DEF Framed, Filed, Whole, Sound
  <2>2. ASSUME ~mixed' PROVE Sound(1)'
    <3>1. CASE ~Publish(k)
      <4>1. enc' = enc /\ ~mixed
        <5>1. CASE \E p \in Passwords, persist \in BOOLEAN : BeginConfigSet(k, p, persist)
          BY <5>1, <2>2 DEF BeginConfigSet, disk
        <5>2. CASE ReplaceGuard(k)
          BY <5>2, <2>2 DEF ReplaceGuard, disk
        <5>3. CASE WriteTemporary(k)
          <6>1. mixed' = (mixed \/ Writers(k) # {}) /\ UNCHANGED enc
            BY <5>3 DEF WriteTemporary, disk
          <6> QED
            BY <6>1, <2>2
        <5> QED
          BY <1>9, <3>1, <5>1, <5>2, <5>3 DEF Editing
      <4> QED
        BY <4>1 DEF Whole, Sound
    <3>2. CASE Publish(k)
      <4>1. ~mixed /\ edit[k] # NoFile /\ edit[k].others = {}
        BY <2>2, <3>2 DEF Publish, InEdit, EditsLatest
      <4>2. mode = "run" => edit[k].pw \in Passwords
        BY <4>1 DEF EditPhases
      <4>3. enc' = enc \/ (mode = "run" /\ enc' = [enc EXCEPT ![1] = [pw |-> edit[k].pw, text |-> edit[k].text]])
        <5>1. PICK o \in Outcomes : IF mode = "run" THEN \E f \in PublishedEnc(k, o) : enc' = [enc EXCEPT ![1] = f]
                                    ELSE enc' = enc
          BY <3>2 DEF Publish
        <5>2. PublishedEnc(k, o) = {IF Applied(o) THEN [pw |-> edit[k].pw, text |-> edit[k].text] ELSE enc[1]}
          BY <4>1 DEF PublishedEnc
        <5>3. [enc EXCEPT ![1] = enc[1]] = enc
          BY DEF TypeOK
        <5> QED
          BY <5>1, <5>2, <5>3
      <4> QED
        <5>1. enc[1] # NoFile => enc[1].pw # NoFile
          BY <4>1 DEF Whole, Sound
        <5>2. CASE enc' = enc
          BY <5>1, <5>2 DEF Sound
        <5>3. CASE mode = "run" /\ enc' = [enc EXCEPT ![1] = [pw |-> edit[k].pw, text |-> edit[k].text]]
          <6>1. enc'[1] = [pw |-> edit[k].pw, text |-> edit[k].text]
            BY <5>3 DEF TypeOK
          <6>2. enc'[1].pw \in Passwords
            BY <4>2, <5>3, <6>1
          <6> QED
            BY <6>2 DEF Sound
        <5> QED
          BY <4>3, <5>2, <5>3
    <3> QED
      BY <3>1, <3>2
  <2> QED
    BY <2>1, <2>2 DEF Whole
<1>10. CASE EnterVerifier \/ EnterMarker \/ EnterPersist \/ ExitSecrets \/ ExitVerifier \/ ExitMarker
            \/ SetVerifier \/ SetPersist \/ RollbackVerifier
  BY <1>1, <1>10 DEF EnterVerifier, EnterMarker, EnterPersist, ExitSecrets, ExitVerifier, ExitMarker,
     SetVerifier, SetPersist, RollbackVerifier, edits
<1>11. CASE NoOpCall \/ RefusedCall \/ Crash \/ Startup \/ UNCHANGED vars
  BY <1>1, <1>11 DEF NoOpCall, RefusedCall, Crash, Startup, vars, disk, edits
<1>12. CASE \/ \E p \in Passwords : EnterRun(p) \/ ExitRun(p) \/ Unlock(p)
            \/ \E old, new \in Passwords : SetPassword(old, new)
            \/ \E e \in Entries : Register(e) \/ PersistSecrets(e)
  BY <1>1, <1>12 DEF EnterRun, ExitRun, Unlock, SetPassword, Register, PersistSecrets, disk, edits
<1> QED
  BY <1>3, <1>4, <1>5, <1>6, <1>7, <1>8, <1>9, <1>10, <1>11, <1>12 DEF Next, Editing

\* Every step keeps what is saved.
LEMMA StepSaved ==
    ASSUME TypeOK, Phases, SavedInv, EditsLatest, Filed', ~mixed', [Next]_vars
    PROVE  SavedInv'
<1> USE FileFacts, VaultFacts DEF edits, Goto, Return, Phases, OperationPhases, SavedInv, Filed
<1>1. ASSUME UNCHANGED <<plain, enc, saved, status, mode, guard>> PROVE SavedInv'
  BY <1>1 DEF Kept, Latest
\* While the kernel is up, the latest copy is the one that is kept.
<1>2. ASSUME \A v \in Vaults : plain'[v] # NoFile \/ enc'[v] # NoFile,
             mode' \in {"default", "run"}, Latest'
      PROVE  SavedInv'
  BY <1>2 DEF Kept, Latest
<1>3. CASE EnterEncrypt
  <2>1. UNCHANGED <<plain, saved, mode, guard>> /\ mode = "default" /\ status = "up"
    BY <1>3 DEF EnterEncrypt, memory, CalledIn, EnterPcs, NothingHeld
  <2>2. enc' = enc \/ (plain[vi] # NoFile /\ enc' = [enc EXCEPT ![vi] = [pw |-> pw, text |-> plain[vi]]])
    BY <1>3 DEF EnterEncrypt
  <2>3. plain[vi] # NoFile => [pw |-> pw, text |-> plain[vi]] # NoFile
    BY <1>3 DEF EnterEncrypt, CalledIn, TypeOK
  <2>4. \A v \in Vaults : plain'[v] # NoFile \/ enc'[v] # NoFile
    BY <2>1, <2>2, <2>3 DEF Kept, TypeOK
  <2>5. Latest'
    BY <2>1, <2>2 DEF Latest, TypeOK
  <2> QED
    BY <1>2, <2>1, <2>4, <2>5
<1>4. CASE EnterRemove
  <2>1. /\ UNCHANGED <<enc, saved, mode, guard>> /\ mode = "default" /\ status = "up"
        /\ enc[vi] # NoFile /\ enc[vi].text = plain[vi] /\ plain[vi] # NoFile
    BY <1>4 DEF EnterRemove, memory, CalledIn, EnterPcs, NothingHeld, EnterPhases, TypeOK
  <2>2. plain' = plain \/ plain' = [plain EXCEPT ![vi] = NoFile]
    BY <1>4 DEF EnterRemove
  <2>3. \A v \in Vaults : plain'[v] # NoFile \/ enc'[v] # NoFile
    BY <2>1, <2>2 DEF Kept, TypeOK
  <2>4. Latest'
    BY <2>1, <2>2 DEF Latest, TypeOK
  <2> QED
    BY <1>2, <2>1, <2>3, <2>4
<1>5. CASE EnterMarker
  <2>1. /\ UNCHANGED <<plain, enc, saved>> /\ mode = "default" /\ status = "up"
        /\ mode' \in {"default", "run"} /\ guard' = enc[1].text
    BY <1>5 DEF EnterMarker, CalledIn, EnterPcs, NothingHeld
  <2>2. plain[1] = NoFile /\ enc[1] # NoFile
    BY <1>5 DEF EnterMarker, EnterPhases, Sealed, Decrypts
  <2>3. Latest'
    BY <2>1, <2>2 DEF Latest
  <2> QED
    BY <1>2, <2>1, <2>3 DEF Kept
<1>6. CASE ExitDecrypt
  <2>1. UNCHANGED <<enc, saved, mode, guard>> /\ mode = "run" /\ status = "up"
    BY <1>6 DEF ExitDecrypt, memory, CalledIn, ExitPcs, NothingHeld
  <2>2. plain' = plain \/ (enc[vi] # NoFile /\ plain' = [plain EXCEPT ![vi] = enc[vi].text])
    BY <1>6 DEF ExitDecrypt, Decrypts
  <2>3. enc[vi] # NoFile => enc[vi].text # NoFile
    BY DEF TypeOK
  <2>4. \A v \in Vaults : plain'[v] # NoFile \/ enc'[v] # NoFile
    BY <2>1, <2>2, <2>3 DEF Kept, TypeOK
  <2>5. Latest'
    BY <2>1, <2>2 DEF Latest, TypeOK
  <2> QED
    BY <1>2, <2>1, <2>4, <2>5
<1>7. CASE ExitRemove
  <2>1. /\ UNCHANGED <<plain, saved, mode, guard>> /\ mode = "run" /\ status = "up"
        /\ enc[vi] # NoFile /\ plain[vi] = enc[vi].text /\ plain[vi] # NoFile
    BY <1>7 DEF ExitRemove, memory, CalledIn, ExitPcs, NothingHeld, ExitPhases, TypeOK
  <2>2. enc' = enc \/ enc' = [enc EXCEPT ![vi] = NoFile]
    BY <1>7 DEF ExitRemove
  <2>3. \A v \in Vaults : plain'[v] # NoFile \/ enc'[v] # NoFile
    BY <2>1, <2>2 DEF Kept, TypeOK
  <2>4. Latest'
    BY <2>1, <2>2 DEF Latest, TypeOK
  <2> QED
    BY <1>2, <2>1, <2>3, <2>4
<1>8. CASE ExitMarker
  <2>1. /\ UNCHANGED <<plain, enc, saved>> /\ mode = "run" /\ status = "up"
        /\ mode' \in {"default", "run"} /\ guard' \in {guard, NoFile}
    BY <1>8 DEF ExitMarker, CalledIn, ExitPcs, NothingHeld
  <2>2. plain[1] # NoFile /\ enc[1] = NoFile
    BY <1>8 DEF ExitMarker, ExitPhases, Opened
  <2>3. Latest'
    BY <2>1, <2>2 DEF Latest
  <2> QED
    BY <1>2, <2>1, <2>3 DEF Kept
\* A vault that is re-encrypted keeps its text.
<1>9. ASSUME NEW p \in Passwords, enc[vi] \in EncFiles,
             enc' = [enc EXCEPT ![vi] = [pw |-> p, text |-> enc[vi].text]],
             UNCHANGED <<plain, saved, mode, guard>>, status = "up"
      PROVE  SavedInv'
  <2>1. \A v \in Vaults : enc[v] # NoFile <=> enc'[v] # NoFile
    BY <1>9 DEF TypeOK
  <2>2. enc[1] # NoFile => enc'[1].text = enc[1].text
    BY <1>9 DEF TypeOK
  <2>3. Latest'
    <3>1. CASE mode = "default"
      BY <1>9, <2>2, <3>1 DEF Latest, Kept
    <3>2. CASE mode = "run"
      BY <1>9, <2>1, <2>2, <3>2 DEF Latest, Kept
    <3> QED
      BY <3>1, <3>2 DEF TypeOK
  <2> QED
    BY <1>2, <1>9, <2>1, <2>3 DEF Kept, TypeOK
<1>10. CASE SetReencrypt
  <2>1. /\ UNCHANGED <<plain, saved, status, mode, guard>> /\ status = "up"
        /\ enc[vi] # NoFile /\ enc[vi] \in EncFiles /\ newPw \in Passwords
    BY <1>10 DEF SetReencrypt, memory, CalledIn, SetPcs, NothingHeld, SetPhases, TypeOK
  <2>2. enc' \in {enc, [enc EXCEPT ![vi] = [pw |-> newPw, text |-> enc[vi].text]]}
    BY <1>10, <2>1, Rekeyed DEF SetReencrypt
  <2> QED
    BY <1>1, <1>9, <2>1, <2>2
<1>11. CASE RollbackVault
  <2>1. /\ UNCHANGED <<plain, saved, status, mode, guard>> /\ status = "up"
        /\ enc[vi] # NoFile /\ enc[vi] \in EncFiles /\ pw \in Passwords
    BY <1>11 DEF RollbackVault, memory, CalledIn, SetPcs, NothingHeld, SetPhases, TypeOK
  <2>2. enc' \in {enc, [enc EXCEPT ![vi] = [pw |-> pw, text |-> enc[vi].text]]}
    BY <1>11, <2>1, Rekeyed DEF RollbackVault
  <2> QED
    BY <1>1, <1>9, <2>1, <2>2
<1>12. ASSUME NEW p \in Passwords, Unlock(p) PROVE SavedInv'
  <2>1. /\ UNCHANGED <<plain, enc, saved, mode>> /\ mode = "run" /\ status = "up"
        /\ enc[1] # NoFile /\ guard' = enc[1].text
    BY <1>12 DEF Unlock, Ready, MayRead, Decrypts, disk
  <2>2. Latest'
    BY <2>1 DEF Latest
  <2> QED
    BY <1>2, <2>1, <2>2 DEF Kept
\* An edit is of the latest text, and its text becomes the latest.
<1>14. ASSUME NEW k \in Keys, Editing(k), ~Publish(k) PROVE SavedInv'
  <2>1. UNCHANGED <<plain, enc, saved, status, mode>>
    BY <1>14 DEF Editing, BeginConfigSet, ReplaceGuard, WriteTemporary, disk, memory
  <2>2. guard' = guard \/ (edit[k] # NoFile /\ guard' = edit[k].text)
    BY <1>14 DEF Editing, BeginConfigSet, ReplaceGuard, WriteTemporary, memory, InEdit
  <2>3. edit[k] # NoFile => saved \subseteq edit[k].text
    BY DEF EditsLatest
  <2> QED
    BY <2>1, <2>2, <2>3 DEF Kept, Latest
<1>15. ASSUME NEW k \in Keys, Publish(k) PROVE SavedInv'
  <2> DEFINE text == edit[k].text
  <2>1. /\ edit[k] # NoFile /\ edit[k] \in Edits /\ saved \subseteq text /\ edit[k].others = {}
        /\ status = "up"
    BY <1>15 DEF Publish, InEdit, EditsLatest, TypeOK, EditPhases, MayRead
  <2>2. text \in Contents /\ text # NoFile /\ [pw |-> edit[k].pw, text |-> text] # NoFile
    BY <2>1 DEF Edits, EncFiles
  <2>3. PICK o \in Outcomes, stored \in BOOLEAN :
            /\ stored => o = "ok"
            /\ IF mode = "run"
               THEN /\ \E f \in PublishedEnc(k, o) : enc' = [enc EXCEPT ![1] = f]
                    /\ UNCHANGED plain
               ELSE /\ \E f \in Published(k, o) : plain' = [plain EXCEPT ![1] = f]
                    /\ UNCHANGED enc
            /\ saved' = IF stored /\ edit[k].alone THEN saved \cup {k} ELSE saved
    BY <1>15 DEF Publish
  <2>4. UNCHANGED <<status, mode, guard>>
    BY <1>15 DEF Publish, memory
  <2>5. saved' \subseteq text /\ (guard # NoFile => saved' \subseteq saved \cup {k} /\ (k \in guard \/ saved' = saved))
    BY <1>15, <2>1, <2>3 DEF Publish, InEdit, EditsLatest
  <2>6. \/ saved' = saved /\ UNCHANGED <<plain, enc>>
        \/ mode = "run" /\ enc' = [enc EXCEPT ![1] = [pw |-> edit[k].pw, text |-> text]] /\ plain' = plain
        \/ mode # "run" /\ plain' = [plain EXCEPT ![1] = text] /\ enc' = enc
    BY <2>1, <2>3 DEF Published, PublishedEnc, Applied, TypeOK
  <2>7. Latest'
    BY <2>1, <2>2, <2>4, <2>5, <2>6 DEF Latest, TypeOK
  <2> QED
    BY <1>2, <2>1, <2>4, <2>7 DEF TypeOK
<1>16. CASE Crash
  BY <1>16 DEF Crash, disk, Kept
\* A kernel that starts finds one file of each vault.
<1>17. CASE Startup
  <2>1. UNCHANGED <<plain, enc, saved, guard>> /\ guard = NoFile
    BY <1>17 DEF Startup, disk, NothingHeld
  <2>2. CASE status' = "up"
    <3>1. mode' \in {"default", "run"} /\ ~(plain[1] # NoFile /\ enc[1] # NoFile)
      BY <1>17, <2>2 DEF Startup, Residue, TypeOK
    <3>2. Latest'
      BY <2>1, <3>1 DEF Latest, Kept
    <3> QED
      BY <1>2, <2>1, <3>1, <3>2 DEF Kept
  <2>3. CASE status' # "up"
    BY <2>1, <2>3 DEF Kept
  <2> QED
    BY <2>2, <2>3
<1>18. CASE EnterVerifier \/ EnterPersist \/ ExitSecrets \/ ExitVerifier \/ SetVerifier \/ SetPersist
            \/ RollbackVerifier \/ NoOpCall \/ RefusedCall \/ UNCHANGED vars
  BY <1>1, <1>18 DEF EnterVerifier, EnterPersist, ExitSecrets, ExitVerifier, SetVerifier,
     SetPersist, RollbackVerifier, NoOpCall, RefusedCall, vars, disk, memory
<1>19. ASSUME NEW p \in Passwords, EnterRun(p) \/ ExitRun(p) PROVE SavedInv'
  BY <1>1, <1>19 DEF EnterRun, ExitRun, disk, memory
<1>20. ASSUME NEW old \in Passwords, NEW new \in Passwords, SetPassword(old, new) PROVE SavedInv'
  BY <1>1, <1>20 DEF SetPassword, disk, memory
<1>21. ASSUME NEW e \in Entries, Register(e) \/ PersistSecrets(e) PROVE SavedInv'
  BY <1>1, <1>21 DEF Register, PersistSecrets, disk, memory
<1> QED
  BY <1>3, <1>4, <1>5, <1>6, <1>7, <1>8, <1>10, <1>11, <1>12, <1>14, <1>15, <1>16,
     <1>17, <1>18,
     <1>19, <1>20, <1>21 DEF Next, Editing

\* The edits in progress keep up with it.
LEMMA StepEdits ==
    ASSUME TypeOK, Phases, SavedInv, EditsLatest, ~mixed', [Next]_vars
    PROVE  EditsLatest'
<1> USE FileFacts, VaultFacts DEF Phases, EditsLatest
<1>1. ASSUME \A k \in Keys : edit'[k] = NoFile PROVE EditsLatest'
  BY <1>1
<1>2. ASSUME UNCHANGED <<edit, guard, saved>> PROVE EditsLatest'
  BY <1>2
<1>3. ASSUME NEW k \in Keys, NEW p \in Passwords, NEW persist \in BOOLEAN, BeginConfigSet(k, p, persist)
      PROVE  EditsLatest'
  <2>1. status = "up" /\ UNCHANGED <<saved, guard>>
    BY <1>3 DEF BeginConfigSet, MayRead, memory
  <2>2. saved \subseteq ConfigBase
    BY <1>3, <2>1 DEF BeginConfigSet, ConfigBase, SavedInv, Latest, TypeOK
  <2> QED
    BY <1>3, <2>1, <2>2, BegunEdit
<1>4. ASSUME NEW k \in Keys, ReplaceGuard(k) PROVE EditsLatest'
  <2>1. edit[k] \in Edits /\ edit[k] # NoFile
    BY <1>4 DEF ReplaceGuard, InEdit, TypeOK
  <2>2. edit' = [edit EXCEPT ![k] = [edit[k] EXCEPT !.at = "write"]] \/ edit' = [edit EXCEPT ![k] = NoFile]
    BY <1>4 DEF ReplaceGuard, EndEdit
  <2>3. /\ [edit[k] EXCEPT !.at = "write"].text = edit[k].text
        /\ [edit[k] EXCEPT !.at = "write"].others = edit[k].others
    BY <2>1 DEF Edits
  <2>4. saved' = saved /\ guard' = IF guard # NoFile THEN edit[k].text ELSE guard
    BY <1>4 DEF ReplaceGuard
  <2>5. \A j \in Keys : j # k => edit'[j] = edit[j] /\ ~(edit[j] # NoFile /\ edit[j].alone)
    BY <2>1, <2>2 DEF TypeOK, EditPhases
  <2>6. edit'[k] # NoFile => edit'[k].text = edit[k].text /\ edit'[k].others = edit[k].others
    BY <2>2, <2>3 DEF TypeOK
  <2> QED
    BY <2>1, <2>4, <2>5, <2>6
<1>5. ASSUME NEW k \in Keys, WriteTemporary(k) PROVE EditsLatest'
  <2>1. Writers(k) = {} /\ UNCHANGED <<saved, guard>>
    BY <1>5 DEF WriteTemporary, memory
  <2> QED
    BY <1>5, <2>1, WrittenEdit
<1>6. ASSUME NEW k \in Keys, Publish(k) PROVE EditsLatest'
  <2>1. /\ edit[k] # NoFile /\ edit' = [edit EXCEPT ![k] = NoFile] /\ guard' = guard
        /\ saved' = saved \/ edit[k].alone
    BY <1>6 DEF Publish, InEdit, EndEdit, memory
  <2>2. CASE saved' = saved
    BY <2>1, <2>2 DEF TypeOK
  <2>3. CASE edit[k].alone
    BY <1>1, <2>1, <2>3 DEF TypeOK, EditPhases
  <2> QED
    BY <2>1, <2>2, <2>3
<1> QED
  BY <1>1, <1>2, <1>3, <1>4, <1>5, <1>6, EditOrNot DEF Editing

\* No step undoes a mixture.
LEMMA MixedStays ==
    ASSUME [Next]_vars
    PROVE  mixed => mixed'
  BY
    DEF Next, vars, edits, EnterEncrypt, EnterRemove, EnterVerifier, EnterMarker,
        EnterPersist, ExitSecrets, ExitDecrypt, ExitRemove, ExitVerifier, ExitMarker,
        SetVerifier, SetReencrypt, SetPersist, RollbackVault, RollbackVerifier, NoOpCall,
        RefusedCall, Crash, Startup, EnterRun, ExitRun, Unlock, SetPassword,
        BeginConfigSet, ReplaceGuard, WriteTemporary, Publish, Register, PersistSecrets

\* The copies after each step.
LEMMA StepCopies ==
    ASSUME TypeOK, Phases, CopiesInv, [Next]_vars
    PROVE  CopiesInv'
<1>1. Filed' /\ Whole'
  BY StepFiled
<1>2. ASSUME ~mixed' PROVE SavedInv' /\ EditsLatest'
  <2>1. SavedInv /\ EditsLatest
    BY <1>2, MixedStays DEF CopiesInv
  <2> QED
    BY <1>1, <1>2, <2>1, StepSaved, StepEdits
<1> QED
  BY <1>1, <1>2 DEF CopiesInv

\* They are there in the beginning.
LEMMA InitSaved == Init => CopiesInv
<1> SUFFICES ASSUME Init PROVE CopiesInv
  OBVIOUS
<1>1. \A v \in Vaults : plain[v] = {} /\ {} # NoFile
  BY FileFacts DEF Init
<1>2. /\ 1 \in Vaults /\ saved = {} /\ status = "down" /\ \A v \in Vaults : enc[v] = NoFile
      /\ \A k \in Keys : edit[k] = NoFile
  BY VaultAssumption DEF Init, Vaults
<1> QED
  BY <1>1, <1>2 DEF CopiesInv, Filed, Whole, Sound, EditsLatest, SavedInv, Kept

\* However often the kernel crashes and whatever file operations fail, no vault loses its
\* last copy and no edit that config-set --persist reported as stored is lost.
THEOREM ConfigsSurvive == Spec => []SavedConfigSurvives
<1>1. Init => CopiesInv
  BY InitSaved
<1>2. TypeOK /\ Phases /\ CopiesInv /\ [Next]_vars => CopiesInv'
  BY StepCopies
<1>3. TypeOK /\ CopiesInv => SavedConfigSurvives
  BY KeptSurvives
<1> QED
  BY <1>1, <1>2, <1>3, WellFormed, PTL DEF Spec

-----------------------------------------------------------------------------
(* What a success or a rotation leaves behind, and what a restart finds.   *)

\* Calls that return neither success; those that are under way.
LEMMA StepSuccess ==
    ASSUME TypeOK, Phases, SuccessIsComplete, [Next]_vars
    PROVE  SuccessIsComplete'
<1> USE FileFacts, VaultFacts DEF Goto, Return, Phases, OperationPhases, OperationPhases
<1>1. ASSUME pc' # "idle" \/ ret' \notin {"enterOk", "exitOk"} PROVE SuccessIsComplete'
  BY <1>1 DEF SuccessIsComplete
<1>2. ASSUME pc = "idle", ret' = ret, UNCHANGED <<plain, enc, verifier, marker, mode, runPassword>>,
             secretsFile' # secretsFile => mode = "run" /\ runPassword # NoFile
                                           /\ secretsFile' # NoFile /\ secretsFile'.pw = runPassword
      PROVE  SuccessIsComplete'
  <2>1. ASSUME ret = "enterOk" PROVE secretsFile' # NoFile /\ secretsFile'.pw = verifier
    BY <1>2, <2>1 DEF SuccessIsComplete
  <2>2. ASSUME ret = "exitOk" PROVE secretsFile' = NoFile
    BY <1>2, <2>2 DEF SuccessIsComplete
  <2> QED
    BY <1>2, <2>1, <2>2 DEF SuccessIsComplete, Decrypts
<1>3. CASE EnterPersist
  <2>1. CASE ret' = "enterOk"
    <3>1. /\ UNCHANGED <<plain, enc, verifier, marker, mode, runPassword, pw>>
          /\ secretsFile' = [pw |-> runPassword, reg |-> secrets]
      BY <1>3, <2>1 DEF EnterPersist, Applied, memory, args
    <3>2. /\ mode = "run" /\ marker = "run" /\ verifier = pw /\ runPassword = pw /\ pw \in Passwords
          /\ \A v \in Vaults : Sealed(v)
      BY <1>3 DEF EnterPersist, EnterPhases, CalledIn
    <3>3. secretsFile' # NoFile /\ secretsFile'.pw = pw
      BY <3>1, <3>2 DEF TypeOK
    <3> QED
      BY <2>1, <3>1, <3>2, <3>3 DEF SuccessIsComplete, Sealed, Decrypts
  <2>2. CASE ret' = "enterErr"
    BY <1>1, <2>2
  <2> QED
    BY <1>3, <2>1, <2>2 DEF EnterPersist
<1>4. CASE ExitMarker
  <2>1. CASE ret' = "exitOk"
    <3>1. /\ UNCHANGED <<plain, enc, verifier, runPassword, secretsFile>>
          /\ mode' = "default" /\ marker' = "default"
      BY <1>4, <2>1 DEF ExitMarker, Applied
    <3>2. /\ verifier = NoFile /\ runPassword = NoFile /\ secretsFile = NoFile
          /\ \A v \in Vaults : Opened(v)
      BY <1>4 DEF ExitMarker, ExitPhases, ExitPcs
    <3> QED
      BY <2>1, <3>1, <3>2 DEF SuccessIsComplete, Opened
  <2>2. CASE ret' = "exitErr"
    BY <1>1, <2>2
  <2> QED
    BY <1>4, <2>1, <2>2 DEF ExitMarker
<1>5. CASE EnterEncrypt \/ EnterVerifier \/ EnterMarker \/ ExitSecrets \/ ExitDecrypt \/ ExitVerifier
  BY <1>1, <1>5
    DEF EnterEncrypt, EnterVerifier, EnterMarker, ExitSecrets, ExitDecrypt,
        ExitVerifier
<1>6. CASE SetVerifier \/ SetPersist \/ RollbackVerifier \/ NoOpCall \/ RefusedCall \/ Crash
  BY <1>1, <1>6 DEF SetVerifier, SetPersist, RollbackVerifier, NoOpCall, RefusedCall, Crash
<1>7. CASE EnterRemove \/ ExitRemove
  <2>1. pc' # "idle" \/ ret' \in {"enterErr", "exitErr"}
    BY <1>7, LoopStep DEF EnterRemove, ExitRemove
  <2> QED
    BY <1>1, <2>1
<1>8. CASE SetReencrypt \/ RollbackVault
  <2>1. pc' # "idle"
    BY <1>8, LoopStep DEF SetReencrypt, RollbackVault
  <2> QED
    BY <1>1, <2>1
<1>9. ASSUME NEW p \in Passwords, EnterRun(p) \/ ExitRun(p) \/ Unlock(p) PROVE SuccessIsComplete'
  BY <1>1, <1>9 DEF EnterRun, ExitRun, Unlock
<1>10. ASSUME NEW old \in Passwords, NEW new \in Passwords, SetPassword(old, new)
       PROVE  SuccessIsComplete'
  BY <1>1, <1>10 DEF SetPassword
<1>11. ASSUME NEW k \in Keys, Editing(k)
       PROVE  SuccessIsComplete'
  BY <1>1, <1>11, EditFrame DEF Framed, EditReturns
<1>12. ASSUME NEW e \in Entries, Register(e) PROVE SuccessIsComplete'
  <2>1. UNCHANGED <<plain, enc, verifier, marker, secretsFile, mode, runPassword, pc, ret>>
    BY <1>12 DEF Register, disk, memory
  <2> QED
    BY <1>1, <1>2, <2>1
<1>13. ASSUME NEW e \in Entries, PersistSecrets(e) PROVE SuccessIsComplete'
  <2>1. pc = "idle" /\ UNCHANGED <<plain, enc, verifier, marker, mode, runPassword, pc, ret>>
    BY <1>13 DEF PersistSecrets, Ready, MayRead, memory
  <2>2. secretsFile' # secretsFile =>
            /\ mode = "run" /\ runPassword # NoFile
            /\ secretsFile' = [pw |-> runPassword, reg |-> secrets]
    BY <1>13 DEF PersistSecrets
  <2>3. runPassword # NoFile => [pw |-> runPassword, reg |-> secrets] # NoFile
    BY DEF TypeOK
  <2> QED
    BY <1>2, <2>1, <2>2, <2>3
<1>14. CASE Startup
  BY <1>1, <1>14 DEF Startup, NothingHeld
<1>15. CASE UNCHANGED vars
  BY <1>15 DEF SuccessIsComplete, Decrypts, vars, disk, memory
<1> QED
  BY <1>3, <1>4, <1>5, <1>6, <1>7, <1>8, <1>9, <1>10, <1>11, <1>12, <1>13, <1>14,
     <1>15
    DEF Next, Editing

\* Until a kernel that has started is called, it serves the files it found.
LEMMA StepDefault ==
    ASSUME TypeOK, Phases, Filed, DefaultMeansPlaintext, [Next]_vars
    PROVE  DefaultMeansPlaintext'
<1> USE FileFacts, VaultFacts DEF Goto, Return, Phases, OperationPhases, Ready, MayRead
<1>1. ASSUME pc' # "idle" \/ ret' # "none" \/ status' # "up" PROVE DefaultMeansPlaintext'
  BY <1>1 DEF DefaultMeansPlaintext
<1>2. ASSUME UNCHANGED <<plain, enc, mode, pc, ret, status>> PROVE DefaultMeansPlaintext'
  BY <1>2 DEF DefaultMeansPlaintext
<1>3. CASE EnterEncrypt \/ EnterVerifier \/ EnterMarker \/ EnterPersist
  BY <1>1, <1>3 DEF EnterEncrypt, EnterVerifier, EnterMarker, EnterPersist
<1>4. CASE ExitSecrets \/ ExitDecrypt \/ ExitVerifier \/ ExitMarker
  BY <1>1, <1>4 DEF ExitSecrets, ExitDecrypt, ExitVerifier, ExitMarker
<1>5. CASE SetVerifier \/ SetPersist \/ RollbackVerifier \/ NoOpCall \/ RefusedCall \/ Crash
  BY <1>1, <1>5 DEF SetVerifier, SetPersist, RollbackVerifier, NoOpCall, RefusedCall, Crash
<1>6. CASE EnterRemove \/ ExitRemove \/ SetReencrypt \/ RollbackVault
  <2>1. pc' # "idle" \/ ret' # "none"
    BY <1>6, LoopStep DEF EnterRemove, ExitRemove, SetReencrypt, RollbackVault
  <2> QED
    BY <1>1, <2>1
<1>7. ASSUME NEW p \in Passwords, EnterRun(p) \/ ExitRun(p) \/ Unlock(p)
      PROVE  DefaultMeansPlaintext'
  BY <1>1, <1>7 DEF EnterRun, ExitRun, Unlock
<1>8. ASSUME NEW old \in Passwords, NEW new \in Passwords, SetPassword(old, new)
      PROVE  DefaultMeansPlaintext'
  BY <1>1, <1>8 DEF SetPassword
<1>9. ASSUME NEW k \in Keys, Editing(k)
      PROVE  DefaultMeansPlaintext'
  BY <1>1, <1>9, EditFrame DEF Framed, EditReturns
<1>10. ASSUME NEW e \in Entries, Register(e) \/ PersistSecrets(e) PROVE DefaultMeansPlaintext'
  BY <1>2, <1>10 DEF Register, PersistSecrets, disk, memory
<1>11. CASE Startup
  <2>1. CASE status' = "up" /\ mode' = "default"
    <3>1. /\ marker = "default" /\ UNCHANGED <<plain, enc>>
          /\ \A v \in Vaults : ~Residue(v) /\ ~HalfState(v)
      BY <1>11, <2>1 DEF Startup, disk
    <3>2. \A v \in Vaults : plain[v] # NoFile /\ enc[v] = NoFile
      BY <3>1 DEF Residue, HalfState, Filed
    <3> QED
      BY <3>1, <3>2 DEF DefaultMeansPlaintext
  <2>2. CASE ~(status' = "up" /\ mode' = "default")
    BY <2>2 DEF DefaultMeansPlaintext
  <2> QED
    BY <2>1, <2>2
<1>12. CASE UNCHANGED vars
  BY <1>2, <1>12 DEF vars, disk, memory
<1> QED
  BY <1>3, <1>4, <1>5, <1>6, <1>7, <1>8, <1>9, <1>10, <1>11, <1>12 DEF Next, Editing

\* A rotation that at most one failing write disturbs ends under one password.
LEMMA StepRotation ==
    ASSUME TypeOK, Phases, RotationInv, RotationAllOrNothing, [Next]_vars
    PROVE  RotationInv' /\ RotationAllOrNothing'
<1> USE FileFacts, VaultFacts DEF Goto, Return, Phases, OperationPhases, RotationInv
<1>0. /\ Few' => Few /\ Rotating
      /\ None' => None
  BY StepFaults
\* A step that leaves no rotation under way.
<1>1. ASSUME pc' \notin SetPcs,
             Few' => /\ runPassword' \in {NoFile, verifier'}
                     /\ pc' = "idle" /\ ret' \in {"setOk", "setErr"} =>
                            /\ \A v \in Vaults : Decrypts(v, verifier)'
                            /\ ret' = "setOk" => secretsFile' # NoFile /\ secretsFile'.pw = verifier'
      PROVE  RotationInv' /\ RotationAllOrNothing'
  <2>1. RotationInv'
    BY <1>1 DEF SetPcs, Rotating
  <2>2. RotationAllOrNothing'
    BY <1>1 DEF RotationAllOrNothing, Few
  <2> QED
    BY <2>1, <2>2
<1>2. CASE EnterEncrypt \/ EnterRemove
  <2>1. runPassword' = NoFile /\ pc' \notin SetPcs /\ (pc' # "idle" \/ ret' = "enterErr")
    BY <1>2, LoopStep
      DEF EnterEncrypt, EnterRemove, memory, CalledIn, EnterPcs, SetPcs, NothingHeld
  <2> QED
    BY <1>1, <2>1
<1>3. CASE EnterVerifier
  BY <1>1, <1>3 DEF EnterVerifier, memory, CalledIn, EnterPcs, SetPcs, NothingHeld
<1>4. CASE EnterMarker
  <2>1. runPassword' \in {NoFile, pw} /\ verifier' = pw
    BY <1>4 DEF EnterMarker, CalledIn, EnterPcs, NothingHeld, EnterPhases
  <2> QED
    BY <1>1, <1>4, <2>1 DEF EnterMarker, SetPcs
<1>5. CASE EnterPersist
  <2>1. runPassword' = pw /\ verifier' = pw
    BY <1>5 DEF EnterPersist, EnterPhases, memory
  <2> QED
    BY <1>1, <1>5, <2>1 DEF EnterPersist, SetPcs
<1>6. CASE ExitSecrets \/ ExitDecrypt \/ ExitRemove \/ ExitVerifier \/ ExitMarker
  <2>1. runPassword' = NoFile
    BY <1>6
      DEF ExitSecrets, ExitDecrypt, ExitRemove, ExitVerifier, ExitMarker, memory,
          ExitPhases,
       ExitPcs
  <2>2. pc' \notin SetPcs /\ (pc' # "idle" \/ ret' \in {"exitOk", "exitErr"})
    BY <1>6, LoopStep
      DEF ExitSecrets, ExitDecrypt, ExitRemove, ExitVerifier, ExitMarker, SetPcs
  <2> QED
    BY <1>1, <2>1, <2>2
\* The other steps outside a rotation keep the verifier and either the retained
\* password or none.
<1>7. ASSUME pc \notin SetPcs, pc' \notin SetPcs, UNCHANGED verifier,
             runPassword' \in {runPassword, NoFile, verifier},
             pc' # "idle" \/ ret' \notin {"setOk", "setErr"}
      PROVE  RotationInv' /\ RotationAllOrNothing'
  BY <1>0, <1>1, <1>7 DEF Rotating
<1>8. ASSUME NEW p \in Passwords, EnterRun(p) \/ ExitRun(p) \/ Unlock(p)
      PROVE  RotationInv' /\ RotationAllOrNothing'
  BY <1>7, <1>8 DEF EnterRun, ExitRun, Unlock, Ready, MayRead, disk, memory, SetPcs, Verify
<1>9. ASSUME NEW k \in Keys, Editing(k)
      PROVE  RotationInv' /\ RotationAllOrNothing'
  BY <1>7, <1>9, EditFrame DEF Framed, EditReturns, MayRead, SetPcs
<1>10. CASE NoOpCall \/ RefusedCall \/ Crash
  BY <1>7, <1>10, <1>1 DEF NoOpCall, RefusedCall, Crash, Ready, MayRead, disk, memory, SetPcs
<1>11. CASE Startup
  BY <1>7, <1>11 DEF Startup, NothingHeld, disk, SetPcs
\* Between two calls the registrations touch neither vaults nor verifier.
<1>12. ASSUME NEW e \in Entries, Register(e) PROVE RotationInv' /\ RotationAllOrNothing'
  <2>1. UNCHANGED <<plain, enc, verifier, secretsFile, runPassword, pc, vi, pw, newPw, ret, faults>>
    BY <1>12 DEF Register, disk, memory, args
  <2> QED
    BY <2>1 DEF Rotating, RotationAllOrNothing, Few, None, Decrypts
<1>13. ASSUME NEW e \in Entries, PersistSecrets(e) PROVE RotationInv' /\ RotationAllOrNothing'
  <2>1. pc = "idle" /\ UNCHANGED <<enc, verifier, runPassword, pc, ret>>
    BY <1>13 DEF PersistSecrets, Ready, MayRead, memory
  <2>2. Few' => runPassword \in {NoFile, verifier}
    BY <1>0, <2>1 DEF Rotating, SetPcs
  <2>3. secretsFile' = secretsFile
        \/ (runPassword # NoFile /\ secretsFile' = [pw |-> runPassword, reg |-> secrets])
    BY <1>13 DEF PersistSecrets
  <2>4. runPassword # NoFile => [pw |-> runPassword, reg |-> secrets] # NoFile
    BY DEF TypeOK
  <2>5. ASSUME Few', ret \in {"setOk", "setErr"}
        PROVE  /\ \A v \in Vaults : Decrypts(v, verifier)
               /\ ret = "setOk" => secretsFile # NoFile /\ secretsFile.pw = verifier
    BY <1>0, <2>1, <2>5 DEF RotationAllOrNothing, Few
  <2>6. ASSUME Few', ret = "setOk" PROVE secretsFile' # NoFile /\ secretsFile'.pw = verifier
    BY <2>2, <2>3, <2>4, <2>5, <2>6
  <2> QED
    BY <1>1, <2>1, <2>2, <2>5, <2>6 DEF SetPcs, Decrypts
<1>14. ASSUME NEW old \in Passwords, NEW new \in Passwords, SetPassword(old, new)
       PROVE  RotationInv' /\ RotationAllOrNothing'
  <2>1. /\ pc = "idle" /\ pc' = "setVerifier" /\ pw' = old /\ verifier = old
        /\ UNCHANGED <<enc, verifier, runPassword>> /\ \A v \in Vaults : Decrypts(v, old)
    BY <1>14 DEF SetPassword, Ready, MayRead, Verify, disk, memory
  <2>2. Few' => Rotating'
    BY <1>0, <2>1 DEF Rotating, SetPcs, Decrypts
  <2> QED
    BY <2>1, <2>2 DEF RotationAllOrNothing
\* A rotation that goes on.
<1>15. ASSUME pc' \in SetPcs, Few' => Rotating',
              pc' \in {"rollbackVault", "rollbackVerifier"} => ~None'
       PROVE  RotationInv' /\ RotationAllOrNothing'
  BY <1>15 DEF RotationAllOrNothing, SetPcs
<1>16. CASE SetVerifier
  <2>1. PICK o \in Outcomes :
            /\ CountFault(o)
            /\ verifier' = IF Applied(o) THEN newPw ELSE verifier
            /\ IF o = "ok" THEN Goto("setReencrypt") ELSE Return("setErr")
    BY <1>16 DEF SetVerifier
  <2>2. UNCHANGED <<enc, runPassword, vi, pw, newPw>> /\ pc = "setVerifier" /\ vi = 1
    BY <1>16 DEF SetVerifier, memory, args, CalledIn
  <2>3. Few' => /\ verifier = pw /\ runPassword \in {NoFile, pw}
                /\ \A v \in Vaults : Decrypts(v, pw)
    BY <1>0, <2>2 DEF Rotating, SetPcs
  <2>4. CASE o = "ok"
    <3>1. pc' = "setReencrypt" /\ verifier' = newPw
      BY <2>1, <2>4 DEF Applied
    <3>2. \A v \in Vaults : ~(v < 1)
      BY DEF Vaults
    <3>3. Few' => Rotating'
      BY <2>2, <2>3, <3>1, <3>2 DEF Rotating, SetPcs, Decrypts
    <3> QED
      BY <1>15, <3>1, <3>3 DEF SetPcs
  <2>5. CASE o # "ok"
    <3>1. Few' => o = "before"
      BY <2>1, <2>5, FaultsCounted
    <3>2. pc' = "idle" /\ ret' = "setErr" /\ (Few' => verifier' = verifier)
      BY <2>1, <2>5, <3>1 DEF Applied
    <3> QED
      BY <1>1, <2>2, <2>3, <3>2 DEF SetPcs, Decrypts
  <2> QED
    BY <2>4, <2>5
<1>17. CASE SetReencrypt
  <2>1. PICK o \in Outcomes :
            /\ CountFault(o)
            /\ enc' = IF Applied(o) THEN [enc EXCEPT ![vi].pw = newPw] ELSE enc
            /\ IF o = "ok" THEN NextVault("setReencrypt", "setPersist")
                           ELSE Goto("rollbackVault") /\ vi' = 1
    BY <1>17 DEF SetReencrypt
  <2>2. /\ UNCHANGED <<verifier, runPassword, pw, newPw>> /\ pc = "setReencrypt"
        /\ enc[vi] # NoFile /\ newPw \in Passwords /\ pw \in Passwords
    BY <1>17 DEF SetReencrypt, memory, SetPhases, SetPcs, CalledIn
  <2>3. Few' => /\ verifier = newPw /\ runPassword \in {NoFile, pw}
                /\ \A v \in Vaults : Decrypts(v, IF v < vi THEN newPw ELSE pw)
    BY <1>0, <2>2 DEF Rotating, SetPcs
  <2>4. CASE o = "ok"
    <3>1. enc' = [enc EXCEPT ![vi] = [pw |-> newPw, text |-> enc[vi].text]]
      BY <2>1, <2>2, <2>4, Rekeyed DEF Applied
    <3>2. [pw |-> newPw, text |-> enc[vi].text] # NoFile
      BY <2>2 DEF TypeOK
    <3>3. /\ enc'[vi] # NoFile /\ enc'[vi].pw = newPw
          /\ \A v \in Vaults : v # vi => enc'[v] = enc[v]
      BY <2>2, <3>1, <3>2 DEF Decrypts, TypeOK
    <3>4. CASE vi < NumVaults
      <4>1. /\ pc' = "setReencrypt" /\ vi' = vi + 1
            /\ \A v \in Vaults : v < vi' => v = vi \/ v < vi
            /\ \A v \in Vaults : ~(v < vi') => v # vi /\ ~(v < vi)
        BY <2>1, <2>4, <3>4, LoopStep DEF Vaults
      <4>2. Few' => Rotating'
        BY <2>2, <2>3, <3>3, <4>1 DEF Rotating, SetPcs, Decrypts
      <4> QED
        BY <1>15, <4>1, <4>2 DEF SetPcs
    <3>5. CASE ~(vi < NumVaults)
      <4>1. pc' = "setPersist" /\ \A v \in Vaults : v = vi \/ v < vi
        BY <2>1, <2>4, <3>5, LoopStep
      <4>2. Few' => Rotating'
        BY <2>2, <2>3, <3>3, <4>1 DEF Rotating, SetPcs, Decrypts
      <4> QED
        BY <1>15, <4>1, <4>2 DEF SetPcs
    <3> QED
      BY <3>4, <3>5
  <2>5. CASE o # "ok"
    <3>1. ~None' /\ (Few' => o = "before")
      BY <2>1, <2>5, FaultsCounted
    <3>2. pc' = "rollbackVault" /\ vi' = 1 /\ (Few' => enc' = enc)
      BY <2>1, <2>5, <3>1 DEF Applied
    <3>3. \A v \in Vaults : ~(v < 1)
      BY DEF Vaults
    <3>4. Few' => Rotating'
      BY <2>2, <2>3, <3>2, <3>3 DEF Rotating, SetPcs, Decrypts
    <3> QED
      BY <1>15, <3>1, <3>2, <3>4 DEF SetPcs
  <2> QED
    BY <2>4, <2>5
<1>18. CASE SetPersist
  <2>1. PICK o \in Outcomes :
            /\ CountFault(o)
            /\ secretsFile' = IF Applied(o) THEN [pw |-> newPw, reg |-> secrets] ELSE secretsFile
            /\ IF o = "ok" THEN Return("setOk") /\ runPassword' = newPw
                           ELSE Goto("rollbackVault") /\ runPassword' = pw
    BY <1>18 DEF SetPersist
  <2>2. /\ UNCHANGED <<enc, verifier, vi, pw, newPw>> /\ pc = "setPersist" /\ vi = 1
        /\ newPw \in Passwords
    BY <1>18 DEF SetPersist, args, CalledIn, SetPcs
  <2>3. Few' => verifier = newPw /\ \A v \in Vaults : Decrypts(v, newPw)
    BY <1>0, <2>2 DEF Rotating, SetPcs
  <2>4. CASE o = "ok"
    <3>1. /\ pc' = "idle" /\ ret' = "setOk" /\ runPassword' = newPw
          /\ secretsFile' = [pw |-> newPw, reg |-> secrets]
      BY <2>1, <2>4 DEF Applied
    <3>2. secretsFile' # NoFile /\ secretsFile'.pw = newPw
      BY <2>2, <3>1 DEF TypeOK
    <3> QED
      BY <1>1, <2>2, <2>3, <3>1, <3>2 DEF SetPcs, Decrypts
  <2>5. CASE o # "ok"
    <3>1. ~None' /\ pc' = "rollbackVault" /\ runPassword' = pw
      BY <2>1, <2>5, FaultsCounted
    <3>2. \A v \in Vaults : ~(v < 1)
      BY DEF Vaults
    <3>3. Few' => Rotating'
      BY <2>2, <2>3, <3>1, <3>2 DEF Rotating, SetPcs, Decrypts
    <3> QED
      BY <1>15, <3>1, <3>3 DEF SetPcs
  <2> QED
    BY <2>4, <2>5
<1>19. CASE RollbackVault
  <2>1. /\ UNCHANGED <<verifier, runPassword, pw, newPw>> /\ pc = "rollbackVault"
        /\ enc[vi] # NoFile /\ pw \in Passwords
        /\ NextVault("rollbackVault", "rollbackVerifier")
    BY <1>19 DEF RollbackVault, memory, SetPhases, SetPcs, CalledIn
  <2>2. ~None' /\ ~None
    BY <1>0, <2>1
  <2>3. Few' => /\ runPassword \in {NoFile, pw}
                /\ \A v \in Vaults : IF v < vi THEN Decrypts(v, pw)
                                     ELSE Decrypts(v, pw) \/ Decrypts(v, newPw)
    BY <1>0, <2>1 DEF Rotating, SetPcs
  \* The one fault was the one that started the rollback.
  <2>4. ASSUME Few' PROVE /\ enc'[vi] # NoFile /\ enc'[vi].pw = pw
                          /\ \A v \in Vaults : v # vi => enc'[v] = enc[v]
    <3>1. CASE Decrypts(vi, newPw) /\ ~Decrypts(vi, pw)
      <4>1. PICK o \in Outcomes :
                CountFault(o) /\ enc' = IF Applied(o) THEN [enc EXCEPT ![vi].pw = pw] ELSE enc
        BY <1>19, <3>1 DEF RollbackVault
      <4>2. o = "ok"
        BY <2>2, <2>4, <4>1, FaultsCounted
      <4>3. enc' = [enc EXCEPT ![vi] = [pw |-> pw, text |-> enc[vi].text]]
        BY <2>1, <4>1, <4>2, Rekeyed DEF Applied
      <4>4. [pw |-> pw, text |-> enc[vi].text] # NoFile
        BY <2>1 DEF TypeOK
      <4> QED
        BY <2>1, <4>3, <4>4 DEF Decrypts, TypeOK
    <3>2. CASE ~(Decrypts(vi, newPw) /\ ~Decrypts(vi, pw))
      <4>1. enc' = enc
        BY <1>19, <3>2 DEF RollbackVault
      <4>2. Decrypts(vi, pw)
        BY <2>3, <2>4, <3>2
      <4> QED
        BY <2>1, <4>1, <4>2 DEF Decrypts
    <3> QED
      BY <3>1, <3>2
  <2>5. CASE vi < NumVaults
    <3>1. /\ pc' = "rollbackVault" /\ vi' = vi + 1
          /\ \A v \in Vaults : v < vi' => v = vi \/ v < vi
          /\ \A v \in Vaults : ~(v < vi') => v # vi /\ ~(v < vi)
      BY <2>1, <2>5, LoopStep DEF Vaults
    <3>2. Few' => Rotating'
      BY <2>1, <2>3, <2>4, <3>1 DEF Rotating, SetPcs, Decrypts
    <3> QED
      BY <1>15, <2>2, <3>1, <3>2 DEF SetPcs
  <2>6. CASE ~(vi < NumVaults)
    <3>1. pc' = "rollbackVerifier" /\ \A v \in Vaults : v = vi \/ v < vi
      BY <2>1, <2>6, LoopStep
    <3>2. Few' => Rotating'
      BY <2>1, <2>3, <2>4, <3>1 DEF Rotating, SetPcs, Decrypts
    <3> QED
      BY <1>15, <2>2, <3>1, <3>2 DEF SetPcs
  <2> QED
    BY <2>5, <2>6
<1>20. CASE RollbackVerifier
  <2>1. PICK o \in Outcomes : CountFault(o) /\ verifier' = IF Applied(o) THEN pw ELSE verifier
    BY <1>20 DEF RollbackVerifier
  <2>2. /\ UNCHANGED <<enc, runPassword>> /\ pc' = "idle" /\ ret' = "setErr"
        /\ pc = "rollbackVerifier"
    BY <1>20 DEF RollbackVerifier, memory
  <2>3. Few' => runPassword \in {NoFile, pw} /\ \A v \in Vaults : Decrypts(v, pw)
    BY <1>0, <2>2 DEF Rotating, SetPcs
  <2>4. Few' => o = "ok"
    BY <2>1, <2>2, FaultsCounted
  <2>5. Few' => verifier' = pw
    BY <2>1, <2>4 DEF Applied
  <2> QED
    BY <1>1, <2>2, <2>3, <2>5 DEF SetPcs, Decrypts
<1>21. CASE UNCHANGED vars
  <2>1. UNCHANGED <<enc, verifier, secretsFile, runPassword, pc, vi, pw, newPw, ret, faults>>
    BY <1>21 DEF vars, disk, memory, args
  <2> QED
    BY <2>1 DEF Rotating, RotationAllOrNothing, Few, None, Decrypts
<1> QED
  BY <1>2, <1>3, <1>4, <1>5, <1>6, <1>8, <1>9, <1>10, <1>11, <1>12, <1>13, <1>14,
     <1>16, <1>17,
     <1>18, <1>19, <1>20, <1>21 DEF Next, Editing

\* Without a failed write the registry file lags behind the registry by the
\* registrations whose handler has yet to persist them.
LEMMA StepRegistry ==
    ASSUME TypeOK, Phases, RotationInv, RegistryInv, [Next]_vars
    PROVE  RegistryInv'
<1> USE FileFacts DEF Goto, Return, Phases, OperationPhases, Ready, MayRead
<1>0. None' => None
  BY StepFaults
<1>1. ASSUME pc' # "idle" \/ status' # "up" \/ mode' # "run" \/ runPassword' = NoFile \/ ~None'
      PROVE  RegistryInv'
  BY <1>1 DEF RegistryInv
<1>2. ASSUME UNCHANGED <<secretsFile, runPassword, secrets, persisting, mode, pc, status>>
      PROVE  RegistryInv'
  BY <1>0, <1>2 DEF RegistryInv
<1>3. ASSUME NEW p \in Passwords, runPassword' = p, secretsFile' = [pw |-> p, reg |-> secrets],
             UNCHANGED secrets
      PROVE  RegistryInv'
  BY <1>3 DEF RegistryInv
<1>4. CASE EnterEncrypt \/ EnterRemove \/ EnterVerifier
  <2>1. runPassword' = NoFile
    BY <1>4
      DEF EnterEncrypt, EnterRemove, EnterVerifier, memory, CalledIn, EnterPcs,
          NothingHeld
  <2> QED
    BY <1>1, <2>1
<1>5. CASE EnterMarker
  <2>1. pc' # "idle" \/ runPassword' = NoFile
    BY <1>5 DEF EnterMarker, CalledIn, EnterPcs, NothingHeld
  <2> QED
    BY <1>1, <2>1
<1>6. CASE EnterPersist
  <2>1. runPassword' = runPassword /\ runPassword \in Passwords /\ UNCHANGED secrets
    BY <1>6 DEF EnterPersist, EnterPhases, CalledIn, memory
  <2>2. None' => secretsFile' = [pw |-> runPassword, reg |-> secrets]
    BY <1>6, FaultsCounted DEF EnterPersist, Applied
  <2> QED
    BY <1>1, <1>3, <2>1, <2>2
<1>7. CASE ExitSecrets \/ ExitDecrypt \/ ExitRemove \/ ExitVerifier \/ ExitMarker
  <2>1. runPassword' = NoFile
    BY <1>7
      DEF ExitSecrets, ExitDecrypt, ExitRemove, ExitVerifier, ExitMarker, memory,
          ExitPhases,
       ExitPcs
  <2> QED
    BY <1>1, <2>1
<1>8. CASE SetVerifier
  <2>1. None' => pc' # "idle"
    BY <1>8, FaultsCounted DEF SetVerifier
  <2> QED
    BY <1>1, <2>1
<1>9. CASE SetReencrypt \/ RollbackVault
  <2>1. pc' # "idle"
    BY <1>9, LoopStep DEF SetReencrypt, RollbackVault
  <2> QED
    BY <1>1, <2>1
<1>10. CASE SetPersist
  <2>1. newPw \in Passwords /\ UNCHANGED secrets
    BY <1>10 DEF SetPersist, CalledIn, SetPcs
  <2>2. None' => runPassword' = newPw /\ secretsFile' = [pw |-> newPw, reg |-> secrets]
    BY <1>10, FaultsCounted DEF SetPersist, Applied
  <2> QED
    BY <1>1, <1>3, <2>1, <2>2
<1>11. CASE RollbackVerifier
  <2>1. ~None'
    BY <1>0, <1>11 DEF RollbackVerifier, RotationInv
  <2> QED
    BY <1>1, <2>1
<1>12. ASSUME NEW p \in Passwords, EnterRun(p) \/ ExitRun(p) PROVE RegistryInv'
  BY <1>1, <1>12 DEF EnterRun, ExitRun
\* The registry is the one of the file, whatever was registered before.
<1>13. ASSUME NEW p \in Passwords, Unlock(p) PROVE RegistryInv'
  <2>1. /\ runPassword' = p /\ secretsFile' = secretsFile
        /\ secretsFile # NoFile => secretsFile.pw = p /\ secrets' = secretsFile.reg
    BY <1>13 DEF Unlock, disk
  <2> QED
    BY <2>1 DEF RegistryInv
<1>14. ASSUME NEW old \in Passwords, NEW new \in Passwords, SetPassword(old, new)
       PROVE  RegistryInv'
  BY <1>1, <1>14 DEF SetPassword
<1>15. ASSUME NEW k \in Keys, Editing(k)
       PROVE  RegistryInv'
  BY <1>0, <1>2, <1>15, EditFrame DEF Framed
<1>16. CASE NoOpCall \/ RefusedCall \/ UNCHANGED vars
  BY <1>2, <1>16 DEF NoOpCall, RefusedCall, vars, disk, memory
<1>17. ASSUME NEW e \in Entries, Register(e) PROVE RegistryInv'
  <2>1. /\ UNCHANGED <<secretsFile, runPassword, mode, pc, status>>
        /\ secrets' = secrets \cup {e} /\ persisting' = persisting \cup {e}
    BY <1>17 DEF Register, disk, memory
  <2>2. CASE None /\ status = "up" /\ pc = "idle" /\ mode = "run" /\ runPassword # NoFile
             /\ secretsFile # NoFile
    BY <2>1, <2>2 DEF RegistryInv
  <2>3. CASE ~(None /\ status = "up" /\ pc = "idle" /\ mode = "run" /\ runPassword # NoFile
               /\ secretsFile # NoFile)
    BY <1>0, <2>1, <2>3 DEF RegistryInv
  <2> QED
    BY <2>2, <2>3
<1>18. ASSUME NEW e \in Entries, PersistSecrets(e) PROVE RegistryInv'
  <2>1. UNCHANGED <<runPassword, secrets, mode>>
    BY <1>18 DEF PersistSecrets, memory
  <2>2. CASE None' /\ mode = "run" /\ runPassword # NoFile
    <3>1. secretsFile' = [pw |-> runPassword, reg |-> secrets]
      BY <1>18, <2>2, FaultsCounted DEF PersistSecrets, Applied
    <3>2. runPassword \in Passwords
      BY <2>2 DEF TypeOK
    <3> QED
      BY <1>3, <2>1, <3>1, <3>2
  <2>3. CASE ~(None' /\ mode = "run" /\ runPassword # NoFile)
    BY <1>1, <2>1, <2>3
  <2> QED
    BY <2>2, <2>3
<1>19. CASE Crash \/ Startup
  <2>1. runPassword' = NoFile
    BY <1>19 DEF Crash, Startup, NothingHeld
  <2> QED
    BY <1>1, <2>1
<1> QED
  BY <1>4, <1>5, <1>6, <1>7, <1>8, <1>9, <1>10, <1>11, <1>12, <1>13, <1>14, <1>15,
     <1>16, <1>17,
     <1>18, <1>19 DEF Next, Editing

\* Whatever fails and wherever the kernel crashes: the mode it reports and the files agree
\* after every success, after every rotation that one failing write disturbed at most, in
\* every default mode a restart led to, and between the registry and its file.
THEOREM TransitionsStaySound == Spec => []TransitionsSound
<1> DEFINE Inv == /\ CopiesInv /\ SuccessIsComplete /\ DefaultMeansPlaintext
                  /\ RotationInv /\ RotationAllOrNothing /\ RegistryInv
<1>1. Init => Inv
  <2> SUFFICES ASSUME Init PROVE Inv
    OBVIOUS
  <2>1. CopiesInv
    BY InitSaved
  <2>2. SuccessIsComplete /\ DefaultMeansPlaintext /\ RotationAllOrNothing /\ RegistryInv
    BY
      DEF Init, SuccessIsComplete, DefaultMeansPlaintext, RotationAllOrNothing,
          RegistryInv, Ready, MayRead
  <2>3. RotationInv
    BY DEF Init, RotationInv, Rotating, SetPcs
  <2> QED
    BY <2>1, <2>2, <2>3
<1>2. TypeOK /\ Phases /\ Inv /\ [Next]_vars => Inv'
  BY StepCopies, StepSuccess, StepDefault, StepRotation, StepRegistry DEF CopiesInv
<1>3. TypeOK /\ Inv => TransitionsSound
  <2> SUFFICES ASSUME TypeOK, Inv PROVE RegistryFileCurrent
    BY DEF TransitionsSound
  <2> SUFFICES ASSUME MayRead, mode = "run", runPassword # NoFile, persisting = {},
                      secretsFile # NoFile, faults.before + faults.after = 0
               PROVE  secretsFile = [pw |-> runPassword, reg |-> secrets]
    BY DEF RegistryFileCurrent
  <2>1. None
    BY DEF None, TypeOK
  <2>2. /\ secretsFile.pw = runPassword /\ secretsFile.reg \subseteq secrets
        /\ secrets \subseteq secretsFile.reg
    BY <2>1 DEF RegistryInv
  <2>3. secretsFile \in SecretsFiles
    BY DEF TypeOK
  <2>4. secretsFile = [pw |-> secretsFile.pw, reg |-> secretsFile.reg]
    BY <2>3 DEF SecretsFiles
  <2> QED
    BY <2>2, <2>4
<1> QED
  BY <1>1, <1>2, <1>3, WellFormed, PTL DEF Spec

=============================================================================
