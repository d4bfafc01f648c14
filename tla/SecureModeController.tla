------------------------ MODULE SecureModeController ------------------------
(***************************************************************************)
(* The kernel side of secure mode: internal/securemode (controller, vault, *)
(* password verifier, mode marker, persisted agent registry) and the       *)
(* command handlers of its CLI.                                            *)
(*                                                                         *)
(* The controller mutex c.Mu is held for writing by a whole operation, so  *)
(* at most one is in progress (pc # "idle").  Inside it every durable      *)
(* effect (a rename or a removal) is a step of its own: the process may    *)
(* crash between two of them, and each may fail before the effect          *)
(* ("before") or after it, when the directory sync fails ("after").        *)
(* config-set holds c.Mu only for reading: the edits of several CLI        *)
(* sessions interleave step by step (edit), and write one temporary file.  *)
(* The heartbeat handler registers agent secrets without c.Mu, so Register *)
(* interleaves with every step.                                            *)
(*                                                                         *)
(* A config text is abstracted to the set of edits it contains.            *)
(***************************************************************************)
EXTENDS Naturals, FiniteSets

CONSTANTS
    NumVaults,   \* protected config files, in the order of Controller.Vaults
    Passwords,   \* the passwords operators use
    Keys,        \* config-set edits
    Entries,     \* registry entries (fingerprint, agent, password)
    NoFile,      \* an absent file, an empty password or a nil guard
    MaxFaults,   \* bound on failing file operations
    FaultKinds,  \* subset of {"before", "after"}
    Crashes      \* TRUE iff the process may crash

ASSUME VaultAssumption == NumVaults \in Nat \ {0}

Vaults == 1..NumVaults
Contents == SUBSET Keys
EncFiles == [pw : Passwords \cup {NoFile}, text : Contents]
SecretsFiles == [pw : Passwords, reg : SUBSET Entries]

\* A ciphertext that two writers left torn: no password opens it.
Torn == [pw |-> NoFile, text |-> {}]

\* An edit in progress: the text it made of its snapshot, its password in run mode, whether
\* it is to be written, whether no other edit was in progress at any time of it, and the
\* texts that were written to the temporary file while it was.
Edits == [at : {"replace", "write", "rename"}, text : Contents,
          pw : Passwords \cup {NoFile}, persist : BOOLEAN, alone : BOOLEAN,
          others : SUBSET Contents]

ASSUME NoFileAssumption ==
    /\ NoFile \notin Passwords
    /\ \A f \in Contents \cup EncFiles \cup SecretsFiles \cup Edits : f # NoFile
ASSUME FaultAssumption ==
    MaxFaults \in Nat /\ FaultKinds \subseteq {"before", "after"} /\ Crashes \in BOOLEAN

VARIABLES
    plain,       \* plain[v]: the plaintext config file, or NoFile
    enc,         \* enc[v]: the .enc file [pw, text], or NoFile
    verifier,    \* password of the verifier file, or NoFile
    marker,      \* mode marker file; a missing one reads as "default"
    secretsFile, \* persisted registry [pw, reg], or NoFile
    status,      \* "down", "up", or "refused" (Startup returned an error)
    mode,        \* Controller.Mode
    runPassword, \* Controller.runPassword, NoFile when ""
    guard,       \* text held by the memory guard, or NoFile
    secrets,     \* Controller.Secrets
    pc,          \* step of the operation holding c.Mu
    vi,          \* vault index of the loop in progress
    pw, newPw,   \* arguments of the operation in progress
    ret,         \* what the last operation returned
    persisting,  \* registrations whose handler has not called PersistSecrets yet
    edit,        \* edit[k]: the config-set of k that holds c.Mu for reading, or NoFile
    saved,       \* history: edits a config-set --persist that ran alone reported as stored
    mixed,       \* history: two edits had the temporary file open at once
    faults       \* failed file operations so far: [before, after]

disk == <<plain, enc, verifier, marker, secretsFile>>
memory == <<mode, runPassword, guard>>
args == <<vi, pw, newPw>>
edits == <<edit, saved, mixed>>
vars == <<disk, status, memory, secrets, pc, args, ret, persisting, edits, faults>>

Labels == {"idle", "enterEncrypt", "enterRemove", "enterVerifier", "enterMarker",
           "enterPersist", "exitSecrets", "exitDecrypt", "exitRemove", "exitVerifier",
           "exitMarker", "setVerifier", "setReencrypt", "setPersist",
           "rollbackVault", "rollbackVerifier"}

\* What the last controller call returned; "refused" calls changed nothing.
Results == {"none", "enterOk", "enterErr", "exitOk", "exitErr", "setOk", "setErr",
            "editing", "configOk", "configErr", "unlockOk", "noop", "refused"}

TypeOK ==
    /\ plain \in [Vaults -> {NoFile} \cup Contents]
    /\ enc \in [Vaults -> {NoFile} \cup EncFiles]
    /\ verifier \in Passwords \cup {NoFile}
    /\ marker \in {"default", "run"}
    /\ secretsFile \in {NoFile} \cup SecretsFiles
    /\ status \in {"down", "up", "refused"}
    /\ mode \in {"default", "run"}
    /\ runPassword \in Passwords \cup {NoFile}
    /\ guard \in {NoFile} \cup Contents
    /\ secrets \in SUBSET Entries
    /\ pc \in Labels
    /\ vi \in Vaults
    /\ pw \in Passwords \cup {NoFile}
    /\ newPw \in Passwords \cup {NoFile}
    /\ ret \in Results
    /\ persisting \in SUBSET Entries
    /\ edit \in [Keys -> {NoFile} \cup Edits]
    /\ saved \in Contents
    /\ mixed \in BOOLEAN
    /\ faults \in [before : 0..MaxFaults, after : 0..MaxFaults]

\* First start of an installation: plaintext configs, nothing else on disk.
Init ==
    /\ plain = [v \in Vaults |-> {}]
    /\ enc = [v \in Vaults |-> NoFile]
    /\ verifier = NoFile
    /\ marker = "default"
    /\ secretsFile = NoFile
    /\ status = "down"
    /\ mode = "default"
    /\ runPassword = NoFile
    /\ guard = NoFile
    /\ secrets = {}
    /\ pc = "idle"
    /\ vi = 1
    /\ pw = NoFile
    /\ newPw = NoFile
    /\ ret = "none"
    /\ persisting = {}
    /\ edit = [k \in Keys |-> NoFile]
    /\ saved = {}
    /\ mixed = FALSE
    /\ faults = [before |-> 0, after |-> 0]

-----------------------------------------------------------------------------
(* Control helpers.                                                        *)

\* Outcomes of one file operation: "ok", or a fault while the budget lasts.
Outcomes ==
    {"ok"} \cup (IF faults.before + faults.after < MaxFaults THEN FaultKinds ELSE {})

\* o's effect reached the disk.
Applied(o) == o # "before"

CountFault(o) == faults' = IF o = "ok" THEN faults ELSE [faults EXCEPT ![o] = @ + 1]

Goto(label) == pc' = label /\ UNCHANGED ret

Return(result) == pc' = "idle" /\ ret' = result

\* After vault vi: the next iteration of the loop, or what follows it.
NextVault(loop, after) ==
    IF vi < NumVaults THEN Goto(loop) /\ vi' = vi + 1
                      ELSE Goto(after) /\ vi' = 1

\* vault.LoadCiphertext(p) succeeds.
Decrypts(v, p) == enc[v] # NoFile /\ enc[v].pw = p

\* PasswordVerifier.Verify(p).
Verify(p) == verifier = p

\* c.Mu can be taken for reading, and for writing.
MayRead == status = "up" /\ pc = "idle"
Ready == MayRead /\ \A k \in Keys : edit[k] = NoFile

-----------------------------------------------------------------------------
(* EnterRun: default -> run.                                               *)

EnterRun(p) ==
    /\ Ready /\ mode = "default"
    /\ Goto("enterEncrypt") /\ vi' = 1 /\ pw' = p
    /\ UNCHANGED <<disk, status, memory, secrets, newPw, persisting, edits, faults>>

\* Mutant: a failed write of .enc does not stop the removal of the plaintext.
EnterEncryptUnchecked ==
    /\ pc = "enterEncrypt" /\ plain[vi] # NoFile
    /\ \E o \in Outcomes :
        /\ CountFault(o)
        /\ enc' = IF Applied(o) THEN [enc EXCEPT ![vi] = [pw |-> pw, text |-> plain[vi]]]
                                ELSE enc
    /\ Goto("enterRemove")
    /\ UNCHANGED <<plain, verifier, marker, secretsFile, status, memory, secrets,
                   args, persisting, edits>>

\* EncryptFile up to the rename of .enc.tmp; fails when the plaintext is gone.
EnterEncrypt ==
    /\ pc = "enterEncrypt"
    /\ \E o \in Outcomes :
        /\ CountFault(o)
        /\ IF plain[vi] = NoFile
           THEN UNCHANGED enc /\ Return("enterErr")
           ELSE /\ enc' = IF Applied(o)
                          THEN [enc EXCEPT ![vi] = [pw |-> pw, text |-> plain[vi]]]
                          ELSE enc
                /\ IF o = "ok" THEN Goto("enterRemove") ELSE Return("enterErr")
    /\ UNCHANGED <<plain, verifier, marker, secretsFile, status, memory, secrets,
                   args, persisting, edits>>

\* EncryptFile's last stage: the plaintext is removed once .enc is durable.
EnterRemove ==
    /\ pc = "enterRemove"
    /\ \E o \in Outcomes :
        /\ CountFault(o)
        /\ plain' = IF Applied(o) THEN [plain EXCEPT ![vi] = NoFile] ELSE plain
        /\ IF o = "ok" THEN NextVault("enterEncrypt", "enterVerifier")
                       ELSE Return("enterErr") /\ UNCHANGED vi
    /\ UNCHANGED <<enc, verifier, marker, secretsFile, status, memory, secrets,
                   pw, newPw, persisting, edits>>

EnterVerifier ==
    /\ pc = "enterVerifier"
    /\ \E o \in Outcomes :
        /\ CountFault(o)
        /\ verifier' = IF Applied(o) THEN pw ELSE verifier
        /\ IF o = "ok" THEN Goto("enterMarker") ELSE Return("enterErr")
    /\ UNCHANGED <<plain, enc, marker, secretsFile, status, memory, secrets, args,
                   persisting, edits>>

\* The guard is built from the first vault before the marker is written, and
\* stays when that write fails.
EnterMarker ==
    /\ pc = "enterMarker"
    /\ guard' = enc[1].text
    /\ \E o \in Outcomes :
        /\ CountFault(o)
        /\ marker' = IF Applied(o) THEN "run" ELSE marker
        /\ IF o = "ok"
           THEN Goto("enterPersist") /\ mode' = "run" /\ runPassword' = pw
           ELSE Return("enterErr") /\ UNCHANGED <<mode, runPassword>>
    /\ UNCHANGED <<plain, enc, verifier, secretsFile, status, secrets, args,
                   persisting, edits>>

\* A failure here is reported but does not undo run mode.
EnterPersist ==
    /\ pc = "enterPersist"
    /\ \E o \in Outcomes :
        /\ CountFault(o)
        /\ secretsFile' = IF Applied(o) THEN [pw |-> runPassword, reg |-> secrets]
                                        ELSE secretsFile
        /\ Return(IF o = "ok" THEN "enterOk" ELSE "enterErr")
    /\ UNCHANGED <<plain, enc, verifier, marker, status, memory, secrets, args,
                   persisting, edits>>

-----------------------------------------------------------------------------
(* ExitRun: run -> default.                                                *)

\* The retained password is dropped before any file is touched.
ExitRun(p) ==
    /\ Ready /\ mode = "run" /\ Verify(p)
    /\ runPassword' = NoFile
    /\ Goto("exitSecrets") /\ vi' = 1 /\ pw' = p
    /\ UNCHANGED <<disk, status, mode, guard, secrets, newPw, persisting, edits, faults>>

\* os.Remove of the registry file; a missing file is not an error.
ExitSecrets ==
    /\ pc = "exitSecrets"
    /\ \E o \in Outcomes \ {"after"} :
        /\ CountFault(o)
        /\ secretsFile' = IF Applied(o) THEN NoFile ELSE secretsFile
        /\ IF o = "ok" THEN Goto("exitDecrypt") ELSE Return("exitErr")
    /\ UNCHANGED <<plain, enc, verifier, marker, status, memory, secrets, args,
                   persisting, edits>>

\* DecryptFile up to the rename of the plaintext.
ExitDecrypt ==
    /\ pc = "exitDecrypt"
    /\ \E o \in Outcomes :
        /\ CountFault(o)
        /\ IF ~Decrypts(vi, pw)
           THEN UNCHANGED plain /\ Return("exitErr")
           ELSE /\ plain' = IF Applied(o) THEN [plain EXCEPT ![vi] = enc[vi].text]
                                          ELSE plain
                /\ IF o = "ok" THEN Goto("exitRemove") ELSE Return("exitErr")
    /\ UNCHANGED <<enc, verifier, marker, secretsFile, status, memory, secrets, args,
                   persisting, edits>>

ExitRemove ==
    /\ pc = "exitRemove"
    /\ \E o \in Outcomes :
        /\ CountFault(o)
        /\ enc' = IF Applied(o) THEN [enc EXCEPT ![vi] = NoFile] ELSE enc
        /\ IF o = "ok" THEN NextVault("exitDecrypt", "exitVerifier")
                       ELSE Return("exitErr") /\ UNCHANGED vi
    /\ UNCHANGED <<plain, verifier, marker, secretsFile, status, memory, secrets,
                   pw, newPw, persisting, edits>>

ExitVerifier ==
    /\ pc = "exitVerifier"
    /\ \E o \in Outcomes \ {"after"} :
        /\ CountFault(o)
        /\ verifier' = IF Applied(o) THEN NoFile ELSE verifier
        /\ IF o = "ok" THEN Goto("exitMarker") ELSE Return("exitErr")
    /\ UNCHANGED <<plain, enc, marker, secretsFile, status, memory, secrets, args,
                   persisting, edits>>

ExitMarker ==
    /\ pc = "exitMarker"
    /\ \E o \in Outcomes :
        /\ CountFault(o)
        /\ marker' = IF Applied(o) THEN "default" ELSE marker
        /\ IF o = "ok"
           THEN Return("exitOk") /\ mode' = "default" /\ guard' = NoFile
           ELSE Return("exitErr") /\ UNCHANGED <<mode, guard>>
    /\ UNCHANGED <<plain, enc, verifier, secretsFile, status, runPassword, secrets,
                   args, persisting, edits>>

-----------------------------------------------------------------------------
(* SetPassword: rotation of the run-mode password.                         *)

\* Phase 1 decrypts every vault with the old password and changes nothing.
SetPassword(old, new) ==
    /\ Ready /\ mode = "run" /\ Verify(old)
    /\ \A v \in Vaults : Decrypts(v, old)
    /\ Goto("setVerifier") /\ vi' = 1 /\ pw' = old /\ newPw' = new
    /\ UNCHANGED <<disk, status, memory, secrets, persisting, edits, faults>>

\* Phase 2 starts with the verifier; its failure is returned without rollback.
SetVerifier ==
    /\ pc = "setVerifier"
    /\ \E o \in Outcomes :
        /\ CountFault(o)
        /\ verifier' = IF Applied(o) THEN newPw ELSE verifier
        /\ IF o = "ok" THEN Goto("setReencrypt") ELSE Return("setErr")
    /\ UNCHANGED <<plain, enc, marker, secretsFile, status, memory, secrets, args,
                   persisting, edits>>

\* reencryptVault of vault vi; nothing else writes .enc while c.Mu is held, so
\* the text decrypted in phase 1 is the text of the file.
SetReencrypt ==
    /\ pc = "setReencrypt"
    /\ \E o \in Outcomes :
        /\ CountFault(o)
        /\ enc' = IF Applied(o) THEN [enc EXCEPT ![vi].pw = newPw] ELSE enc
        /\ IF o = "ok" THEN NextVault("setReencrypt", "setPersist")
                       ELSE Goto("rollbackVault") /\ vi' = 1
    /\ UNCHANGED <<plain, verifier, marker, secretsFile, status, memory, secrets,
                   pw, newPw, persisting, edits>>

SetPersist ==
    /\ pc = "setPersist"
    /\ \E o \in Outcomes :
        /\ CountFault(o)
        /\ secretsFile' = IF Applied(o) THEN [pw |-> newPw, reg |-> secrets]
                                        ELSE secretsFile
        /\ IF o = "ok" THEN Return("setOk") /\ runPassword' = newPw
                       ELSE Goto("rollbackVault") /\ runPassword' = pw
    /\ UNCHANGED <<plain, enc, verifier, marker, status, mode, guard, secrets, args,
                   persisting, edits>>

\* rollbackSetPassword: a vault still under the old password is left alone; a
\* vault that fails to be re-encrypted is skipped.
RollbackVault ==
    /\ pc = "rollbackVault"
    /\ IF Decrypts(vi, newPw) /\ ~Decrypts(vi, pw)
       THEN \E o \in Outcomes :
                /\ CountFault(o)
                /\ enc' = IF Applied(o) THEN [enc EXCEPT ![vi].pw = pw] ELSE enc
       ELSE UNCHANGED <<enc, faults>>
    /\ NextVault("rollbackVault", "rollbackVerifier")
    /\ UNCHANGED <<plain, verifier, marker, secretsFile, status, memory, secrets,
                   pw, newPw, persisting, edits>>

RollbackVerifier ==
    /\ pc = "rollbackVerifier"
    /\ \E o \in Outcomes :
        /\ CountFault(o)
        /\ verifier' = IF Applied(o) THEN pw ELSE verifier
    /\ Return("setErr")
    /\ UNCHANGED <<plain, enc, marker, secretsFile, status, memory, secrets, args,
                   persisting, edits>>

-----------------------------------------------------------------------------
(* Unlock, config-set and the calls that return early.                     *)

\* Loads the config and the persisted registry after a restart in run mode.  A
\* registry file under another password fails closed; a missing one keeps the
\* registry in memory.
Unlock(p) ==
    /\ Ready /\ mode = "run" /\ Verify(p) /\ Decrypts(1, p)
    /\ secretsFile # NoFile => secretsFile.pw = p
    /\ secrets' = IF secretsFile = NoFile THEN secrets ELSE secretsFile.reg
    /\ guard' = enc[1].text
    /\ runPassword' = p
    /\ Return("unlockOk")
    /\ UNCHANGED <<disk, status, mode, args, persisting, edits, faults>>

\* The text config-set edits: the guard's, or the plaintext file's.
ConfigBase == IF guard # NoFile THEN guard ELSE plain[1]

\* HandleConfigSet up to the edited snapshot: run mode needs the password and a loaded
\* guard.  Edits that are in progress already are no longer alone.
BeginConfigSet(k, p, persist) ==
    /\ MayRead /\ edit[k] = NoFile /\ ConfigBase # NoFile
    /\ mode = "run" => Verify(p) /\ guard # NoFile
    /\ edit' = [j \in Keys |->
                 IF j = k
                 THEN [at |-> "replace", text |-> ConfigBase \cup {k},
                       pw |-> IF mode = "run" THEN p ELSE NoFile, persist |-> persist,
                       alone |-> Ready, others |-> {}]
                 ELSE IF edit[j] = NoFile THEN NoFile ELSE [edit[j] EXCEPT !.alone = FALSE]]
    /\ ret' = "editing"
    /\ UNCHANGED <<disk, status, memory, secrets, pc, args, persisting, saved, mixed, faults>>

InEdit(k, label) == edit[k] # NoFile /\ edit[k].at = label

EndEdit(k, result) == edit' = [edit EXCEPT ![k] = NoFile] /\ ret' = result

\* The guard takes the edited text.  --temp ends here; in default mode that is an error,
\* reported after a guard left behind by a failed EnterRun has been edited.
ReplaceGuard(k) ==
    /\ InEdit(k, "replace")
    /\ guard' = IF guard # NoFile THEN edit[k].text ELSE guard
    /\ IF edit[k].persist
       THEN edit' = [edit EXCEPT ![k].at = "write"] /\ UNCHANGED ret
       ELSE EndEdit(k, IF mode = "run" THEN "configOk" ELSE "configErr")
    /\ UNCHANGED <<disk, status, mode, runPassword, secrets, pc, args, persisting, saved,
                   mixed, faults>>

\* The edits other than k that have the temporary file open.
Writers(k) == {j \in Keys \ {k} : InEdit(j, "rename")}

\* --persist writes vault 1 in the format of the current mode: first to the temporary file,
\* which os.WriteFile truncates although another edit has it open.
WriteTemporary(k) ==
    /\ InEdit(k, "write")
    /\ mixed' = (mixed \/ Writers(k) # {})
    /\ \E o \in Outcomes \ {"after"} :
        /\ CountFault(o)
        /\ edit' = [j \in Keys |->
                     IF j \in Writers(k) THEN [edit[j] EXCEPT !.others = @ \cup {edit[k].text}]
                     ELSE IF j # k THEN edit[j]
                     ELSE IF o # "ok" THEN NoFile
                     ELSE [edit[k] EXCEPT !.at = "rename",
                                          !.others = {edit[j2].text : j2 \in Writers(k)}]]
        /\ ret' = IF o = "ok" THEN ret ELSE "configErr"
    /\ UNCHANGED <<disk, status, memory, secrets, pc, args, persisting, saved>>

\* What the rename of edit k leaves in the file of vault 1 in default mode and in run mode.
\* When others had the temporary file open it is the text of one of them, a mixture, or
\* what was there, if one of them has renamed the file away.
Published(k, o) ==
    IF edit[k].others = {} THEN {IF Applied(o) THEN edit[k].text ELSE plain[1]}
    ELSE {plain[1]} \cup SUBSET (edit[k].text \cup UNION edit[k].others)
PublishedEnc(k, o) ==
    IF edit[k].others = {}
    THEN {IF Applied(o) THEN [pw |-> edit[k].pw, text |-> edit[k].text] ELSE enc[1]}
    ELSE {enc[1], Torn} \cup [pw : {edit[k].pw}, text : {edit[k].text} \cup edit[k].others]

\* The rename, and the error that others may have caused.
Publish(k) ==
    /\ InEdit(k, "rename")
    /\ \E o \in Outcomes, stored \in BOOLEAN :
        /\ CountFault(o)
        /\ stored => o = "ok"
        /\ o = "ok" /\ edit[k].others = {} => stored
        /\ IF mode = "run"
           THEN /\ \E f \in PublishedEnc(k, o) : enc' = [enc EXCEPT ![1] = f]
                /\ UNCHANGED plain
           ELSE /\ \E f \in Published(k, o) : plain' = [plain EXCEPT ![1] = f]
                /\ UNCHANGED enc
        /\ saved' = IF stored /\ edit[k].alone THEN saved \cup {k} ELSE saved
        /\ EndEdit(k, IF stored THEN "configOk" ELSE "configErr")
    /\ UNCHANGED <<verifier, marker, secretsFile, status, memory, secrets, pc, args,
                   persisting, mixed>>

\* EnterRun in run mode and ExitRun in default mode return nil.
NoOpCall ==
    /\ Ready /\ Return("noop")
    /\ UNCHANGED <<disk, status, memory, secrets, args, persisting, edits, faults>>

\* A wrong password, the wrong mode or an attached debugger.
RefusedCall ==
    /\ MayRead /\ Return("refused")
    /\ UNCHANGED <<disk, status, memory, secrets, args, persisting, edits, faults>>

-----------------------------------------------------------------------------
(* The heartbeat handler's registrations.                                  *)

\* Controller.Register does not take c.Mu.
Register(e) ==
    /\ status = "up" /\ e \notin secrets
    /\ secrets' = secrets \cup {e}
    /\ persisting' = persisting \cup {e}
    /\ UNCHANGED <<disk, status, memory, pc, args, ret, edits, faults>>

\* The handler then calls PersistSecrets, which waits for c.Mu.  Its errors
\* are logged and the registration stays accepted.
PersistSecrets(e) ==
    /\ Ready /\ e \in persisting
    /\ persisting' = persisting \ {e}
    /\ IF mode = "run" /\ runPassword # NoFile
       THEN \E o \in Outcomes :
                /\ CountFault(o)
                /\ secretsFile' = IF Applied(o) THEN [pw |-> runPassword, reg |-> secrets]
                                                ELSE secretsFile
       ELSE UNCHANGED <<secretsFile, faults>>
    /\ UNCHANGED <<plain, enc, verifier, marker, status, memory, secrets, pc, args, ret,
                   edits>>

-----------------------------------------------------------------------------
(* Crash and restart.                                                      *)

\* Only the files survive.
Crash ==
    /\ Crashes /\ status = "up"
    /\ status' = "down"
    /\ mode' = "default" /\ runPassword' = NoFile /\ guard' = NoFile /\ secrets' = {}
    /\ pc' = "idle" /\ vi' = 1 /\ pw' = NoFile /\ newPw' = NoFile /\ ret' = "none"
    /\ persisting' = {} /\ edit' = [k \in Keys |-> NoFile]
    /\ UNCHANGED <<disk, saved, mixed, faults>>

\* Plaintext and .enc both present: needs manual recovery.
Residue(v) == plain[v] # NoFile /\ enc[v] # NoFile

\* Mutant: the window between EncryptFile and Password.Set is not detected.
HalfStateWithVerifier(v) ==
    /\ plain[v] = NoFile /\ enc[v] # NoFile
    /\ (marker = "default") <=> (verifier # NoFile)

\* An enc-only vault without both a run marker and a verifier.
HalfState(v) ==
    /\ plain[v] = NoFile /\ enc[v] # NoFile
    /\ marker = "default" \/ verifier = NoFile

\* Startup of a fresh controller: fail closed, or take the marker's mode.
Startup ==
    /\ status # "up"
    /\ IF \E v \in Vaults : Residue(v) \/ HalfState(v)
       THEN status' = "refused" /\ UNCHANGED mode
       ELSE status' = "up" /\ mode' = marker
    /\ UNCHANGED <<disk, runPassword, guard, secrets, pc, args, ret, persisting, edits,
                   faults>>

Next ==
    \/ \E p \in Passwords : EnterRun(p) \/ ExitRun(p) \/ Unlock(p)
    \/ \E old, new \in Passwords : SetPassword(old, new)
    \/ EnterEncrypt \/ EnterRemove \/ EnterVerifier \/ EnterMarker \/ EnterPersist
    \/ ExitSecrets \/ ExitDecrypt \/ ExitRemove \/ ExitVerifier \/ ExitMarker
    \/ SetVerifier \/ SetReencrypt \/ SetPersist \/ RollbackVault \/ RollbackVerifier
    \/ \E k \in Keys, p \in Passwords, persist \in BOOLEAN : BeginConfigSet(k, p, persist)
    \/ \E k \in Keys : ReplaceGuard(k) \/ WriteTemporary(k) \/ Publish(k)
    \/ NoOpCall \/ RefusedCall
    \/ \E e \in Entries : Register(e) \/ PersistSecrets(e)
    \/ Crash \/ Startup

Spec == Init /\ [][Next]_vars

-----------------------------------------------------------------------------
(* Properties that hold.                                                   *)

\* The texts of vault v that can still be recovered from disk.
Copies(v) ==
    ({plain[v]} \cup IF enc[v] \in {NoFile, Torn} THEN {} ELSE {enc[v].text}) \ {NoFile}

\* No crash, write failure or retry of EnterRun, ExitRun, SetPassword and config-set
\* removes the last copy of a config, and some copy of the edited one contains every edit
\* that a config-set --persist reported as stored if no other ran at the same time.  Two
\* that write the temporary file at once may leave neither text (mixed).
SavedConfigSurvives ==
    /\ \A v \in Vaults \ {1} : Copies(v) # {}
    /\ ~mixed => \E text \in Copies(1) : saved \subseteq text

\* EnterRun and ExitRun return success only when every file agrees with the
\* mode they report: all vaults encrypted under the verified and retained
\* password with no plaintext left, or all plaintext with nothing left over.
SuccessIsComplete ==
    /\ ret = "enterOk" /\ pc = "idle" =>
        /\ mode = "run" /\ marker = "run"
        /\ verifier # NoFile /\ runPassword = verifier
        /\ \A v \in Vaults : plain[v] = NoFile /\ Decrypts(v, verifier)
        /\ secretsFile # NoFile /\ secretsFile.pw = verifier
    /\ ret = "exitOk" /\ pc = "idle" =>
        /\ mode = "default" /\ marker = "default"
        /\ verifier = NoFile /\ runPassword = NoFile /\ secretsFile = NoFile
        /\ \A v \in Vaults : plain[v] # NoFile /\ enc[v] = NoFile

\* SetPassword is all or nothing when one write fails: however it returns, the
\* verifier, every vault and the retained password agree (rollbackSetPassword
\* undoes the partial rotation), and after a success so does the registry file.
\* Two failing writes, or a directory sync that fails after the rename of the
\* verifier, are beyond it.
RotationAllOrNothing ==
    ret \in {"setOk", "setErr"} /\ pc = "idle" /\ faults.before =< 1 /\ faults.after = 0 =>
        /\ \A v \in Vaults : Decrypts(v, verifier)
        /\ runPassword \in {verifier, NoFile}
        /\ ret = "setOk" => secretsFile # NoFile /\ secretsFile.pw = verifier

\* Fail closed: a kernel that starts after a crash anywhere in EnterRun or
\* ExitRun, or after an error of one, never serves default mode over an
\* encrypted config (Startup's residue and half-state checks).
DefaultMeansPlaintext ==
    MayRead /\ mode = "default" /\ ret = "none" =>
        \A v \in Vaults : plain[v] # NoFile /\ enc[v] = NoFile

\* Once unlocked, with no handler between Register and PersistSecrets and no
\* failed write, the registry file is exactly the registry in memory, whatever
\* interleaving of registrations, transitions and restarts led there.
RegistryFileCurrent ==
    (/\ MayRead /\ mode = "run" /\ runPassword # NoFile /\ persisting = {}
     /\ secretsFile # NoFile /\ faults.before + faults.after = 0)
    => secretsFile = [pw |-> runPassword, reg |-> secrets]

\* The mode a kernel reports and the files agree: after a success of EnterRun or
\* ExitRun, after a rotation that succeeded or was rolled back, in a default mode
\* that a crash or an error led to, and between the registry in memory and its file.
TransitionsSound ==
    SuccessIsComplete /\ RotationAllOrNothing /\ DefaultMeansPlaintext /\ RegistryFileCurrent

-----------------------------------------------------------------------------
(* What comments of the code say, and the code does not do.                *)

\* controller.go: SetPassword is "two-phase to stay safe under crashes": the
\* verified password opens the vault after any restart in run mode.
RotationCrashSafe ==
    Ready /\ mode = "run" /\ verifier # NoFile /\ enc[1] # NoFile => Decrypts(1, verifier)
=============================================================================
