---------------------------- MODULE CommanderKey ----------------------------
(***************************************************************************)
(* The key that signs commands (internal/commander/commander.go): Init     *)
(* takes it from the configuration or the key file, generates it when      *)
(* there is none, and rotates it when the metadata file says it has        *)
(* expired.  The two files are written one after the other, a failed write *)
(* is only logged, and the kernel may stop between them.                   *)
(***************************************************************************)
EXTENDS Naturals

CONSTANTS
    Configured,  \* hmac_key or ASSCOR_HMAC_KEY is set
    MaxKeys      \* bound on the keys ever drawn

ASSUME KeyAssumption == Configured \in BOOLEAN /\ MaxKeys \in Nat \ {0}

VARIABLES
    keyPc,     \* "down", "wroteKey" (the metadata is yet to be written) or "up"
    hmacKey,   \* the key in memory; 0 is none, 1 the configured one
    keyFile,   \* the key in the key file, 0 when there is none
    metaFile,  \* "none", "valid" or "expired"
    drawn,     \* the last key drawn
    unsaved    \* this start failed to write the key it drew

keyVars == <<keyPc, hmacKey, keyFile, metaFile, drawn, unsaved>>

Keys == 0..MaxKeys

KeyTypeOK ==
    /\ keyPc \in {"down", "wroteKey", "up"}
    /\ hmacKey \in Keys /\ keyFile \in Keys /\ drawn \in Keys
    /\ metaFile \in {"none", "valid", "expired"} /\ unsaved \in BOOLEAN

KeyInit ==
    /\ keyPc = "down" /\ hmacKey = 0 /\ keyFile = 0 /\ metaFile = "none" /\ drawn = 1
    /\ unsaved = FALSE

\* The configured key wins; a file that is read keeps its key unless its metadata,
\* when they can be read, have expired.
LoadKey ==
    /\ keyPc = "down"
    /\ Configured \/ (keyFile # 0 /\ metaFile # "expired")
    /\ hmacKey' = (IF Configured THEN 1 ELSE keyFile) /\ keyPc' = "up"
    /\ unsaved' = FALSE /\ UNCHANGED <<keyFile, metaFile, drawn>>

\* Mutant: only the metadata of the new key are written.
DrawKeyUnsaved ==
    /\ keyPc = "down" /\ ~Configured /\ (keyFile = 0 \/ metaFile = "expired")
    /\ drawn < MaxKeys /\ drawn' = drawn + 1 /\ hmacKey' = drawn'
    /\ keyPc' = "wroteKey"
    /\ unsaved' = FALSE /\ UNCHANGED <<keyFile, metaFile>>

\* generateAndPersistKey and rotateKey, up to the write of the key, which may fail.
DrawKey ==
    /\ keyPc = "down" /\ ~Configured /\ (keyFile = 0 \/ metaFile = "expired")
    /\ drawn < MaxKeys /\ drawn' = drawn + 1 /\ hmacKey' = drawn'
    /\ keyFile' \in {drawn', keyFile} /\ unsaved' = (keyFile' # drawn')
    /\ keyPc' = "wroteKey" /\ UNCHANGED metaFile

WriteMeta ==
    /\ keyPc = "wroteKey" /\ keyPc' = "up"
    /\ metaFile' \in {"valid", metaFile}
    /\ UNCHANGED <<hmacKey, keyFile, drawn, unsaved>>

KernelStops ==
    /\ keyPc # "down" /\ keyPc' = "down" /\ hmacKey' = 0
    /\ UNCHANGED <<keyFile, metaFile, drawn, unsaved>>

KeyExpires ==
    /\ metaFile = "valid" /\ metaFile' = "expired"
    /\ UNCHANGED <<keyPc, hmacKey, keyFile, drawn, unsaved>>

KeyNext ==
    \/ LoadKey \/ DrawKey \/ WriteMeta \/ KernelStops \/ KeyExpires

KeySpec == KeyInit /\ [][KeyNext]_keyVars

-----------------------------------------------------------------------------
\* An agent that was given the key file of a running kernel verifies its commands,
\* unless that kernel failed to write the file: also when an earlier start stopped
\* between the two files and this one found the old metadata beside the new key.
SignsWithFile ==
    keyPc = "up" /\ ~Configured /\ ~unsaved => hmacKey = keyFile

=============================================================================
