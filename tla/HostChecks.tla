----------------------------- MODULE HostChecks -----------------------------
(***************************************************************************)
(* The verdicts of the built-in Linux checks                               *)
(* (internal/checks/linux/checks.go and kernel_security.go).               *)
(*                                                                         *)
(* A check looks at a few pieces of evidence: files, directories, the      *)
(* output of commands, the state of services.  What it makes of one piece  *)
(* is "good" (the safeguard is there, the value is in range), "bad" (it    *)
(* was read and is not) or "unknown" (missing, unreadable, the command     *)
(* failed).  A check is the function from its evidence to its verdict;     *)
(* thresholds and patterns are in what counts as good.                     *)
(***************************************************************************)
EXTENDS Naturals, FiniteSets

CONSTANT CheckIDs  \* the checks to look at

Values == {"unknown", "bad", "good"}
Ev(S) == [S -> Values]

\* The shapes most checks have: a safeguard in any of several places, in each of them,
\* in at least n of them, or no offence found in any place that can be read.
SomeGood(S) == [e \in Ev(S) |-> \E s \in S : e[s] = "good"]
AllGood(S) == [e \in Ev(S) |-> \A s \in S : e[s] = "good"]
NoneBad(S) == [e \in Ev(S) |-> \A s \in S : e[s] # "bad"]
GoodCount(n, S) == [e \in Ev(S) |-> Cardinality({s \in S : e[s] = "good"}) >= n]

Readable(v) == v # "unknown"

-----------------------------------------------------------------------------
(* Attack surface.                                                         *)

\* One batch of "systemctl is-active"; no output is no active service.
AS001 == NoneBad({"services"})
\* At most 20 listening ports.
AS002 == NoneBad({"ports"})
AS003 ==
    LET settings == {"emptyPasswords", "rootLogin", "passwordLogin", "protocol1"}
    IN  [e \in Ev(settings \cup {"config"}) |->
           e.config = "good" /\ \A s \in settings : e[s] # "bad"]
\* firewalld is asked when iptables cannot be run, and changes only the wording.
AS004 == NoneBad({"inputPolicy"})
AS005 == AllGood({"externalPorts"})
AS006 == NoneBad({"services", "sockets"})
AS007 == SomeGood({"fail2ban", "commonAuth", "sshd"})
\* The first file with a numeric TMOUT decides.
AS008 ==
    [e \in Ev({"profile", "bash.bashrc", "bashrc"}) |->
       IF Readable(e.profile) THEN e.profile = "good"
       ELSE IF Readable(e["bash.bashrc"]) THEN e["bash.bashrc"] = "good"
       ELSE e.bashrc = "good"]
AS009 == [e \in Ev({"plaintext", "sshd"}) |-> e.plaintext # "bad" /\ e.sshd = "good"]
AS010 == AllGood({"uid0"})
AS011 == NoneBad({"defaultAccounts"})
\* Without /etc/passwd every process of a user is one of an unknown account.
AS012 ==
    [e \in Ev({"shadow", "passwd", "processes"}) |->
       /\ e.shadow = "good" /\ e.passwd # "bad" /\ e.processes # "bad"
       /\ Readable(e.processes) => Readable(e.passwd)]
AS013 == NoneBad({"/etc", "/var/log", "/root"})
AS014 == NoneBad({"serviceCount"})
AS015 == [e \in Ev({"protocol1", "certs"}) |-> e.protocol1 # "bad" /\ e.certs = "good"]
AS016 ==
    [e \in Ev({"iptables", "richRules"}) |->
       IF Readable(e.iptables) THEN e.iptables = "good" ELSE e.richRules = "good"]
AS017 == SomeGood({"time.conf", "cron"})

(* Business continuity and assumed compromise.                             *)

BC005 == SomeGood({"cron.d", "cron.daily", "cron.weekly", "crontabs"})
BC006 == SomeGood({"rsyncd", "rootRclone", "etcRclone"})
BC007 == SomeGood({"drillLog", "plan", "record"})
AC001 == AllGood({"blockingRules"})
AC002 == SomeGood({"rsyncd", "rclone"})
\* The first configuration that can be read decides.
AC003 ==
    [e \in Ev({"rsyslog.conf", "50-default.conf"}) |->
       IF Readable(e["rsyslog.conf"]) THEN e["rsyslog.conf"] = "good"
       ELSE e["50-default.conf"] = "good"]
AC004 == SomeGood({"services"})
AC005 == SomeGood({"getenforce", "fapolicyd"})
AC006 == SomeGood({"files", "which", "units"})
AC007 == SomeGood({"services", "processes", "auditRules"})
AC008 == GoodCount(2, {"tool1", "tool2", "job1", "job2"})

(* Authentication factors: each file is counted for itself.                *)

PamFiles == {"sshd", "common-auth", "system-auth"}
EF001 == SomeGood(PamFiles)
EF002 == GoodCount(3, PamFiles \X {"otp", "token", "biometric"})

(* Operations and traceability.                                            *)

OT001 == AllGood({"/etc/shadow", "/etc/gshadow", "/etc/sudoers", "/etc/passwd"})
OT002 == SomeGood({"rsyslog", "syslog-ng", "auditd"})
\* The attributes are taken for append-only when the output has an "a", which the name
\* of the directory has.
OT003 == [e \in Ev({"lsattr", "dir"}) |-> Readable(e.lsattr) \/ e.dir = "good"]
\* An npm configuration that may not be read counts as one that verifies.
OT004 == SomeGood({"pip", "npm"})
OT005 ==
    [e \in Ev({"getenforce", "apparmor"}) |->
       IF Readable(e.getenforce) THEN e.getenforce = "good" ELSE e.apparmor = "good"]
OT006 == NoneBad({"exposed"})
OT007 == NoneBad({"homes"})

\* A rule for openat contains one for open, and so on.
AtCall == [open |-> "openat", unlink |-> "unlinkat", rename |-> "renameat"]
OT008 ==
    LET calls == {"execve"} \cup DOMAIN AtCall \cup {AtCall[c] : c \in DOMAIN AtCall}
    IN  [e \in Ev(calls) |->
           Cardinality({c \in calls : \/ e[c] = "good"
                                       \/ (c \in DOMAIN AtCall /\ e[AtCall[c]] = "good")}) >= 3]
OT009 == SomeGood({"rsyslog.conf", "50-default.conf"})
OT010 ==
    [e \in Ev({"restart", "refuseStop"}) |->
       Readable(e.restart) /\ "good" \in {e.restart, e.refuseStop}]
OT011 == GoodCount(2, {"auth.log", "syslog", "audit.log", "secure", "messages"})
OT012 == SomeGood({"cron.d", "cron.daily", "cron.weekly"})
OT013 == SomeGood({"database", "binary"})
\* A crypttab is good when one of its volumes is mapped (parseCrypttab, getMappedDevices).
OT014 ==
    [e \in Ev({"lsblk", "gocryptfs", "crypttab"}) |->
       Readable(e.lsblk) /\ \E s \in DOMAIN e : e[s] = "good"]
OT015 ==
    [e \in Ev({"list", "enc"}) |-> IF Readable(e.list) THEN e.list = "good" ELSE e.enc = "good"]
OT016 == NoneBad({"tmp", "swappiness"})
OT017 == SomeGood({"limits.conf", "90-core.conf", "core_pattern"})
OT018 == NoneBad({"syslog", "messages", "auth.log"})
OT019 == SomeGood({"rsyslog.conf", "50-default.conf"})
\* umount2 contains mount.
OT020 ==
    LET ops == {"chmod", "chown", "setuid", "mount", "umount2", "ptrace"}
    IN  [e \in Ev(ops) |->
           Cardinality({o \in ops : e[o] = "good" \/ (o = "mount" /\ e.umount2 = "good")}) >= 4]
OT021 == SomeGood({"chronyd", "ntpd", "ntp", "timesyncd"})
OT022 == SomeGood({"dmsetup", "lsblk", "crypttab"})

(* Response.                                                               *)

RS001 == NoneBad({"updates"})
RS002 == NoneBad({"somaxconn", "synBacklog", "maxConnections"})
\* A fail2ban that runs decides alone; it is good with two jails.
RS003 ==
    [e \in Ev({"fail2ban", "crowdsec", "denyhosts"}) |->
       IF Readable(e.fail2ban) THEN e.fail2ban = "good"
       ELSE "good" \in {e.crowdsec, e.denyhosts}]
\* A mutant: one parameter at fault allowed, none at fault not.
RS004Exactly ==
    [e \in Ev({"syncookies", "synackRetries", "finTimeout", "rpFilter"}) |->
       Cardinality({s \in DOMAIN e : e[s] = "good"}) = 3]
RS004 == GoodCount(3, {"syncookies", "synackRetries", "finTimeout", "rpFilter"})
RS005 == AllGood({"syncookies"})
RS006 == SomeGood({"services", "processes"})
RS007 == SomeGood({"ossec", "wazuh", "aide"})
RS008 == SomeGood({"scanners"})
RS009 == SomeGood({"cron", "service"})
RS010 == SomeGood({"agents"})
RS011 == SomeGood({"binaries", "services"})
RS012 == GoodCount(2, {"suricata", "snort", "zeek", "wazuh"})
\* docker is unknown when there is none and good with any of its three options.
RS013 ==
    [e \in Ev({"docker", "podman", "containerd"}) |->
       "good" \in {e.docker, e.podman} \/ "bad" \notin {e.docker, e.containerd}]
RS014 == SomeGood({"livepatch", "kpatch", "package"})
RS015 == AllGood({"microcode"})
\* mokutil is asked and counts only when it is all there is, which is not enough.
RS016 ==
    [e \in Ev({"secureBoot", "lockdown", "mok"}) |->
       e.secureBoot = "good" /\ e.lockdown = "good"]

(* Kernel security.                                                        *)

KS001 == [e \in Ev({"uname", "cves"}) |-> e.uname = "good" /\ e.cves # "bad"]
KS002 == AllGood({"cmdline"})
\* /proc/config.gz is compressed: once it is read, no option is found in it.
KS003 ==
    [e \in Ev({"uname", "boot", "gz", "modules"}) |->
       /\ e.uname = "good"
       /\ IF Readable(e.boot) THEN e.boot = "good" ELSE ~Readable(e.gz) /\ e.modules = "good"]
KS004 == AllGood({"kptr_restrict", "dmesg_restrict"})
KS005 == [e \in Ev({"cpuinfo", "dmesg"}) |-> Readable(e.cpuinfo) /\ "good" \in {e.cpuinfo, e.dmesg}]
KS006 == AllGood({"modules"})
\* Good when each of the 14 parameters has its expected value.
KS007 == AllGood({"sysctl"})
\* Without bpftool, programs or a baseline there is nothing to compare.
KS008 == NoneBad({"programs"})
KS009 ==
    [e \in Ev({"sysrq", "debugfs", "mem", "kmem"}) |->
       e.sysrq = "good" /\ \A s \in DOMAIN e : e[s] # "bad"]
\* A host without /sys/firmware/efi passes, once dmesg could be read.
KS010 ==
    [e \in Ev({"mokutil", "dmesg", "efi"}) |->
       IF Readable(e.mokutil) THEN e.mokutil = "good"
       ELSE Readable(e.dmesg) /\ (e.dmesg = "good" \/ ~Readable(e.efi))]
KS011 == [e \in Ev({"restrict", "kmsg"}) |-> e.restrict = "good" /\ e.kmsg # "bad"]
\* SELinux counts in permissive mode too.
KS012 == SomeGood({"selinux", "apparmor"})

\* All and ksAll.
All == [
    AS001 |-> AS001, AS002 |-> AS002, AS003 |-> AS003, AS004 |-> AS004, AS005 |-> AS005,
    AS006 |-> AS006, AS007 |-> AS007, AS008 |-> AS008, AS009 |-> AS009, AS010 |-> AS010,
    AS011 |-> AS011, AS012 |-> AS012, AS013 |-> AS013, AS014 |-> AS014, AS015 |-> AS015,
    AS016 |-> AS016, AS017 |-> AS017, BC005 |-> BC005, BC006 |-> BC006, BC007 |-> BC007,
    AC001 |-> AC001, AC002 |-> AC002, AC003 |-> AC003, AC004 |-> AC004, AC005 |-> AC005,
    AC006 |-> AC006, AC007 |-> AC007, AC008 |-> AC008, EF001 |-> EF001, EF002 |-> EF002,
    OT001 |-> OT001, OT002 |-> OT002, OT003 |-> OT003, OT004 |-> OT004, OT005 |-> OT005,
    OT006 |-> OT006, OT007 |-> OT007, OT008 |-> OT008, OT009 |-> OT009, OT010 |-> OT010,
    OT011 |-> OT011, OT012 |-> OT012, OT013 |-> OT013, OT014 |-> OT014, OT015 |-> OT015,
    OT016 |-> OT016, OT017 |-> OT017, OT018 |-> OT018, OT019 |-> OT019, OT020 |-> OT020,
    OT021 |-> OT021, OT022 |-> OT022, RS001 |-> RS001, RS002 |-> RS002, RS003 |-> RS003,
    RS004 |-> RS004, RS005 |-> RS005, RS006 |-> RS006, RS007 |-> RS007, RS008 |-> RS008,
    RS009 |-> RS009, RS010 |-> RS010, RS011 |-> RS011, RS012 |-> RS012, RS013 |-> RS013,
    RS014 |-> RS014, RS015 |-> RS015, RS016 |-> RS016, KS001 |-> KS001, KS002 |-> KS002,
    KS003 |-> KS003, KS004 |-> KS004, KS005 |-> KS005, KS006 |-> KS006, KS007 |-> KS007,
    KS008 |-> KS008, KS009 |-> KS009, KS010 |-> KS010, KS011 |-> KS011, KS012 |-> KS012]

-----------------------------------------------------------------------------
VARIABLES
    check,    \* the check that is looked at
    evidence  \* what the host shows it

checkVars == <<check, evidence>>

Passes == All[check][evidence]

CheckTypeOK == check \in CheckIDs /\ evidence \in DOMAIN All[check]

\* A host of which nothing can be read.
CheckInit ==
    /\ check \in CheckIDs
    /\ evidence \in {e \in DOMAIN All[check] : \A s \in DOMAIN e : e[s] = "unknown"}

Shows(s, v) == evidence' = [evidence EXCEPT ![s] = v] /\ UNCHANGED check

Reveal(s) == evidence[s] = "unknown" /\ \E v \in {"bad", "good"} : Shows(s, v)
Harden(s) == evidence[s] = "bad" /\ Shows(s, "good")

CheckNext == \E s \in DOMAIN evidence : Reveal(s) \/ Harden(s)

CheckSpec == CheckInit /\ [][CheckNext]_checkVars

-----------------------------------------------------------------------------
(* Properties.                                                             *)

\* Hardening a host never fails a check it passed, whatever else can and cannot be
\* read: the fall-back orders of the checks do not get in each other's way.
HardeningHelps ==
    [][(\E s \in DOMAIN evidence : Harden(s)) => (Passes => Passes')]_checkVars

\* The checks that pass a host they could not read.
PassUnread ==
    {"AS001", "AS002", "AS004", "AS006", "AS011", "AS013", "AS014", "KS008", "OT006", "OT007",
     "OT016", "OT018", "RS001", "RS002", "RS013"}

\* Of a host that shows nothing good, the agent passes only what looks for an offence
\* and found none, and fails every check that asks for a safeguard; the one exception
\* is OT-003, which takes the output of lsattr for an attribute.
NothingGoodPassesNothing ==
    Passes /\ (\A s \in DOMAIN evidence : evidence[s] # "good")
        => check \in PassUnread \/ check = "OT003" \/ (check = "KS010" /\ evidence.dmesg = "bad")

\* The verdicts follow the evidence: better evidence keeps a pass, no good evidence
\* earns one.
VerdictsFollowEvidence == HardeningHelps /\ []NothingGoodPassesNothing
=============================================================================
