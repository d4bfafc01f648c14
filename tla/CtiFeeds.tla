------------------------------- MODULE CtiFeeds -------------------------------
(***************************************************************************)
(* The threat intelligence module (internal/cti/cti.go): a loop asks OTX   *)
(* for pulses and MISP for events, adds their weight to the active         *)
(* threats and derives the threat coefficient of every assessment.         *)
(*                                                                         *)
(* A pulse is read again when its author changed it.  Requests and their   *)
(* answers are steps of their own: the feeds go on changing meanwhile.     *)
(* Moments are counted by clock, Day of them make the window in which a    *)
(* pulse counts; the coefficient is in percent.                            *)
(***************************************************************************)
EXTENDS Integers, FiniteSets, FiniteSetsExt, Functions, Collections

CONSTANTS
    Pulses,      \* [pulse -> [tags, indicators]]
    Events,      \* [event of MISP -> sequence of its tags]
    OtxOn, MispOn, \* the credentials of the feeds are configured
    PageLimit,   \* pulses in one answer
    Day,         \* moments a pulse counts after its creation
    MaxClock     \* bound on the moments of a behaviour

\* There are finitely many pulses and events, and an event has a list of tags.
ASSUME CtiAssumption ==
    /\ IsFiniteSet(DOMAIN Pulses) /\ \A p \in DOMAIN Pulses : Pulses[p].indicators \in Nat
    /\ IsFiniteSet(DOMAIN Events) /\ \A e \in DOMAIN Events : Events[e] \in Seq(STRING)

VARIABLES
    clock,
    created, modified, \* [pulse -> moment], 0 before it is published
    mispIndex,         \* events MISP lists
    lastPulse,         \* sourcesLastPulse, 0 when zero
    activeThreats, coefficient, lastUpdate,
    updating,             \* where the update loop is: [pc, ...]
    ctiStopped,
    counted,           \* [pulse -> how often its weight was added]
    changesOf,         \* [pulse -> how often it was published or changed]
    excused,           \* pulses some answer left out, or that changed while it was under way
    told               \* threats reported by others and events added, by weight
feedVars == <<created, modified, mispIndex, changesOf>>
ctiVars == <<clock, feedVars, lastPulse, activeThreats, coefficient, lastUpdate, updating, ctiStopped,
             counted, excused, told>>

Published == {p \in DOMAIN Pulses : created[p] > 0}
Moment == clock < MaxClock /\ clock' = clock + 1

\* stringsContainAny over the tags, strongest first; ten indicators weigh as much again.
pulseWeight(p) ==
    LET tags == Pulses[p].tags
        kind == IF tags \cap {"apt", "malware", "ransomware", "exploit"} # {} THEN 4
                ELSE IF tags \cap {"phishing", "c2", "botnet"} # {} THEN 3
                ELSE IF tags \cap {"trojan", "backdoor", "rat"} # {} THEN 2 ELSE 1
    IN  kind * (1 + Pulses[p].indicators \div 10)
\* The first tag of an event that means something.
tagWeight(t) ==
    CASE t \in {"tlp:red", "apt"} -> 4 [] t = "tlp:amber" -> 3 [] t = "tlp:green" -> 1 [] OTHER -> 0
eventWeight(e) ==
    LET known == {i \in DOMAIN Events[e] : tagWeight(Events[e][i]) > 0}
    IN  IF known = {} THEN 0 ELSE tagWeight(Events[e][Min(known)])
threatWeight(s) == CASE s = "critical" -> 4 [] s = "high" -> 3 [] s = "low" -> 1 [] OTHER -> 2

----------------------------------------------------------------------------
\* The feeds (external).
feedSame == UNCHANGED <<lastPulse, activeThreats, coefficient, lastUpdate, updating, ctiStopped, counted, told>>
\* What changes while an answer is under way may be missed.
overtaken(p) == excused' = IF updating.pc = "otx answered" THEN excused \cup {p} ELSE excused
PulseChanges(p) ==
    /\ Moment /\ feedSame /\ overtaken(p)
    /\ created' = [created EXCEPT ![p] = IF @ = 0 THEN clock ELSE @]
    /\ modified' = [modified EXCEPT ![p] = clock]
    /\ changesOf' = [changesOf EXCEPT ![p] = @ + 1]
    /\ UNCHANGED mispIndex
EventAppears(e) ==
    /\ Moment /\ e \notin mispIndex /\ mispIndex' = mispIndex \cup {e}
    /\ feedSame /\ UNCHANGED <<created, modified, changesOf, excused>>

----------------------------------------------------------------------------
\* The update loop.
At(pc) == updating.pc = pc
loopSame == UNCHANGED <<feedVars, ctiStopped>>

\* updateLoop: a tick that comes with the stop signal may be taken first.
UpdateDue ==
    /\ At("waiting") /\ Moment
    /\ updating' = [pc |-> IF OtxOn THEN "otx" ELSE "misp", weight |-> 0]
    /\ loopSame /\ UNCHANGED <<lastPulse, activeThreats, coefficient, lastUpdate, counted, excused, told>>
LoopEnds ==
    /\ At("waiting") /\ ctiStopped /\ updating' = [pc |-> "ended"]
    /\ loopSame /\ UNCHANGED <<clock, lastPulse, activeThreats, coefficient, lastUpdate, counted, excused, told>>

\* OTX answers with what changed since the last fetch, one page of it, or with an error that
\* reads as an answer without pulses; or nothing usable arrives.
recent == {p \in Published : modified[p] >= lastPulse}
OtxAnswers ==
    /\ At("otx") /\ Moment
    /\ \E page \in SUBSET recent :
        /\ Cardinality(page) <= PageLimit
        /\ page = {} \/ page = recent \/ Cardinality(page) = PageLimit
        /\ updating' = [pc |-> "otx answered", page |-> page]
        /\ excused' = excused \cup (recent \ page)
    /\ loopSame /\ UNCHANGED <<lastPulse, activeThreats, coefficient, lastUpdate, counted, told>>
OtxFails ==
    /\ At("otx") /\ updating' = [pc |-> "misp", weight |-> 0]
    /\ loopSame /\ UNCHANGED <<clock, lastPulse, activeThreats, coefficient, lastUpdate, counted, excused, told>>
\* fetchOTXPulses, the answer: pulses created within a day count, and the moment is remembered.
fetchOTXPulses ==
    /\ At("otx answered") /\ Moment
    /\ LET fresh == {p \in updating.page : created[p] + Day >= clock}
       IN  /\ updating' = [pc |-> "misp", weight |-> Total(fresh, pulseWeight)]
           /\ counted' = [p \in DOMAIN Pulses |-> counted[p] + (IF p \in fresh THEN 1 ELSE 0)]
           /\ excused' = excused \cup (updating.page \ fresh)
    /\ lastPulse' = clock
    /\ loopSame /\ UNCHANGED <<activeThreats, coefficient, lastUpdate, told>>
\* fetchMISPEvents: every event of the index, each time; a failure adds nothing.
fetchMISPEvents(answered) ==
    /\ At("misp")
    /\ LET w == IF MispOn /\ answered THEN Total(mispIndex, eventWeight) ELSE 0
       IN  updating' = [pc |-> "add", weight |-> updating.weight + w] /\ told' = told + w
    /\ loopSame /\ UNCHANGED <<clock, lastPulse, activeThreats, coefficient, lastUpdate, counted, excused>>
updateFromFeeds ==
    /\ At("add") /\ updating' = [pc |-> "update"] /\ activeThreats' = activeThreats + updating.weight
    /\ loopSame /\ UNCHANGED <<clock, lastPulse, coefficient, lastUpdate, counted, excused, told>>
Worth(threats) == Max({60, 100 - 2 * threats})
updateCoefficient ==
    /\ At("update") /\ updating' = [pc |-> "waiting"]
    /\ coefficient' = Worth(activeThreats) /\ lastUpdate' = clock
    /\ loopSame /\ UNCHANGED <<clock, lastPulse, activeThreats, counted, excused, told>>

\* The interface of the module, and its end.
ReportThreat(s) ==
    /\ Moment /\ activeThreats' = activeThreats + threatWeight(s) /\ told' = told + threatWeight(s)
    /\ UNCHANGED <<feedVars, lastPulse, coefficient, lastUpdate, updating, ctiStopped, counted, excused>>
ClearThreat ==
    /\ activeThreats > 0 /\ activeThreats' = activeThreats - 1 /\ Moment
    /\ UNCHANGED <<feedVars, lastPulse, coefficient, lastUpdate, updating, ctiStopped, counted, excused, told>>
CtiStop ==
    /\ ~ctiStopped /\ ctiStopped' = TRUE
    /\ UNCHANGED <<clock, feedVars, lastPulse, activeThreats, coefficient, lastUpdate, updating, counted, excused, told>>

CtiInit ==
    /\ clock = 1 /\ created = [p \in DOMAIN Pulses |-> 0] /\ modified = created /\ changesOf = created
    /\ mispIndex = {} /\ lastPulse = 0 /\ activeThreats = 0 /\ coefficient = 100 /\ lastUpdate = 0
    /\ updating = [pc |-> "waiting"] /\ ctiStopped = FALSE
    /\ counted = created /\ excused = {} /\ told = 0
CtiNext ==
    \/ \E p \in DOMAIN Pulses : PulseChanges(p)
    \/ \E e \in DOMAIN Events : EventAppears(e)
    \/ UpdateDue \/ LoopEnds \/ OtxAnswers \/ OtxFails \/ fetchOTXPulses
    \/ \E answered \in BOOLEAN : fetchMISPEvents(answered)
    \/ updateFromFeeds \/ updateCoefficient
    \/ \E s \in {"critical", "low"} : ReportThreat(s)
    \/ ClearThreat \/ CtiStop
CtiSpec == CtiInit /\ [][CtiNext]_ctiVars

----------------------------------------------------------------------------
\* A pulse is counted once for each time it was published or changed, however the fetches
\* fall between, so the coefficient never says more danger than the pulses, the events as
\* often as MISP listed them and the reports of others add up to.
NoThreatCountedTwice ==
    /\ \A p \in DOMAIN Pulses : counted[p] <= changesOf[p]
    /\ coefficient >= Worth(told + Total(DOMAIN Pulses, LAMBDA p : counted[p] * pulseWeight(p)))
    /\ At("waiting") /\ lastUpdate = clock => coefficient = Worth(activeThreats)

\* And none is overlooked: a pulse from before the last fetch that was answered was counted,
\* unless it was too old, did not fit the page, the answer was an error read as empty, or it
\* changed while the answer was under way.
NoPulseOverlooked ==
    \A p \in Published : created[p] < lastPulse /\ p \notin excused => counted[p] > 0

CtiSound == NoThreatCountedTwice /\ NoPulseOverlooked
===============================================================================
