------------------------- MODULE InterceptorBreaker -------------------------
(***************************************************************************)
(* The circuit breaker before the kernel's services (kernel/               *)
(* circuitbreaker.go), for one method, whose breaker is independent of the *)
(* others'.  Its state is an atomic word, the time of its last change and  *)
(* the window of results are under its lock, and the two are not written   *)
(* together.  The map of breakers has a lock of its own, which a clean-up  *)
(* of the closed ones holds.                                               *)
(*                                                                         *)
(* Times are told from the breaker's Timeout: an instant is recent or it   *)
(* is not.  Reset, Allow and the Record methods have no caller.            *)
(***************************************************************************)
EXTENDS Integers, Sequences, FiniteSets, SequencesExt

CONSTANTS Requests,         \* concurrent requests of the method
          CircuitRecords,   \* circuitRecord objects; one that nothing refers to is used again
          NoRecord,
          MinRequests, MaxWindowSize, HalfOpenMaxFails

ASSUME RecordsAssumption == NoRecord \notin CircuitRecords
ASSUME BreakerConfigAssumption ==
    /\ MinRequests \in Nat \ {0} /\ HalfOpenMaxFails \in Nat \ {0}
    /\ MaxWindowSize \in Nat /\ MinRequests <= MaxWindowSize

VARIABLES inMap,     \* the record in the map
          rec,       \* record -> [state, recent, window, fails]: recent is lastStateChange
          req,       \* request -> [pc, ref, saw]: saw is the count it read
          cleaning,  \* the record that the clean-up is about to delete
          opened,    \* the record whose opening was the last, if that is recent
          outdated, \* requests whose record changed its state since they looked, or had no time yet
          excused,   \* the recent opening was undone: an early trial or a lost record
          miscounted \* records in which a failure was counted after its trial

interceptorVars == <<inMap, rec, req, cleaning, opened, outdated, excused, miscounted>>

\* lastStateChange is the zero time.
Zero == [state |-> "closed", recent |-> FALSE, window |-> <<>>, fails |-> 0]
NoCall == [pc |-> "idle", ref |-> NoRecord, saw |-> 0]
Asks(q, pc) == req[q].pc = pc
Moves(q, pc) == req' = [req EXCEPT ![q].pc = pc]
GoesAway(q) == req' = [req EXCEPT ![q] = NoCall]
its(q) == rec[req[q].ref]
\* A call that is let through goes by the method's name again when its handler has ended.
Admit(q) == req' = [req EXCEPT ![q] = [NoCall EXCEPT !.pc = "handler"]]
\* A record that nothing refers to any more is as good as new.
Keep(q, new) ==
    LET r == req[q].ref
    IN rec' = [rec EXCEPT ![r] = IF r # inMap /\ \A p \in Requests : req'[p].ref # r THEN Zero ELSE new]
\* The state word of q's record changes: the others that work on it have looked at another state.
Changes(q, to) == outdated' = (outdated \ {q}) \cup {p \in Requests \ {q} : req[p].ref = req[q].ref}
looks(q) == outdated' = outdated \ {q}

----------------------------------------------------------------------------
\* getRecord: the clean-up keeps it waiting.
unused == {r \in CircuitRecords : r # inMap /\ \A q \in Requests : req[q].ref # r}
getRecord(q, pc) ==
    /\ cleaning = NoRecord
    /\ \E r \in IF inMap = NoRecord THEN unused ELSE {inMap} :
         /\ inMap' = r /\ req' = [req EXCEPT ![q] = [pc |-> pc, ref |-> r, saw |-> 0]]
         /\ rec' = IF inMap = NoRecord THEN [rec EXCEPT ![r] = Zero] ELSE rec
    /\ looks(q) /\ UNCHANGED <<cleaning, opened, excused, miscounted>>

Arrive(q) == Asks(q, "idle") /\ getRecord(q, "look")

stampPending(r) == \E p \in Requests : req[p].ref = r /\ req[p].pc \in {"stamp", "restamp"}
Pass(q) == Asks(q, "look") /\ its(q).state # "open" /\ Admit(q) /\ looks(q)
Refuse(q) == Asks(q, "look") /\ its(q).state = "open" /\ its(q).recent /\ GoesAway(q) /\ looks(q)
\* Mutant: a trial whatever the time.
TimeoutIgnored(q) == Asks(q, "look") /\ its(q).state = "open" /\ Moves(q, "trial") /\ looks(q)
TimeoutOver(q) ==
    /\ Asks(q, "look") /\ its(q).state = "open" /\ ~its(q).recent /\ Moves(q, "trial")
    /\ outdated' = IF stampPending(req[q].ref) THEN outdated \cup {q} ELSE outdated \ {q}
\* The state, and if it is open the time since it opened.
askState(q) ==
    /\ Pass(q) \/ Refuse(q) \/ TimeoutOver(q)
    /\ Keep(q, its(q)) /\ UNCHANGED <<inMap, cleaning, opened, excused, miscounted>>

\* The trial begins for all: who finds the state changed is let through as well.
HalfOpen(q) ==
    /\ Asks(q, "trial")
    /\ IF its(q).state = "open"
       THEN /\ Moves(q, "stampTrial") /\ Keep(q, [its(q) EXCEPT !.state = "halfOpen"]) /\ Changes(q, "halfOpen")
            /\ excused' = (excused \/ q \in outdated)
       ELSE /\ Admit(q) /\ Keep(q, its(q)) /\ looks(q) /\ UNCHANGED excused
    /\ UNCHANGED <<inMap, cleaning, opened, miscounted>>

\* lastStateChange, some time after the state it belongs to.
StampChange(q) ==
    /\ \/ Asks(q, "stampTrial") /\ Admit(q)
       \/ Asks(q, "stamp") /\ GoesAway(q)
    /\ Keep(q, [its(q) EXCEPT !.recent = TRUE]) /\ looks(q)
    /\ UNCHANGED <<inMap, cleaning, opened, excused, miscounted>>
\* A reopening and a closing also reset the count, without a lock, before they take it.
cleared == miscounted' = miscounted \ {r \in CircuitRecords : rec'[r].fails = 0 /\ rec[r].fails # 0}
Restamp(q) ==
    /\ Asks(q, "restamp") /\ GoesAway(q) /\ Keep(q, [its(q) EXCEPT !.recent = TRUE, !.fails = 0])
    /\ cleared /\ looks(q) /\ UNCHANGED <<inMap, cleaning, opened, excused>>

----------------------------------------------------------------------------
\* The handler ends, and the record is looked up again; one that panics is not counted.
Ends(q) == Asks(q, "handler") /\ \E pc \in {"failed", "succeeded"} : getRecord(q, pc)
Panics(q) ==
    Asks(q, "handler") /\ GoesAway(q) /\ UNCHANGED <<inMap, rec, cleaning, opened, outdated, excused, miscounted>>

entered(q, success) ==
    LET w == Append(its(q).window, success)
    IN [its(q) EXCEPT !.window = IF Len(w) > MaxWindowSize THEN Tail(w) ELSE w]
ratioReached(w) == Len(w) >= MinRequests /\ 2 * Len(SelectSeq(w, LAMBDA ok : ~ok)) >= Len(w)
\* recordFailure enters the result, looks at the state and then at the window, or at the count of
\* the trial.
recordFailure(q) ==
    LET r == entered(q, FALSE)
    IN /\ Asks(q, "failed") /\ looks(q)
       /\ \/ r.state = "closed" /\ ratioReached(r.window) /\ Moves(q, "opening")
          \/ r.state # "halfOpen" /\ ~(r.state = "closed" /\ ratioReached(r.window)) /\ GoesAway(q)
          \/ r.state = "halfOpen" /\ req' = [req EXCEPT ![q].pc = "count", ![q].saw = r.fails]
       /\ Keep(q, r) /\ UNCHANGED <<inMap, cleaning, opened, excused, miscounted>>
opens(q, pc) ==
    /\ Moves(q, pc) /\ Keep(q, [its(q) EXCEPT !.state = "open"]) /\ Changes(q, "open")
    /\ opened' = req[q].ref /\ excused' = (req[q].ref # inMap)
Open(q) ==
    /\ Asks(q, "opening")
    /\ IF its(q).state = "closed" THEN opens(q, "stamp")
       ELSE GoesAway(q) /\ Keep(q, its(q)) /\ looks(q) /\ UNCHANGED <<opened, excused>>
    /\ UNCHANGED <<inMap, cleaning, miscounted>>
\* halfOpenFails++ without a lock: what others counted meanwhile is lost.
CountTrialFailure(q) ==
    /\ Asks(q, "count")
    /\ LET n == IF req[q].saw >= HalfOpenMaxFails THEN HalfOpenMaxFails ELSE req[q].saw + 1
       IN /\ IF n >= HalfOpenMaxFails THEN Moves(q, "reopening") ELSE GoesAway(q)
          /\ Keep(q, [its(q) EXCEPT !.fails = n])
    /\ miscounted' = IF q \in outdated THEN miscounted \cup {req[q].ref} ELSE miscounted
    /\ looks(q) /\ UNCHANGED <<inMap, cleaning, opened, excused>>
Reopen(q) ==
    /\ Asks(q, "reopening")
    /\ IF its(q).state = "halfOpen" THEN opens(q, "restamp")
       ELSE GoesAway(q) /\ Keep(q, its(q)) /\ looks(q) /\ UNCHANGED <<opened, excused>>
    /\ UNCHANGED <<inMap, cleaning, miscounted>>

\* A success ends the trial; the window is emptied a moment later.
recordSuccess(q) ==
    /\ Asks(q, "succeeded") /\ looks(q)
    /\ IF its(q).state = "halfOpen" THEN Moves(q, "closing") ELSE GoesAway(q)
    /\ Keep(q, entered(q, TRUE)) /\ UNCHANGED <<inMap, cleaning, opened, excused, miscounted>>
Close(q) ==
    /\ Asks(q, "closing")
    /\ IF its(q).state = "halfOpen"
       THEN /\ Moves(q, "emptying") /\ Keep(q, [its(q) EXCEPT !.state = "closed"]) /\ Changes(q, "closed")
       ELSE GoesAway(q) /\ Keep(q, its(q)) /\ looks(q)
    /\ UNCHANGED <<inMap, cleaning, opened, excused, miscounted>>
EmptyWindow(q) ==
    /\ Asks(q, "emptying") /\ GoesAway(q) /\ Keep(q, [its(q) EXCEPT !.window = <<>>, !.recent = TRUE, !.fails = 0])
    /\ cleared /\ looks(q) /\ UNCHANGED <<inMap, cleaning, opened, excused>>

----------------------------------------------------------------------------
\* The clean-up reads the age and the state, and deletes; a record that never changed is old.
cleanupStaleRecords ==
    /\ cleaning = NoRecord /\ inMap # NoRecord /\ ~rec[inMap].recent /\ rec[inMap].state = "closed"
    /\ cleaning' = inMap /\ UNCHANGED <<inMap, rec, req, opened, outdated, excused, miscounted>>
deleteRecord ==
    /\ cleaning # NoRecord /\ inMap' = NoRecord /\ cleaning' = NoRecord
    /\ excused' = (excused \/ opened = cleaning)
    /\ rec' = IF \E q \in Requests : req[q].ref = cleaning THEN rec ELSE [rec EXCEPT ![cleaning] = Zero]
    /\ miscounted' = {r \in miscounted : rec'[r] # Zero} /\ UNCHANGED <<req, opened, outdated>>

\* More than the Timeout passes, and perhaps the WindowSize.
TimePasses ==
    /\ \E prune \in BOOLEAN : rec' = [r \in CircuitRecords |->
           [rec[r] EXCEPT !.recent = FALSE, !.window = IF prune THEN <<>> ELSE @]]
    /\ opened' = NoRecord /\ excused' = FALSE /\ UNCHANGED <<inMap, req, cleaning, outdated, miscounted>>

InterceptorInit ==
    /\ inMap = NoRecord /\ rec = [r \in CircuitRecords |-> Zero] /\ req = [q \in Requests |-> NoCall]
    /\ cleaning = NoRecord /\ opened = NoRecord /\ outdated = {} /\ excused = FALSE /\ miscounted = {}
InterceptorNext ==
    \/ \E q \in Requests :
         \/ Arrive(q) \/ askState(q) \/ HalfOpen(q) \/ StampChange(q) \/ Restamp(q)
         \/ Ends(q) \/ Panics(q) \/ recordFailure(q) \/ Open(q) \/ CountTrialFailure(q) \/ Reopen(q)
         \/ recordSuccess(q) \/ Close(q) \/ EmptyWindow(q)
    \/ cleanupStaleRecords \/ deleteRecord \/ TimePasses
InterceptorSpec == InterceptorInit /\ [][InterceptorNext]_interceptorVars

----------------------------------------------------------------------------
\* Once the circuit has opened, no call but those let through before reaches the handler until the
\* Timeout has passed, unless the opening was undone: a trial that began before the time of the
\* opening was written, or that was decided on an earlier one, or a clean-up that deleted the
\* record that opened or that the call looks at (state, recordFailure, cleanupStaleRecords).
OpenKeepsOut ==
    \A q \in Requests : req[q].pc # "handler" /\ req'[q].pc = "handler" /\ opened' # NoRecord =>
        excused' \/ q \in outdated \/ req[q].ref # opened'

\* A trial begins with no failure counted, unless one was counted after its own trial had ended, or
\* the count of the last one is still to be reset (recordFailure, recordSuccess).
TrialStartsAtZero ==
    \A r \in CircuitRecords : rec[r].state = "open" /\ rec'[r].state = "halfOpen" /\ rec[r].fails # 0 =>
        r \in miscounted \/ \E p \in Requests : req[p].ref = r /\ req[p].pc \in {"restamp", "emptying"}

\* Both, whatever the calls' interleaving.
InterceptorSound == [][OpenKeepsOut /\ TrialStartsAtZero]_interceptorVars
=============================================================================
