-------------------------- MODULE IdempotentStart --------------------------
(***************************************************************************)
(* Starts behind the Idempotency-Key middleware: WithIdempotency composed  *)
(* with the starts and terminates of InstanceStart.  A client sends its    *)
(* start again, over another connection too, under the key of the first    *)
(* attempt.  The middleware claims the key, runs the handler, and keeps a  *)
(* 2xx answer for the next attempt; the entry expires after its TTL.       *)
(***************************************************************************)
EXTENDS InstanceStart

VARIABLES
    entry,      \* the cache entry of the key: its state, the answer, the body's hash
    phase,      \* where each request is in the middleware
    \* History.
    served,     \* instances named by enforced 2xx answers since the entry last expired
    unclaimed   \* instances written by a request that was let through without its claim

idemvars == <<entry, phase, served, unclaimed>>
vars == <<startvars, idemvars>>

Absent  == [state |-> "absent", inst |-> None, hash |-> None]
CLAIMED == [state |-> "CLAIMED", inst |-> None, hash |-> None]
CachedResp(s) == [state |-> "response", inst |-> start[s].inst, hash |-> In[s]]

Init ==
    /\ StartInit
    /\ entry = Absent
    /\ phase = [s \in Starter |-> "unsent"]
    /\ served = {} /\ unclaimed = {}

PhaseAt(s, p) == phase' = [phase EXCEPT ![s] = p]

(***************************************************************************)
(* The middleware.                                                         *)
(***************************************************************************)
\* Without the header the handler runs as it is, and so it does when the claim
\* fails; a key that is taken is looked up in a second call.
WithIdempotency(s) ==
    /\ phase[s] = "unsent"
    /\ \/ /\ entry = Absent /\ entry' = CLAIMED
          /\ PhaseAt(s, "inside") /\ NoFault
       \/ /\ entry # Absent /\ UNCHANGED entry
          /\ PhaseAt(s, "taken") /\ NoFault
       \/ /\ UNCHANGED entry
          /\ PhaseAt(s, "bare") /\ Fault
    /\ UNCHANGED <<row, runs, start, close, ctxvars, history, served, unclaimed>>

\* A finished answer to the same body is the only one given again.
Replays(s) == entry.state = "response" /\ entry.hash = In[s]

\* replayIfCached; everything else, a failed lookup too, is a 409.
ReplayIfCached(s) ==
    /\ phase[s] = "taken"
    /\ \/ /\ Replays(s) /\ NoFault
          /\ PhaseAt(s, "answered")
          /\ start' = [start EXCEPT ![s] = [NoStart EXCEPT !.pc = "done", !.inst = entry.inst]]
          /\ served' = served \cup {entry.inst}
       \/ /\ \/ ~Replays(s) /\ NoFault
             \/ Fault
          /\ PhaseAt(s, "conflict")
          /\ UNCHANGED <<start, served>>
    /\ UNCHANGED <<row, runs, close, ctxvars, history, entry, unclaimed>>

Answered(s) == start[s].pc \in {"done", "refused", "failed"}

\* Mutant: the claim is released whatever the answer was.
Released(s) == Absent
\* Only a 2xx answer is kept; any other releases the claim.
Stored(s) == IF start[s].pc = "done" THEN CachedResp(s) ELSE Absent

\* storeResult: best effort; a failed call leaves the entry as it is.
StoreResult(s) ==
    /\ phase[s] = "inside" /\ Answered(s)
    /\ \/ entry' = Stored(s) /\ NoFault
       \/ UNCHANGED entry /\ Fault
    /\ PhaseAt(s, "answered")
    /\ served' = IF start[s].pc = "done" THEN served \cup {start[s].inst} ELSE served
    /\ UNCHANGED <<row, runs, start, close, ctxvars, history, unclaimed>>

\* The handler inside, or without, the middleware.
Handle(s) ==
    /\ phase[s] \in {"inside", "bare"}
    /\ StartHandler(s)
    /\ unclaimed' = IF phase[s] = "bare" /\ row' # row /\ start[s].inst = None
                    THEN unclaimed \cup {start'[s].inst} ELSE unclaimed
    /\ UNCHANGED <<entry, phase, served>>

\* The process dies inside the handler or before the answer is kept: the claim
\* stays.
HandlerDies(s) ==
    /\ \/ StartDies(s)
       \/ /\ phase[s] = "inside" /\ ~Launching(s) /\ Fault
          /\ start' = [start EXCEPT ![s] = [NoStart EXCEPT !.pc = "failed"]]
          /\ UNCHANGED <<row, runs, close, ctxvars, history>>
    /\ PhaseAt(s, IF phase[s] = "inside" THEN "dead" ELSE "bare")
    /\ UNCHANGED <<entry, served, unclaimed>>

(***************************************************************************)
(* The client and the cache.                                               *)
(***************************************************************************)
\* A 5xx, no answer, or a 409 of the middleware: the same request again.
Resend(s) ==
    /\ \/ start[s].pc = "failed" /\ phase[s] # "inside"
       \/ phase[s] = "conflict"
    /\ start' = [start EXCEPT ![s] = NoStart]
    /\ PhaseAt(s, "unsent")
    /\ UNCHANGED <<row, runs, close, ctxvars, faults, history, entry, served, unclaimed>>

\* The answer was given and got lost.
ResendLost(s) ==
    /\ phase[s] = "answered" /\ start[s].pc = "done" /\ Fault
    /\ start' = [start EXCEPT ![s] = NoStart]
    /\ PhaseAt(s, "unsent")
    /\ UNCHANGED <<row, runs, close, ctxvars, history, entry, served, unclaimed>>

\* IDEMPOTENCY_TTL, a day: longer than any handler runs.
Expire ==
    /\ entry # Absent
    /\ \A s \in Starter : phase[s] # "inside" /\ (phase[s] = "bare" => Answered(s))
    /\ entry' = Absent /\ served' = {}
    /\ UNCHANGED <<startvars, phase, unclaimed>>

RequestStep(s) == WithIdempotency(s) \/ ReplayIfCached(s) \/ Handle(s) \/ StoreResult(s) \/ Resend(s)

Next ==
    \/ \E s \in Starter : RequestStep(s) \/ HandlerDies(s) \/ ResendLost(s)
    \/ Expire
    \/ /\ \/ \E c \in Closer : CloseStep(c) \/ CloseDies(c)
          \/ \E r \in DOMAIN runs : Complete(r) \/ Return(r)
       /\ UNCHANGED idemvars

\* A request runs on and an entry expires; that a client sends again what failed,
\* or what was refused because of its own earlier attempt, is what the key is for.
\* No execution has to complete, and no administrator has to terminate.
Fairness ==
    /\ \A s \in Starter : WF_vars(RequestStep(s))
    /\ WF_vars(Expire)
Spec == Init /\ [][Next]_vars /\ Fairness

-----------------------------------------------------------------------------
\* Every variable has its type, no attempt to start an execution is one too many,
\* and the handler is at rest once the middleware has answered.
TypeOK ==
    /\ StartTypeOK
    /\ entry \in [state : {"absent", "CLAIMED", "response"}, inst : Inst \cup {None},
                  hash : {None} \cup {In[s] : s \in Starter}]
    /\ phase \in [Starter -> {"unsent", "inside", "taken", "bare", "answered", "conflict", "dead"}]
    /\ \A s \in Starter : phase[s] = "answered" => Answered(s)
    /\ served \subseteq Inst /\ unclaimed \subseteq Inst

\* A start sent again under its key, after a lost answer or beside the first,
\* is answered with the instance the first one was answered with, even when that
\* instance is over and its business key was free again.
OneInstancePerKey == Cardinality(served) <= 1

\* A row that was committed is not left without an execution: a retry that finds
\* the key taken by a dead request gets through when the claim expires.  A row
\* written while the cache failed may stay behind, for its retry may be answered
\* from the cache.
CommittedRowIsLaunched ==
    \A i \in Inst :
      (row[i].status = "RUNNING" /\ i \notin shared \cup unclaimed)
      ~> (row[i].status \in Terminal \/ RunsOf(i) # {})

=============================================================================
