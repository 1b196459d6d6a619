-------------------------- MODULE DesiredStateApi --------------------------
(***************************************************************************)
(* The HTTP surface of internal/api over the desired-state store: clients  *)
(* that read an ETag and send conditional PUTs, the handler that serves    *)
(* each PUT, and the network between them.                                 *)
(*                                                                         *)
(* A refused PUT takes the store's lock twice: once in CompareAndSwap and  *)
(* once more in the Read that fills in the current revision and digest of  *)
(* the problem document.  Everything a handler does before, between and    *)
(* after touches only its own request, so a PUT is the steps Serve and     *)
(* ReportMismatch and every other call may come between them.              *)
(*                                                                         *)
(* Clients are outside src/.  Each wants its document stored once and      *)
(* follows the conditional-request protocol; a Stray is a single request   *)
(* with any headers and body.                                              *)
(***************************************************************************)
EXTENDS DesiredStateStore, FiniteSets

CONSTANTS
    Clients,     \* well-behaved clients
    Strays,      \* identities of the single arbitrary requests
    KeyOf,       \* the target each client manages
    BodyOf,      \* the document each client wants stored
    NotJson,     \* a request body that is not JSON
    StrayHeaders,\* the conditional headers strays may send
    MaxPuts,     \* bound: PUTs one client sends
    MaxFaults,   \* bound: lost requests and abandoned answers
    MaxRestarts  \* bound: restarts of the server process

ASSUME ClientAssumption ==
    /\ KeyOf \in [Clients -> Keys]
    /\ BodyOf \in [Clients -> Payloads]
    /\ NotJson \notin Payloads
    /\ Clients \cap Strays = {}
ASSUME BoundAssumption == MaxPuts \in Nat \ {0} /\ {MaxFaults, MaxRestarts} \subseteq Nat
\* "absent" is written with revision 0.
ASSUME AbsentAssumption == 0 \in Revisions

VARIABLES
    calls,     \* every PUT sent: who, what, how far the handler is, its answer
    held,      \* what each client believes is current, and when it was
    state,     \* what each client is doing: deciding, waiting, done
    faults,    \* network faults so far
    epoch      \* how often the server has restarted

clientVars == <<held, state>>
vars == <<records, log, calls, held, state, faults, epoch>>

----------------------------------------------------------------------------
(***************************************************************************)
(* Headers and ETags.  A strong ETag is the pair revision-digest; "W/..."  *)
(* and every other malformed tag is the one value "malformed".             *)
(***************************************************************************)
ETag == [revision : Revisions, digest : Digests]
NoETag == [text |-> "none"]
Text(t) == [text |-> t]     \* a header value that is no strong ETag

strongETag(r) == [revision |-> r.revision, digest |-> r.digest]

\* parseStrongETag: the pattern admits positive revisions without leading zeros.
parses(h) == h \in ETag /\ h.revision > 0

Headers == [ifNoneMatch : {"", "*", "other"}, ifMatch : {Text(""), Text("*"), Text("malformed")} \cup ETag]

\* parsePrecondition: exactly one of the two headers, in its one accepted form.
headersAccepted(h) ==
    \/ h.ifNoneMatch = "*" /\ h.ifMatch = Text("")
    \/ h.ifNoneMatch = "" /\ parses(h.ifMatch)

preconditionOf(h) ==
    IF h.ifNoneMatch = "*" THEN Absent ELSE Match(h.ifMatch.revision, h.ifMatch.digest)

\* What the client sends for the state it believes current.
headersFor(tag) ==
    IF tag = NoETag THEN [ifNoneMatch |-> "*", ifMatch |-> Text("")]
    ELSE [ifNoneMatch |-> "", ifMatch |-> tag]

\* The ETag of the record a Read returns now.
currentTag(k) == IF Exists(k) THEN strongETag(records[k]) ELSE NoETag

----------------------------------------------------------------------------
(***************************************************************************)
(* A belief is a tag with the moment it was current: the incarnation and   *)
(* the number of versions committed then (ghost).                          *)
(***************************************************************************)
belief(k) == [tag |-> currentTag(k), epoch |-> epoch, versions |-> Len(log[k])]
NoBelief == [tag |-> NoETag, epoch |-> -1, versions |-> 0]

NoAnswer == [code |-> "none", seen |-> NoBelief]

CallIds == [who : Clients \cup Strays, n : 1..MaxPuts]
ASSUME CallerAssumption == Callers = CallIds

Sent == DOMAIN calls
Latest(c) == [who |-> c, n |-> Cardinality({id \in Sent : id.who = c})]

StepIs(id, s) == id \in Sent /\ calls[id].step = s

newCall(k, h, b, bel) ==
    [key |-> k, headers |-> h, body |-> b, basis |-> bel, step |-> "sent",
     decided |-> NoBelief, answer |-> NoAnswer]

AddCall(id, call) ==
    calls' = [x \in Sent \cup {id} |-> IF x = id THEN call ELSE calls[x]]

Answer(id, code, bel) ==
    [calls EXCEPT ![id].step = "answered", ![id].answer = [code |-> code, seen |-> bel]]

----------------------------------------------------------------------------
Init ==
    /\ StoreInit
    /\ calls = [id \in {} |-> 0]
    /\ held = [c \in Clients |-> NoBelief]
    /\ state = [c \in Clients |-> "deciding"]
    /\ faults = 0
    /\ epoch = 0

\* GET: one Read of the store, answered with its ETag or 404.
Get(c) ==
    /\ state[c] = "deciding"
    /\ held' = [held EXCEPT ![c] = belief(KeyOf[c])]
    /\ UNCHANGED <<records, log, calls, state, faults, epoch>>

\* The client sends its PUT, conditional on what it believes.
Put(c) ==
    /\ state[c] = "deciding"
    /\ Latest(c).n < MaxPuts
    /\ AddCall([who |-> c, n |-> Latest(c).n + 1],
               newCall(KeyOf[c], headersFor(held[c].tag), BodyOf[c], held[c]))
    /\ state' = [state EXCEPT ![c] = "waiting"]
    /\ UNCHANGED <<records, log, held, faults, epoch>>

\* A request nobody would write a test for: any headers, any body.
StrayPut(s) ==
    /\ [who |-> s, n |-> 1] \notin Sent
    /\ \E k \in Keys, h \in StrayHeaders, b \in Payloads \cup {NotJson} :
           AddCall([who |-> s, n |-> 1], newCall(k, h, b, NoBelief))
    /\ UNCHANGED <<records, log, held, state, faults, epoch>>

----------------------------------------------------------------------------
(***************************************************************************)
(* DesiredStateHandler.put                                                 *)
(***************************************************************************)
wellFormed(call) == call.body # NotJson /\ headersAccepted(call.headers)

\* Decode, parse the headers, CompareAndSwap; a refusal is not answered yet.
Serve(id) ==
    /\ StepIs(id, "sent")
    /\ LET call == calls[id]
           p == preconditionOf(call.headers)
           outcome == Outcome(call.key, p, call.body)
       IN IF ~wellFormed(call)
          THEN calls' = Answer(id, "invalid_request", NoBelief) /\ UNCHANGED storeVars
          ELSE /\ CompareAndSwap(id, call.key, p, call.body)
               /\ calls' = CASE outcome = "ok" ->
                               Answer(id, "ok", [tag |-> strongETag(NewRecord(call.key, call.body)),
                                                 epoch |-> epoch,
                                                 versions |-> Len(log[call.key]) + 1])
                          [] outcome = "precondition_failed" ->
                               [calls EXCEPT ![id].step = "refused",
                                             ![id].decided = belief(call.key)]
                          [] outcome = "precondition_invalid" ->
                               Answer(id, "invalid_request", NoBelief)
                          [] OTHER -> Answer(id, "dependency_unavailable", NoBelief)
    /\ UNCHANGED <<held, state, faults, epoch>>

\* Mutant: a refused swap is tried again on the current state, then reported refused.
ReportAfterRetry(id) ==
    /\ StepIs(id, "refused")
    /\ LET call == calls[id]
           tag == currentTag(call.key)
       IN CompareAndSwap(id, call.key,
                         IF tag = NoETag THEN Absent ELSE Match(tag.revision, tag.digest),
                         call.body)
    /\ calls' = Answer(id, "desired_state_cas_mismatch", belief(calls[id].key))
    /\ UNCHANGED <<held, state, faults, epoch>>

\* Mutant: the problem document repeats the expected state instead of a fresh Read.
ReportExpected(id) ==
    /\ StepIs(id, "refused")
    /\ calls' = Answer(id, "desired_state_cas_mismatch",
                       [belief(calls[id].key) EXCEPT !.tag =
                            IF calls[id].headers.ifMatch = Text("") THEN NoETag
                            ELSE calls[id].headers.ifMatch])
    /\ UNCHANGED <<records, log, held, state, faults, epoch>>

\* The second Read: the current revision and digest put in the problem document.
ReportMismatch(id) ==
    /\ StepIs(id, "refused")
    /\ calls' = Answer(id, "desired_state_cas_mismatch", belief(calls[id].key))
    /\ UNCHANGED <<records, log, held, state, faults, epoch>>

----------------------------------------------------------------------------
(***************************************************************************)
(* What reaches the client.                                                *)
(***************************************************************************)
\* Success ends the client's work; a mismatch tells it what to try next.
Receive(c) ==
    /\ state[c] = "waiting"
    /\ StepIs(Latest(c), "answered")
    /\ LET call == calls[Latest(c)]
       IN IF call.answer.code = "ok"
          THEN state' = [state EXCEPT ![c] = "done"] /\ UNCHANGED held
          ELSE /\ state' = [state EXCEPT ![c] = "deciding"]
               /\ held' = IF call.answer.code = "desired_state_cas_mismatch"
                          THEN [held EXCEPT ![c] = call.answer.seen]
                          ELSE held
    /\ UNCHANGED <<records, log, calls, faults, epoch>>

\* The connection broke: the request will never be answered.
GiveUp(c) ==
    /\ state[c] = "waiting"
    /\ StepIs(Latest(c), "lost")
    /\ state' = [state EXCEPT ![c] = "deciding"]
    /\ UNCHANGED <<records, log, calls, held, faults, epoch>>

\* The client stops waiting for an answer that is late or lost; the handler goes on.
Timeout(c) ==
    /\ state[c] = "waiting"
    /\ faults < MaxFaults
    /\ faults' = faults + 1
    /\ state' = [state EXCEPT ![c] = "deciding"]
    /\ UNCHANGED <<records, log, calls, held, epoch>>

\* A request is lost before a handler sees it.
LoseRequest(id) ==
    /\ StepIs(id, "sent")
    /\ faults < MaxFaults
    /\ faults' = faults + 1
    /\ calls' = [calls EXCEPT ![id].step = "lost"]
    /\ UNCHANGED <<records, log, held, state, epoch>>

\* The server restarts: the store is empty again and running handlers are gone.
ServerRestart ==
    /\ epoch < MaxRestarts
    /\ epoch' = epoch + 1
    /\ Restart
    /\ calls' = [id \in Sent |-> IF calls[id].step = "refused"
                                 THEN [calls[id] EXCEPT !.step = "lost"] ELSE calls[id]]
    /\ UNCHANGED <<held, state, faults>>

Next ==
    \/ \E c \in Clients : Get(c) \/ Put(c) \/ Receive(c) \/ GiveUp(c) \/ Timeout(c)
    \/ \E s \in Strays : StrayPut(s)
    \/ \E id \in CallIds : Serve(id) \/ ReportMismatch(id) \/ LoseRequest(id)
    \/ ServerRestart

\* A handler that runs finishes, and a client with work left keeps going; nothing
\* obliges a client to time out, a request to be lost or the server to restart.
Fairness ==
    /\ \A id \in CallIds : WF_vars(Serve(id)) /\ WF_vars(ReportMismatch(id))
    /\ \A c \in Clients : WF_vars(Put(c)) /\ WF_vars(Receive(c)) /\ WF_vars(GiveUp(c))

Spec == Init /\ [][Next]_vars
FairSpec == Spec /\ Fairness

----------------------------------------------------------------------------
\* The versions of this incarnation that a call wrote.
versionsBy(id) ==
    {i \in 1..Len(log[calls[id].key]) : log[calls[id].key][i].caller = id}

\* Every problem this handler sends says sideEffectState "not-committed"
\* (writeCASProblem), and that is true of the whole life of the request: a call
\* wrote a version only if its one answer is ok, and an ok answer carries the ETag
\* of the one version the call wrote, whatever was written since.
AnswersAreTruthful ==
    \A id \in Sent :
        /\ versionsBy(id) # {} => calls[id].answer.code = "ok"
        /\ calls[id].answer.code = "ok" /\ calls[id].answer.seen.epoch = epoch =>
              versionsBy(id) = {calls[id].answer.seen.tag.revision}

\* A client's write replaces exactly the state the client last saw, even though its
\* PUT may be delayed, retried or overtaken and the same document may come back:
\* between the Read behind its ETag and its commit nobody else's write is lost.
\* (ETags learned before a restart are excluded: revisions start again from 1.)
NoUnseenOverwrite ==
    \A id \in Sent :
        calls[id].basis.epoch = epoch =>
            versionsBy(id) \subseteq {calls[id].basis.versions + 1}

\* The state a mismatch answer reports is read after the lock of the refused swap was
\* released, and is still safe to act on: it is a version at least as new as the one
\* that refused the request, and never the very ETag the client had sent.
MismatchReportMovesForward ==
    \A id \in Sent :
        LET call == calls[id] seen == call.answer.seen
        IN call.answer.code = "desired_state_cas_mismatch" /\ seen.epoch = call.decided.epoch =>
              /\ seen.versions >= call.decided.versions
              /\ call.basis.epoch = seen.epoch => seen.tag # call.basis.tag

\* A client that retries on what the mismatch answer tells it gets its document
\* stored: losing a race means that another write succeeded.
ClientsSucceed == \A c \in Clients : <>(state[c] = "done")

\* integration-ports-v1.md:152: "A successful replay returns the original result or
\* exact committed evidence".  The same request sent again after it committed is
\* answered with the original success.
ReplayReturnsOriginalResult ==
    \A c \in Clients : \A m, n \in 1..MaxPuts :
        LET first == [who |-> c, n |-> m] again == [who |-> c, n |-> n]
        IN /\ m < n /\ {first, again} \subseteq Sent
           /\ calls[first].headers = calls[again].headers
           /\ calls[first].basis = calls[again].basis
           /\ versionsBy(first) # {}
           /\ calls[again].step = "answered"
           => calls[again].answer = calls[first].answer
----------------------------------------------------------------------------
(***************************************************************************)
(* The handler implements ConditionalRegister.  The versions are the tags  *)
(* of the committed records; a verdict is read off the handler's progress: *)
(* it is reached in Serve, before the answer is written.                   *)
(***************************************************************************)
namedBy(call) ==
    IF ~headersAccepted(call.headers) THEN Text("malformed")
    ELSE IF preconditionOf(call.headers) = Absent THEN NoETag
    ELSE call.headers.ifMatch

verdictOf(call) ==
    IF call.answer.code = "ok" THEN "committed"
    ELSE IF call.decided # NoBelief THEN "refused"
    ELSE IF call.step = "answered" THEN "rejected"
    ELSE "open"

Register == INSTANCE ConditionalRegister WITH
    Requests <- CallIds,
    Nothing  <- NoETag,
    versions <- [k \in Keys |-> [i \in 1..Len(log[k]) |-> strongETag(log[k][i].record)]],
    asked    <- [id \in Sent |->
                   [key |-> calls[id].key, names |-> namedBy(calls[id]),
                    digest |-> IF calls[id].body = NotJson THEN NoDigest
                               ELSE DigestOf[calls[id].body]]],
    verdict  <- [id \in Sent |-> verdictOf(calls[id])]

\* Two reads of the lock, delays, losses and restarts notwithstanding, every PUT is
\* decided at one instant, on the state current at that instant.
ImplementsConditionalRegister == Register!Spec
=============================================================================
