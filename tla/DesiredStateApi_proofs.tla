----------------------- MODULE DesiredStateApi_proofs -----------------------
(***************************************************************************)
(* Proofs about DesiredStateApi, for any number of clients, stray          *)
(* requests, documents, faults and restarts: what the answers of a PUT     *)
(* say, and that the handler implements ConditionalRegister.               *)
(*                                                                         *)
(* All of it rests on ApiInv.  Its core is BeliefsArePast: whatever tag a  *)
(* client or a call carries from this incarnation of the server is the tag *)
(* of the version it was read at, so that comparing tags compares          *)
(* positions in the log.                                                   *)
(***************************************************************************)
EXTENDS DesiredStateApi, DesiredStateStore_proofs, FiniteSetTheorems

Tags == [revision : Nat \ {0}, digest : Digests] \cup {NoETag}
Belief == [tag : Tags, epoch : Int, versions : Nat]

Codes == {"none", "ok", "invalid_request", "desired_state_cas_mismatch",
          "dependency_unavailable"}

SentHeaders == StrayHeaders \cup {headersFor(t) : t \in Tags}
Call ==
    [key : Keys, headers : SentHeaders, body : Payloads \cup {NotJson}, basis : Belief,
     step : {"sent", "refused", "answered", "lost"}, decided : Belief,
     answer : [code : Codes, seen : Belief]]

\* The shape of the state of the HTTP surface.
ApiTypeOK ==
    /\ Sent \subseteq CallIds /\ calls \in [Sent -> Call]
    /\ held \in [Clients -> Belief]
    /\ epoch \in Nat

\* A client numbers its PUTs from 1, so that the next number is a new one.
PutsOf(c) == {id \in Sent : id.who = c}
Numbered ==
    \A c \in Clients :
        /\ IsFiniteSet(PutsOf(c))
        /\ \A id \in PutsOf(c) : id.n <= Cardinality(PutsOf(c))

\* Only calls write versions.
WritersAreSent ==
    \A k \in Keys : \A i \in 1..Len(log[k]) : log[k][i].caller \in Sent

\* The tag of the key while it had n versions.
TagAt(k, n) == IF n = 0 THEN NoETag ELSE strongETag(log[k][n].record)

\* A belief of this incarnation is the state the key had at some moment.
IsPast(k, b) ==
    /\ b.epoch <= epoch
    /\ b.epoch = epoch => b.versions <= Len(log[k]) /\ b.tag = TagAt(k, b.versions)

HeldIsPast == \A c \in Clients : IsPast(KeyOf[c], held[c])

----------------------------------------------------------------------------
(***************************************************************************)
(* What is true of each call.                                              *)
(***************************************************************************)
BeliefsArePast(id) ==
    /\ IsPast(calls[id].key, calls[id].basis)
    /\ IsPast(calls[id].key, calls[id].decided)
    /\ IsPast(calls[id].key, calls[id].answer.seen)

\* What a client sends follows from what it believes.
SentAsBelieved(id) ==
    /\ id.who \in Clients => calls[id].key = KeyOf[id.who]
    /\ calls[id].basis.epoch >= 0 => calls[id].headers = headersFor(calls[id].basis.tag)

\* How far a call is, and what is decided about it.  A call is refused on a state newer
\* than the one its client believed current.
StepsAreOrdered(id) ==
    /\ calls[id].step # "answered" => calls[id].answer = NoAnswer
    /\ calls[id].step = "sent" => calls[id].decided = NoBelief
    /\ calls[id].step = "refused" =>
          /\ calls[id].decided.epoch = epoch
          /\ calls[id].basis.epoch = epoch =>
                calls[id].basis.versions < calls[id].decided.versions

\* The three properties, for one call.
Truthful(id) ==
    /\ versionsBy(id) # {} => calls[id].answer.code = "ok"
    /\ calls[id].answer.code = "ok" /\ calls[id].answer.seen.epoch = epoch =>
          versionsBy(id) = {calls[id].answer.seen.tag.revision}

ReplacesWhatWasSeen(id) ==
    calls[id].basis.epoch = epoch => versionsBy(id) \subseteq {calls[id].basis.versions + 1}

MovesForward(id) ==
    /\ calls[id].answer.code = "desired_state_cas_mismatch"
    /\ calls[id].answer.seen.epoch = calls[id].decided.epoch
    => /\ calls[id].answer.seen.versions >= calls[id].decided.versions
       /\ calls[id].basis.epoch = calls[id].answer.seen.epoch =>
             calls[id].answer.seen.tag # calls[id].basis.tag

CallInv(id) ==
    /\ BeliefsArePast(id) /\ SentAsBelieved(id) /\ StepsAreOrdered(id)
    /\ Truthful(id) /\ ReplacesWhatWasSeen(id) /\ MovesForward(id)

ApiInv ==
    /\ StoreInv /\ ApiTypeOK /\ Numbered /\ WritersAreSent /\ HeldIsPast
    /\ \A id \in Sent : CallInv(id)

LEMMA ApiInvImplies ==
    ApiInv => AnswersAreTruthful /\ NoUnseenOverwrite /\ MismatchReportMovesForward
BY DEF ApiInv, CallInv, Truthful, ReplacesWhatWasSeen, MovesForward, AnswersAreTruthful,
       NoUnseenOverwrite, MismatchReportMovesForward

----------------------------------------------------------------------------
(***************************************************************************)
(* Tags and the log.                                                       *)
(***************************************************************************)
\* A tag is not the absence of one.
LEMMA TagsDiffer ==
    ASSUME NEW r, NEW d
    PROVE  [revision |-> r, digest |-> d] # NoETag
<1>1. DOMAIN [revision |-> r, digest |-> d] = {"revision", "digest"} /\ DOMAIN NoETag = {"text"}
  BY DEF NoETag
<1>. QED  BY <1>1

\* The next version is numbered one past the last, and the current tag is the last one's.
LEMMA CurrentIsLast ==
    ASSUME StoreInv, NEW k \in Keys
    PROVE  /\ Len(log[k]) \in Nat
           /\ NextRevision(k) = Len(log[k]) + 1
           /\ currentTag(k) = TagAt(k, Len(log[k]))
           /\ Exists(k) <=> Len(log[k]) # 0
           /\ Exists(k) => records[k].revision = Len(log[k]) /\ records[k].digest \in Digests
           /\ currentTag(k) \in Tags
<1>. USE DEF StoreInv
<1>1. log[k] \in Seq(LogEntry) /\ Len(log[k]) \in Nat /\ (log[k] = << >> <=> Len(log[k]) = 0)
  BY DEF StoreTypeOK
<1>2. CASE Exists(k)
  <2>1. Len(log[k]) \in 1..Len(log[k])
    BY <1>1, <1>2 DEF OneLogicalRevision
  <2>2. records[k] = log[k][Len(log[k])].record /\ records[k].revision = Len(log[k])
    BY <1>2, <2>1 DEF OneLogicalRevision
  <2>3. records[k] \in Record
    BY <1>2 DEF StoreTypeOK, Exists
  <2>. QED
    BY <1>1, <1>2, <2>1, <2>2, <2>3 DEF NextRevision, currentTag, TagAt, strongETag, Tags, Record
<1>3. CASE ~Exists(k)
  BY <1>1, <1>3 DEF OneLogicalRevision, NextRevision, currentTag, TagAt, Tags
<1>. QED  BY <1>2, <1>3

\* What a commit does to the log.
LEMMA CommitExtendsLog ==
    ASSUME StoreInv, NEW c \in Callers, NEW k \in Keys, NEW p \in Precondition,
           NEW v \in Payloads, Outcome(k, p, v) = "ok", Commit(c, k, p, v)
    PROVE  /\ NewRecord(k, v) \in Record
           /\ NewRecord(k, v).revision = Len(log[k]) + 1
           /\ Len(log'[k]) = Len(log[k]) + 1
           /\ \A i \in 1..Len(log[k]) : log'[k][i] = log[k][i]
           /\ log'[k][Len(log[k]) + 1] = [record |-> NewRecord(k, v), caller |-> c, on |-> p]
           /\ \A x \in Keys \ {k} : log'[x] = log[x]
<1>. USE DEF StoreInv
<1>. DEFINE entry == [record |-> NewRecord(k, v), caller |-> c, on |-> p]
<1>1. NewRecord(k, v) \in Record
  BY NewRecordType DEF Outcome
<1>2. NewRecord(k, v).revision = Len(log[k]) + 1
  BY CurrentIsLast DEF NewRecord
<1>3. entry \in LogEntry
  BY <1>1 DEF LogEntry
<1>4. log'[k] = Append(log[k], entry) /\ \A x \in Keys \ {k} : log'[x] = log[x]
  BY DEF Commit, StoreTypeOK
<1>5. log[k] \in Seq(LogEntry)
  BY DEF StoreTypeOK
<1>. HIDE DEF entry
<1>6. /\ Len(log'[k]) = Len(log[k]) + 1
      /\ \A i \in 1..Len(log[k]) : log'[k][i] = log[k][i]
      /\ log'[k][Len(log[k]) + 1] = entry
  BY <1>3, <1>4, <1>5, AppendFacts
<1>. QED  BY <1>1, <1>2, <1>4, <1>6 DEF entry

----------------------------------------------------------------------------
(***************************************************************************)
(* The calls a step does not touch.  In one incarnation the log only grows *)
(* and what is added is written by one call.                               *)
(***************************************************************************)
Grows(id) ==
    /\ epoch' = epoch
    /\ \A k \in Keys :
          /\ Len(log'[k]) \in Nat /\ Len(log[k]) <= Len(log'[k])
          /\ \A i \in 1..Len(log[k]) : log'[k][i] = log[k][i]
          /\ \A i \in (Len(log[k]) + 1)..Len(log'[k]) : log'[k][i].caller = id

LEMMA UnchangedGrows ==
    ASSUME StoreTypeOK, UNCHANGED <<log, epoch>>, NEW id PROVE Grows(id)
<1>1. \A k \in Keys : Len(log[k]) \in Nat
  BY DEF StoreTypeOK
<1>. QED  BY <1>1 DEF Grows

LEMMA CommitGrows ==
    ASSUME StoreInv, epoch' = epoch, NEW c \in Callers, NEW k \in Keys,
           NEW p \in Precondition, NEW v \in Payloads, CompareAndSwap(c, k, p, v)
    PROVE  Grows(c)
<1>0. \A x \in Keys : Len(log[x]) \in Nat
  BY CurrentIsLast
<1>1. CASE Outcome(k, p, v) = "ok"
  <2>1. Commit(c, k, p, v)
    BY <1>1 DEF CompareAndSwap
  <2>2. /\ Len(log'[k]) = Len(log[k]) + 1
        /\ \A i \in 1..Len(log[k]) : log'[k][i] = log[k][i]
        /\ log'[k][Len(log[k]) + 1] = [record |-> NewRecord(k, v), caller |-> c, on |-> p]
        /\ \A x \in Keys \ {k} : log'[x] = log[x]
    BY <1>1, <2>1, CommitExtendsLog, Zenon
  <2>. QED  BY <1>0, <2>2 DEF Grows
<1>2. CASE Outcome(k, p, v) # "ok"
  BY <1>2, UnchangedGrows DEF CompareAndSwap, storeVars, StoreInv
<1>. QED  BY <1>1, <1>2

\* What was the past of a key stays its past.
LEMMA PastStaysPast ==
    ASSUME StoreInv, NEW id, Grows(id), NEW k \in Keys, NEW b \in Belief, IsPast(k, b)
    PROVE  /\ b.epoch <= epoch'
           /\ b.epoch = epoch' =>
                 b.versions <= Len(log'[k])
                 /\ b.tag = IF b.versions = 0 THEN NoETag ELSE strongETag(log'[k][b.versions].record)
<1>. SUFFICES ASSUME b.epoch = epoch
              PROVE  /\ b.versions <= Len(log'[k])
                     /\ b.tag = IF b.versions = 0 THEN NoETag
                                ELSE strongETag(log'[k][b.versions].record)
  BY DEF IsPast, Grows
<1>1. /\ b.versions \in Nat /\ b.versions <= Len(log[k]) /\ b.tag = TagAt(k, b.versions)
      /\ Len(log[k]) \in Nat /\ Len(log'[k]) \in Nat /\ Len(log[k]) <= Len(log'[k])
      /\ \A i \in 1..Len(log[k]) : log'[k][i] = log[k][i]
  BY CurrentIsLast DEF IsPast, Grows, Belief
<1>2. b.versions # 0 => log'[k][b.versions] = log[k][b.versions]
  BY <1>1
<1>. QED  BY <1>1, <1>2 DEF TagAt, strongETag

\* A call keeps the versions it has written if another one writes.
LEMMA OthersWriteTheirOwn ==
    ASSUME StoreInv, ApiTypeOK, NEW id, Grows(id), NEW x \in Sent, x # id,
           x \in DOMAIN calls', calls'[x].key = calls[x].key
    PROVE  versionsBy(x)' = versionsBy(x)
<1>1. calls[x].key \in Keys
  BY DEF ApiTypeOK, Call
<1>2. \A k \in Keys :
         {i \in 1..Len(log'[k]) : log'[k][i].caller = x} = {i \in 1..Len(log[k]) : log[k][i].caller = x}
  <2>1. \A k \in Keys : Len(log[k]) \in Nat
    BY CurrentIsLast
  <2>. QED  BY <2>1 DEF Grows
<1>. QED  BY <1>1, <1>2 DEF versionsBy

LEMMA OtherCalls ==
    ASSUME ApiInv, NEW id, Grows(id), NEW x \in Sent, x # id, calls'[x] = calls[x],
           x \in DOMAIN calls'
    PROVE  CallInv(x)'
<1>. USE DEF ApiInv
<1>1. calls[x] \in Call /\ CallInv(x)
  BY DEF ApiTypeOK
<1>2. BeliefsArePast(x)'
  <2>1. calls[x].key \in Keys /\ calls[x].basis \in Belief /\ calls[x].decided \in Belief
        /\ calls[x].answer.seen \in Belief
    BY <1>1 DEF Call
  <2>2. ASSUME NEW b \in Belief, IsPast(calls[x].key, b)
        PROVE  /\ b.epoch <= epoch'
               /\ b.epoch = epoch' =>
                     b.versions <= Len(log'[calls'[x].key])
                     /\ b.tag = IF b.versions = 0 THEN NoETag
                                ELSE strongETag(log'[calls'[x].key][b.versions].record)
    BY <2>1, <2>2, PastStaysPast
  <2>3. \A b \in {calls[x].basis, calls[x].decided, calls[x].answer.seen} : IsPast(calls[x].key, b)
    BY <1>1 DEF CallInv, BeliefsArePast
  <2>. QED  BY <2>1, <2>2, <2>3 DEF BeliefsArePast, IsPast, TagAt
<1>3. epoch' = epoch /\ versionsBy(x)' = versionsBy(x)
  BY OthersWriteTheirOwn DEF Grows
<1>. QED
  BY <1>1, <1>2, <1>3 DEF CallInv, SentAsBelieved, StepsAreOrdered, Truthful,
                          ReplacesWhatWasSeen, MovesForward

----------------------------------------------------------------------------
(***************************************************************************)
(* Headers, preconditions and the tags they name.                          *)
(***************************************************************************)
LEMMA AcceptedIsPrecondition ==
    ASSUME ApiTypeOK, NEW id \in Sent, wellFormed(calls[id])
    PROVE  /\ preconditionOf(calls[id].headers) \in Precondition
           /\ ValidPrecondition(preconditionOf(calls[id].headers))
           /\ calls[id].body \in Payloads /\ calls[id].key \in Keys
<1>. DEFINE h == calls[id].headers
<1>1. calls[id].body \in Payloads /\ calls[id].key \in Keys
  BY DEF ApiTypeOK, Call, wellFormed
<1>2. CASE h.ifNoneMatch = "*"
  BY <1>1, <1>2, AbsentAssumption
     DEF preconditionOf, Absent, Precondition, Kinds, ValidPrecondition
<1>3. CASE h.ifNoneMatch # "*"
  <2>1. h.ifMatch \in ETag /\ h.ifMatch.revision > 0
    BY <1>3 DEF wellFormed, headersAccepted, parses
  <2>. QED
    BY <1>1, <1>3, <2>1, DigestAssumption
       DEF preconditionOf, Match, Precondition, Kinds, ValidPrecondition, ETag
<1>. QED  BY <1>2, <1>3

\* A precondition holds when the tag it names is the current one.
LEMMA HoldsNamesTag ==
    ASSUME StoreInv, ApiTypeOK, NEW id \in Sent, wellFormed(calls[id])
    PROVE  Holds(calls[id].key, preconditionOf(calls[id].headers))
              <=> namedBy(calls[id]) = currentTag(calls[id].key)
<1>. DEFINE h == calls[id].headers  k == calls[id].key
<1>0. k \in Keys /\ headersAccepted(h)
  BY AcceptedIsPrecondition DEF wellFormed
<1>1. CASE h.ifNoneMatch = "*"
  <2>1. namedBy(calls[id]) = NoETag
    BY <1>0, <1>1 DEF namedBy, preconditionOf
  <2>2. Holds(k, preconditionOf(h)) <=> ~Exists(k)
    BY <1>1 DEF preconditionOf, Absent, Holds
  <2>3. currentTag(k) = NoETag <=> ~Exists(k)
    BY TagsDiffer DEF currentTag, strongETag
  <2>. QED  BY <2>1, <2>2, <2>3
<1>2. CASE h.ifNoneMatch # "*"
  <2>1. h.ifMatch \in ETag
    BY <1>0, <1>2 DEF headersAccepted, parses
  <2>2. preconditionOf(h) # Absent
    BY <1>2 DEF preconditionOf, Match, Absent
  <2>3. namedBy(calls[id]) = h.ifMatch
    BY <1>0, <2>2 DEF namedBy
  <2>4. Holds(k, preconditionOf(h)) <=>
           Exists(k) /\ records[k].revision = h.ifMatch.revision /\ records[k].digest = h.ifMatch.digest
    BY <1>2 DEF preconditionOf, Match, Holds
  <2>5. h.ifMatch = [revision |-> h.ifMatch.revision, digest |-> h.ifMatch.digest]
    BY <2>1 DEF ETag
  <2>6. CASE Exists(k)
    BY <2>3, <2>4, <2>5, <2>6 DEF currentTag, strongETag
  <2>7. CASE ~Exists(k)
    BY <2>3, <2>4, <2>5, <2>7, TagsDiffer DEF currentTag
  <2>. QED  BY <2>6, <2>7
<1>. QED  BY <1>1, <1>2

LEMMA HeadersForNothing == headersFor(NoETag).ifNoneMatch = "*"
BY DEF headersFor

LEMMA HeadersForTag ==
    ASSUME NEW tag, tag # NoETag
    PROVE  headersFor(tag).ifNoneMatch = "" /\ headersFor(tag).ifMatch = tag
BY DEF headersFor

\* A client's PUT names the tag the client believes current.
LEMMA ClientNamesBasis ==
    ASSUME NEW call, NEW tag, call.headers = headersFor(tag), headersAccepted(call.headers)
    PROVE  namedBy(call) = tag
<1>1. CASE tag = NoETag
  <2>1. call.headers.ifNoneMatch = "*"
    BY <1>1, HeadersForNothing
  <2>. QED  BY <1>1, <2>1 DEF namedBy, preconditionOf
<1>2. CASE tag # NoETag
  <2>1. call.headers.ifNoneMatch = "" /\ call.headers.ifMatch = tag
    BY <1>2, HeadersForTag
  <2>2. preconditionOf(call.headers) # Absent
    BY <2>1 DEF preconditionOf, Match, Absent
  <2>. QED  BY <2>1, <2>2 DEF namedBy
<1>. QED  BY <1>1, <1>2

\* The tags of a key differ from version to version: the revision is the position.
LEMMA TagTellsVersion ==
    ASSUME StoreInv, NEW k \in Keys, NEW m \in 0..Len(log[k]), NEW n \in 0..Len(log[k]),
           TagAt(k, m) = TagAt(k, n)
    PROVE  m = n
<1>1. \A i \in 1..Len(log[k]) : log[k][i].record.revision = i
  BY DEF StoreInv, OneLogicalRevision
<1>2. Len(log[k]) \in Nat
  BY CurrentIsLast
<1>3. \A i \in 1..Len(log[k]) : TagAt(k, i).revision = i /\ TagAt(k, i) # NoETag
  BY <1>1, <1>2, TagsDiffer DEF TagAt, strongETag
<1>4. TagAt(k, 0) = NoETag
  BY DEF TagAt
<1>. QED  BY <1>2, <1>3, <1>4

\* So a PUT based on a state of this incarnation goes through exactly when no version
\* was written since.
LEMMA BasisDecides ==
    ASSUME ApiInv, NEW id \in Sent, wellFormed(calls[id]), calls[id].basis.epoch = epoch
    PROVE  /\ calls[id].basis.versions \in 0..Len(log[calls[id].key])
           /\ Holds(calls[id].key, preconditionOf(calls[id].headers))
                 <=> calls[id].basis.versions = Len(log[calls[id].key])
<1>. DEFINE b == calls[id].basis  k == calls[id].key
<1>. USE DEF ApiInv
<1>1. /\ k \in Keys /\ b \in Belief /\ b.tag \in Tags /\ b.versions \in Nat /\ b.epoch >= 0
  BY DEF ApiTypeOK, Call, Belief
<1>2. b.versions <= Len(log[k]) /\ b.tag = TagAt(k, b.versions)
  BY <1>1 DEF CallInv, BeliefsArePast, IsPast
<1>3. calls[id].headers = headersFor(b.tag)
  BY <1>1 DEF CallInv, SentAsBelieved
<1>4. namedBy(calls[id]) = b.tag
  BY <1>1, <1>3, ClientNamesBasis DEF wellFormed
<1>5. Len(log[k]) \in Nat /\ currentTag(k) = TagAt(k, Len(log[k]))
  BY <1>1, CurrentIsLast
<1>6. b.tag = currentTag(k) <=> b.versions = Len(log[k])
  BY <1>1, <1>2, <1>5, TagTellsVersion
<1>. QED  BY <1>1, <1>2, <1>4, <1>5, <1>6, HoldsNamesTag

----------------------------------------------------------------------------
(***************************************************************************)
(* The steps.                                                              *)
(***************************************************************************)
\* A step that concerns one call, new or not.
LEMMA StepOfCall ==
    ASSUME ApiInv, StoreInv', ApiTypeOK', Numbered', held' = held,
           NEW id, Grows(id), DOMAIN calls' = Sent \cup {id},
           \A x \in Sent \ {id} : calls'[x] = calls[x], CallInv(id)'
    PROVE  ApiInv'
<1>. USE DEF ApiInv
<1>0. Sent' = Sent \cup {id}
  BY DEF Sent
<1>1. \A x \in Sent' : CallInv(x)'
  <2>1. ASSUME NEW x \in Sent, x # id PROVE CallInv(x)'
    BY <2>1, OtherCalls
  <2>. QED  BY <1>0, <2>1
<1>2. WritersAreSent'
  <2>1. SUFFICES ASSUME NEW k \in Keys, NEW i \in 1..Len(log'[k])
                 PROVE  log'[k][i].caller \in Sent \cup {id}
    BY <1>0 DEF WritersAreSent
  <2>2. Len(log[k]) \in Nat /\ Len(log'[k]) \in Nat
    BY CurrentIsLast DEF Grows
  <2>3. CASE i <= Len(log[k])
    BY <2>2, <2>3 DEF WritersAreSent, Grows
  <2>4. CASE i > Len(log[k])
    BY <2>2, <2>4 DEF Grows
  <2>. QED  BY <2>2, <2>3, <2>4
<1>3. HeldIsPast'
  <2>1. ASSUME NEW c \in Clients PROVE IsPast(KeyOf[c], held[c])'
    <3>1. KeyOf[c] \in Keys /\ held[c] \in Belief
      BY ClientAssumption DEF ApiTypeOK
    <3>2. IsPast(KeyOf[c], held[c])
      BY DEF HeldIsPast
    <3>. QED  BY <3>1, <3>2, PastStaysPast DEF IsPast, TagAt
  <2>. QED  BY <2>1 DEF HeldIsPast
<1>. QED  BY <1>1, <1>2, <1>3

\* Only a client acts: nothing is said about the calls or the store.
LEMMA StepOfClient ==
    ASSUME ApiInv, UNCHANGED <<records, log, calls, epoch>>, held' \in [Clients -> Belief],
           \A c \in Clients : IsPast(KeyOf[c], held'[c])
    PROVE  ApiInv'
<1>. USE DEF ApiInv
<1>1. StoreInv'
  BY StoreStepInv DEF storeVars
<1>4. ApiTypeOK' /\ Numbered' /\ WritersAreSent'
  BY DEF ApiTypeOK, Numbered, PutsOf, WritersAreSent, Sent
<1>2. HeldIsPast'
  BY DEF HeldIsPast, IsPast, TagAt
<1>3. \A id \in Sent' : CallInv(id)'
  BY DEF CallInv, BeliefsArePast, IsPast, TagAt, SentAsBelieved, StepsAreOrdered, Truthful,
         ReplacesWhatWasSeen, MovesForward, versionsBy, Sent
<1>. QED  BY <1>1, <1>2, <1>3, <1>4

\* What a Read returns is a belief.
LEMMA BeliefIsPast ==
    ASSUME ApiInv, NEW k \in Keys
    PROVE  belief(k) \in Belief /\ IsPast(k, belief(k)) /\ belief(k).epoch = epoch
BY CurrentIsLast DEF ApiInv, ApiTypeOK, belief, Belief, IsPast

LEMMA NoBeliefIsPast == ASSUME ApiInv, NEW k PROVE NoBelief \in Belief /\ IsPast(k, NoBelief)
BY DEF ApiInv, ApiTypeOK, NoBelief, Belief, Tags, IsPast

LEMMA ClientSteps ==
    ASSUME ApiInv, NEW c \in Clients, Get(c) \/ Receive(c) \/ GiveUp(c) \/ Timeout(c)
    PROVE  ApiInv'
<1>. USE DEF ApiInv
<1>1. KeyOf[c] \in Keys
  BY ClientAssumption
<1>2. CASE Get(c)
  BY <1>1, <1>2, BeliefIsPast, StepOfClient DEF Get, ApiTypeOK, HeldIsPast
<1>3. CASE Receive(c)
  <2>. DEFINE id == Latest(c)
  <2>1. id \in Sent /\ id.who = c
    BY <1>3 DEF Receive, StepIs, Latest
  <2>2. calls[id].key = KeyOf[c] /\ calls[id].answer.seen \in Belief
        /\ IsPast(KeyOf[c], calls[id].answer.seen)
    BY <2>1 DEF CallInv, SentAsBelieved, BeliefsArePast, ApiTypeOK, Call
  <2>3. held' = held \/ held' = [held EXCEPT ![c] = calls[id].answer.seen]
    BY <1>3 DEF Receive
  <2>. QED
    BY <1>3, <2>2, <2>3, StepOfClient DEF Receive, ApiTypeOK, HeldIsPast
<1>4. CASE GiveUp(c) \/ Timeout(c)
  BY <1>4, StepOfClient DEF GiveUp, Timeout, ApiTypeOK, HeldIsPast
<1>. QED  BY <1>2, <1>3, <1>4, Zenon

\* A new call has written nothing yet.
LEMMA NewCallInv ==
    ASSUME ApiInv, NEW id \in CallIds \ Sent, NEW k \in Keys,
           NEW h \in SentHeaders,
           NEW b \in Payloads \cup {NotJson}, NEW bel \in Belief, IsPast(k, bel),
           id.who \in Clients => k = KeyOf[id.who],
           bel.epoch >= 0 => h = headersFor(bel.tag),
           AddCall(id, newCall(k, h, b, bel)), UNCHANGED <<records, log, held, epoch>>,
           Numbered'
    PROVE  ApiInv'
<1>. USE DEF ApiInv
<1>. DEFINE call == newCall(k, h, b, bel)
<1>1. /\ DOMAIN calls' = Sent \cup {id} /\ calls'[id] = call
      /\ \A x \in Sent \ {id} : calls'[x] = calls[x]
  BY DEF AddCall
<1>2. call \in Call
  BY NoBeliefIsPast DEF newCall, Call, NoAnswer, Codes
<1>3. ApiTypeOK'
  <2>1. calls' \in [Sent \cup {id} -> Call]
    BY <1>1, <1>2 DEF ApiTypeOK, AddCall
  <2>. QED  BY <1>1, <2>1 DEF ApiTypeOK, Sent
<1>4. StoreInv' /\ Grows(id)
  BY UnchangedGrows, StoreStepInv DEF storeVars, StoreInv
<1>5. versionsBy(id)' = {}
  <2>1. \A i \in 1..Len(log[k]) : log[k][i].caller # id
    BY DEF WritersAreSent
  <2>. QED  BY <1>1, <2>1 DEF versionsBy, newCall
<1>6. CallInv(id)'
  <2>1. BeliefsArePast(id)'
    BY <1>1, NoBeliefIsPast DEF BeliefsArePast, newCall, NoAnswer, IsPast, TagAt
  <2>. QED
    BY <1>1, <1>5, <2>1
       DEF newCall, CallInv, SentAsBelieved, StepsAreOrdered, Truthful, ReplacesWhatWasSeen,
           MovesForward, NoAnswer
<1>. QED  BY <1>1, <1>3, <1>4, <1>6, StepOfCall

\* A client's next PUT has a number it has not used.
LEMMA NextPut ==
    ASSUME ApiInv, NEW c \in Clients, Put(c), NEW m, m = Cardinality(PutsOf(c)),
           NEW id, id = [who |-> c, n |-> m + 1]
    PROVE  /\ m \in Nat /\ IsFiniteSet(PutsOf(c)) /\ id \in CallIds \ Sent
           /\ AddCall(id, newCall(KeyOf[c], headersFor(held[c].tag), BodyOf[c], held[c]))
<1>. USE DEF ApiInv
<1>1. m \in Nat /\ IsFiniteSet(PutsOf(c)) /\ Latest(c).n = m
  BY FS_CardinalityType DEF Numbered, PutsOf, Latest
<1>2. id \in CallIds
  BY <1>1, BoundAssumption DEF Put, CallIds
<1>3. id \notin Sent
  <2>1. \A x \in PutsOf(c) : x.n <= m
    BY DEF Numbered
  <2>. QED  BY <1>1, <2>1 DEF PutsOf
<1>4. AddCall(id, newCall(KeyOf[c], headersFor(held[c].tag), BodyOf[c], held[c]))
  BY <1>1 DEF Put
<1>. QED  BY <1>1, <1>2, <1>3, <1>4

LEMMA PutStep ==
    ASSUME ApiInv, NEW c \in Clients, Put(c) PROVE ApiInv'
<1>. USE DEF ApiInv
<1>. DEFINE m == Cardinality(PutsOf(c))  id == [who |-> c, n |-> m + 1]
<1>1. m \in Nat /\ IsFiniteSet(PutsOf(c)) /\ id \in CallIds
  BY NextPut
<1>3. id \notin Sent
  BY NextPut
<1>4. AddCall(id, newCall(KeyOf[c], headersFor(held[c].tag), BodyOf[c], held[c]))
  BY NextPut
<1>5. Numbered'
  <2>1. Sent' = Sent \cup {id}
    BY <1>4 DEF AddCall, Sent
  <2>2. PutsOf(c)' = PutsOf(c) \cup {id}
    BY <2>1 DEF PutsOf
  <2>3. IsFiniteSet(PutsOf(c)') /\ Cardinality(PutsOf(c)') = m + 1
    <3>1. id \notin PutsOf(c)
      BY <1>3 DEF PutsOf
    <3>2. IsFiniteSet(PutsOf(c) \cup {id}) /\ Cardinality(PutsOf(c) \cup {id}) = m + 1
      BY <1>1, <3>1, FS_AddElement
    <3>. QED  BY <2>2, <3>2
  <2>4. \A x \in PutsOf(c) : x.n \in Nat /\ x.n <= m
    BY DEF Numbered, PutsOf, ApiTypeOK, CallIds
  <2>5. \A x \in PutsOf(c)' : x.n <= Cardinality(PutsOf(c)')
    BY <1>1, <2>2, <2>3, <2>4
  <2>6. \A d \in Clients \ {c} : PutsOf(d)' = PutsOf(d)
    BY <2>1 DEF PutsOf
  <2>. QED  BY <2>3, <2>5, <2>6 DEF Numbered
<1>6. held[c] \in Belief /\ held[c].tag \in Tags /\ IsPast(KeyOf[c], held[c])
  BY DEF ApiTypeOK, HeldIsPast, Belief
<1>7. KeyOf[c] \in Keys /\ BodyOf[c] \in Payloads
  BY ClientAssumption
<1>8. id \in CallIds \ Sent /\ id.who = c /\ headersFor(held[c].tag) \in SentHeaders
  BY <1>1, <1>3, <1>6 DEF SentHeaders
<1>9. UNCHANGED <<records, log, held, epoch>>
  BY DEF Put
<1>. HIDE DEF id
<1>. QED  BY <1>4, <1>5, <1>6, <1>7, <1>8, <1>9, NewCallInv

LEMMA StrayPutStep ==
    ASSUME ApiInv, NEW s \in Strays, StrayPut(s) PROVE ApiInv'
<1>. USE DEF ApiInv
<1>. DEFINE id == [who |-> s, n |-> 1]
<1>1. PICK k \in Keys, h \in StrayHeaders, b \in Payloads \cup {NotJson} :
         AddCall(id, newCall(k, h, b, NoBelief))
  BY DEF StrayPut
<1>2. s \notin Clients /\ id \notin Sent
  BY ClientAssumption DEF StrayPut
<1>3. Numbered'
  <2>1. Sent' = Sent \cup {id}
    BY <1>1 DEF AddCall, Sent
  <2>2. \A d \in Clients : PutsOf(d)' = PutsOf(d)
    BY <1>2, <2>1 DEF PutsOf
  <2>. QED  BY <2>2 DEF Numbered
<1>4. NoBelief \in Belief /\ IsPast(k, NoBelief) /\ ~(NoBelief.epoch >= 0)
  BY NoBeliefIsPast DEF NoBelief
<1>5. id.who = s
  OBVIOUS
<1>6. id \in CallIds
  BY BoundAssumption DEF CallIds
<1>. QED  BY <1>1, <1>2, <1>3, <1>4, <1>5, <1>6, NewCallInv DEF StrayPut, SentHeaders

\* A step that changes how far one call is, what is decided and what is answered.
LEMMA UpdateInv ==
    ASSUME ApiInv, StoreInv', UNCHANGED <<held, epoch>>, NEW id \in Sent, Grows(id),
           DOMAIN calls' = Sent, \A x \in Sent \ {id} : calls'[x] = calls[x],
           calls'[id] \in Call, calls' = [x \in Sent |-> calls'[x]], CallInv(id)'
    PROVE  ApiInv'
<1>. USE DEF ApiInv
<1>1. Sent' = Sent /\ DOMAIN calls' = Sent \cup {id}
  BY DEF Sent
<1>2. calls' \in [Sent -> Call]
  BY DEF ApiTypeOK
<1>3. ApiTypeOK' /\ Numbered'
  BY <1>1, <1>2 DEF ApiTypeOK, Numbered, PutsOf
<1>. QED  BY <1>1, <1>3, StepOfCall

\* The parts of a call an answer does not change.
LEMMA AnsweredCall ==
    ASSUME ApiTypeOK, NEW id \in Sent, NEW code \in Codes, NEW bel \in Belief,
           calls' = Answer(id, code, bel)
    PROVE  /\ DOMAIN calls' = Sent /\ calls' = [x \in Sent |-> calls'[x]]
           /\ \A x \in Sent \ {id} : calls'[x] = calls[x]
           /\ calls'[id] \in Call
           /\ calls'[id].key = calls[id].key /\ calls'[id].headers = calls[id].headers
           /\ calls'[id].body = calls[id].body
           /\ calls'[id].basis = calls[id].basis /\ calls'[id].decided = calls[id].decided
           /\ calls'[id].step = "answered"
           /\ calls'[id].answer.code = code /\ calls'[id].answer.seen = bel
<1>. DEFINE call == calls[id]  answer == [code |-> code, seen |-> bel]
            new == [call EXCEPT !.step = "answered", !.answer = answer]
<1>0. calls \in [Sent -> Call] /\ call \in Call
  BY DEF ApiTypeOK
<1>1. /\ DOMAIN calls' = Sent /\ calls' = [x \in Sent |-> calls'[x]]
      /\ \A x \in Sent \ {id} : calls'[x] = calls[x]
      /\ calls'[id] = new
  BY <1>0 DEF Answer
<1>. HIDE DEF call
<1>2. /\ new \in Call
      /\ new.key = call.key /\ new.headers = call.headers /\ new.body = call.body
      /\ new.basis = call.basis /\ new.decided = call.decided /\ new.step = "answered"
      /\ new.answer.code = code /\ new.answer.seen = bel
  BY <1>0 DEF Call
<1>. HIDE DEF new
<1>. QED  BY <1>1, <1>2 DEF call

\* A PUT that has no answer has written nothing.
LEMMA UnansweredWroteNothing ==
    ASSUME ApiInv, NEW id \in Sent, calls[id].step # "answered"
    PROVE  calls[id].answer = NoAnswer /\ versionsBy(id) = {}
BY DEF ApiInv, CallInv, StepsAreOrdered, Truthful, NoAnswer

\* A call is answered, and not with success.
LEMMA AnswerInv ==
    ASSUME ApiInv, UNCHANGED <<records, log, held, epoch>>,
           NEW id \in Sent, calls[id].step # "answered",
           NEW code \in Codes \ {"ok"}, NEW bel \in Belief, IsPast(calls[id].key, bel),
           calls' = Answer(id, code, bel),
           code = "desired_state_cas_mismatch" /\ bel.epoch = calls[id].decided.epoch =>
               /\ bel.versions >= calls[id].decided.versions
               /\ calls[id].basis.epoch = bel.epoch => bel.tag # calls[id].basis.tag
    PROVE  ApiInv'
<1>. USE DEF ApiInv
<1>0. code \in Codes
  OBVIOUS
<1>3. /\ DOMAIN calls' = Sent /\ calls' = [x \in Sent |-> calls'[x]]
      /\ \A x \in Sent \ {id} : calls'[x] = calls[x]
      /\ calls'[id] \in Call
      /\ calls'[id].key = calls[id].key /\ calls'[id].headers = calls[id].headers
      /\ calls'[id].basis = calls[id].basis /\ calls'[id].decided = calls[id].decided
      /\ calls'[id].step = "answered"
      /\ calls'[id].answer.code = code /\ calls'[id].answer.seen = bel
  BY <1>0, AnsweredCall
<1>4. StoreInv' /\ Grows(id)
  BY UnchangedGrows, StoreStepInv DEF storeVars, StoreInv
<1>5. versionsBy(id)' = {}
  BY <1>3, UnansweredWroteNothing DEF versionsBy
<1>6. CallInv(id)'
  <2>1. CallInv(id)
    OBVIOUS
  <2>2. BeliefsArePast(id)'
    BY <1>3, <2>1 DEF CallInv, BeliefsArePast, IsPast, TagAt
  <2>3. SentAsBelieved(id)' /\ StepsAreOrdered(id)'
    BY <1>3, <2>1 DEF CallInv, SentAsBelieved, StepsAreOrdered
  <2>4. Truthful(id)' /\ ReplacesWhatWasSeen(id)' /\ MovesForward(id)'
    BY <1>3, <1>5 DEF Truthful, ReplacesWhatWasSeen, MovesForward
  <2>. QED  BY <2>2, <2>3, <2>4 DEF CallInv
<1>. QED  BY <1>3, <1>4, <1>6, UpdateInv

\* The write is committed and answered: it is the next version, and the one after the
\* state its client believed current.
LEMMA CommitStep ==
    ASSUME ApiInv, UNCHANGED <<held, epoch>>, NEW id \in Sent, calls[id].step = "sent",
           wellFormed(calls[id]),
           Outcome(calls[id].key, preconditionOf(calls[id].headers), calls[id].body) = "ok",
           CompareAndSwap(id, calls[id].key, preconditionOf(calls[id].headers), calls[id].body),
           calls' = Answer(id, "ok",
                           [tag |-> strongETag(NewRecord(calls[id].key, calls[id].body)),
                            epoch |-> epoch, versions |-> Len(log[calls[id].key]) + 1])
    PROVE  ApiInv'
<1>. DEFINE k == calls[id].key  p == preconditionOf(calls[id].headers)  v == calls[id].body
            rec == NewRecord(k, v)
            bel == [tag |-> strongETag(rec), epoch |-> epoch, versions |-> Len(log[k]) + 1]
<1>. USE DEF ApiInv
<1>0. calls \in [Sent -> Call] /\ calls[id] \in Call /\ id \in Callers
  BY CallerAssumption DEF ApiTypeOK
<1>1. p \in Precondition /\ v \in Payloads /\ k \in Keys
  BY AcceptedIsPrecondition
<1>2. Commit(id, k, p, v)
  BY DEF CompareAndSwap
<1>3. /\ rec \in Record /\ rec.revision = Len(log[k]) + 1
      /\ Len(log'[k]) = Len(log[k]) + 1
      /\ \A i \in 1..Len(log[k]) : log'[k][i] = log[k][i]
      /\ log'[k][Len(log[k]) + 1] = [record |-> rec, caller |-> id, on |-> p]
  BY <1>0, <1>1, <1>2, CommitExtendsLog
<1>4. Len(log[k]) \in Nat /\ epoch \in Nat
  BY <1>1, CurrentIsLast DEF ApiTypeOK
<1>5. bel \in Belief /\ bel.tag.revision = Len(log[k]) + 1
  BY <1>3, <1>4 DEF Belief, Tags, strongETag, Record
<1>6. bel.epoch = epoch /\ bel.versions = Len(log[k]) + 1 /\ bel.tag = strongETag(rec)
  OBVIOUS
<1>. HIDE DEF rec, bel
<1>7. "ok" \in Codes /\ calls' = Answer(id, "ok", bel)
  BY DEF Codes, bel, rec
<1>8. /\ DOMAIN calls' = Sent /\ calls' = [x \in Sent |-> calls'[x]]
      /\ \A x \in Sent \ {id} : calls'[x] = calls[x]
      /\ calls'[id] \in Call
      /\ calls'[id].key = k /\ calls'[id].headers = calls[id].headers
      /\ calls'[id].basis = calls[id].basis /\ calls'[id].decided = calls[id].decided
      /\ calls'[id].step = "answered"
      /\ calls'[id].answer.code = "ok" /\ calls'[id].answer.seen = bel
  BY <1>5, <1>7, AnsweredCall
<1>9. StoreInv' /\ Grows(id)
  BY <1>0, <1>1, CommitGrows, StoreStepInv DEF StoreNext
<1>10. versionsBy(id)' = {Len(log[k]) + 1}
  <2>1. \A i \in 1..Len(log[k]) : log[k][i].caller # id
    BY UnansweredWroteNothing DEF versionsBy
  <2>2. \A i \in 1..Len(log'[k]) : log'[k][i].caller = id <=> i = Len(log[k]) + 1
    <3>1. log'[k][Len(log[k]) + 1].caller = id
      BY <1>3
    <3>2. \A i \in 1..Len(log[k]) : log'[k][i].caller # id
      BY <1>3, <2>1
    <3>3. Len(log'[k]) = Len(log[k]) + 1
      BY <1>3
    <3>. QED  BY <1>4, <3>1, <3>2, <3>3
  <2>3. Len(log[k]) + 1 \in 1..Len(log'[k])
    BY <1>3, <1>4
  <2>4. versionsBy(id)' = {i \in 1..Len(log'[k]) : log'[k][i].caller = id}
    BY <1>8 DEF versionsBy
  <2>. QED  BY <2>2, <2>3, <2>4
<1>11. calls[id].basis.epoch = epoch => calls[id].basis.versions = Len(log[k])
  BY BasisDecides DEF Outcome
<1>12. CallInv(id)'
  <2>1. CallInv(id)
    OBVIOUS
  <2>2. BeliefsArePast(id)'
    <3>1. calls[id].basis \in Belief /\ calls[id].decided \in Belief
      BY <1>0 DEF Call
    <3>2. IsPast(k, calls[id].basis) /\ IsPast(k, calls[id].decided)
      BY <2>1 DEF CallInv, BeliefsArePast
    <3>3. IsPast(calls[id].key, calls[id].basis)' /\ IsPast(calls[id].key, calls[id].decided)'
      <4>1. ASSUME NEW b \in Belief, IsPast(k, b)
            PROVE  /\ b.epoch <= epoch'
                   /\ b.epoch = epoch' =>
                         b.versions <= Len(log'[k])
                         /\ b.tag = IF b.versions = 0 THEN NoETag
                                    ELSE strongETag(log'[k][b.versions].record)
        BY <1>1, <1>9, <4>1, PastStaysPast
      <4>2. calls'[id].key = k /\ calls'[id].basis = calls[id].basis
            /\ calls'[id].decided = calls[id].decided
        BY <1>8
      <4>3. IsPast(calls[id].key, calls[id].basis)'
        BY <3>1, <3>2, <4>1, <4>2 DEF IsPast, TagAt
      <4>4. IsPast(calls[id].key, calls[id].decided)'
        BY <3>1, <3>2, <4>1, <4>2 DEF IsPast, TagAt
      <4>. QED  BY <4>3, <4>4
    <3>4. log'[k][Len(log[k]) + 1].record = rec
      BY <1>3
    <3>5. IsPast(calls[id].key, calls[id].answer.seen)'
      <4>1. /\ bel.epoch <= epoch' /\ bel.versions <= Len(log'[k])
            /\ bel.tag = IF bel.versions = 0 THEN NoETag ELSE strongETag(log'[k][bel.versions].record)
        BY <1>3, <1>4, <1>6, <3>4
      <4>. QED  BY <1>8, <4>1 DEF IsPast, TagAt
    <3>. QED  BY <3>3, <3>5 DEF BeliefsArePast
  <2>3. SentAsBelieved(id)' /\ StepsAreOrdered(id)'
    BY <1>8, <2>1 DEF CallInv, SentAsBelieved, StepsAreOrdered
  <2>4. Truthful(id)' /\ ReplacesWhatWasSeen(id)' /\ MovesForward(id)'
    BY <1>4, <1>5, <1>6, <1>8, <1>10, <1>11 DEF Truthful, ReplacesWhatWasSeen, MovesForward
  <2>. QED  BY <2>2, <2>3, <2>4 DEF CallInv
<1>. QED  BY <1>8, <1>9, <1>12, UpdateInv

\* The parts of a call a refusal does not change.
LEMMA RefusedCall ==
    ASSUME ApiTypeOK, NEW id \in Sent, NEW bel \in Belief,
           calls' = [calls EXCEPT ![id].step = "refused", ![id].decided = bel]
    PROVE  /\ DOMAIN calls' = Sent /\ calls' = [x \in Sent |-> calls'[x]]
           /\ \A x \in Sent \ {id} : calls'[x] = calls[x]
           /\ calls'[id] \in Call
           /\ calls'[id].key = calls[id].key /\ calls'[id].headers = calls[id].headers
           /\ calls'[id].body = calls[id].body
           /\ calls'[id].basis = calls[id].basis /\ calls'[id].decided = bel
           /\ calls'[id].step = "refused" /\ calls'[id].answer = calls[id].answer
<1>. DEFINE call == calls[id]
            new == [call EXCEPT !.step = "refused", !.decided = bel]
<1>0. calls \in [Sent -> Call] /\ call \in Call
  BY DEF ApiTypeOK
<1>1. /\ DOMAIN calls' = Sent /\ calls' = [x \in Sent |-> calls'[x]]
      /\ \A x \in Sent \ {id} : calls'[x] = calls[x]
      /\ calls'[id] = new
  BY <1>0
<1>. HIDE DEF call
<1>2. /\ new \in Call
      /\ new.key = call.key /\ new.headers = call.headers /\ new.body = call.body
      /\ new.basis = call.basis /\ new.decided = bel /\ new.step = "refused"
      /\ new.answer = call.answer
  BY <1>0 DEF Call
<1>. HIDE DEF new
<1>. QED  BY <1>1, <1>2 DEF call

\* If the log does not change, the past does not.
LEMMA PastUnchanged ==
    ASSUME UNCHANGED <<log, epoch>>, NEW id, NEW k, NEW a, NEW b, NEW c,
           IsPast(k, a), IsPast(k, b), IsPast(k, c),
           calls'[id].key = k, calls'[id].basis = a, calls'[id].decided = b,
           calls'[id].answer.seen = c
    PROVE  BeliefsArePast(id)'
<1>1. IsPast(k, a)' /\ IsPast(k, b)' /\ IsPast(k, c)'
  BY DEF IsPast, TagAt
<1>. QED  BY <1>1 DEF BeliefsArePast

\* The swap is refused on the state current now, which is newer than what the client saw.
LEMMA RefusedStep ==
    ASSUME ApiInv, UNCHANGED <<records, log, held, epoch>>, NEW id \in Sent,
           calls[id].step = "sent", wellFormed(calls[id]),
           ~Holds(calls[id].key, preconditionOf(calls[id].headers)),
           calls' = [calls EXCEPT ![id].step = "refused",
                                  ![id].decided = belief(calls[id].key)]
    PROVE  ApiInv'
<1>. USE DEF ApiInv
<1>1. calls[id].key \in Keys
  BY AcceptedIsPrecondition
<1>. DEFINE bel == belief(calls[id].key)
<1>2. /\ bel \in Belief /\ IsPast(calls[id].key, bel) /\ bel.epoch = epoch
      /\ bel.versions = Len(log[calls[id].key])
  BY <1>1, BeliefIsPast DEF belief
<1>. HIDE DEF bel
<1>3. /\ DOMAIN calls' = Sent /\ calls' = [x \in Sent |-> calls'[x]]
      /\ \A x \in Sent \ {id} : calls'[x] = calls[x]
      /\ calls'[id] \in Call
      /\ calls'[id].key = calls[id].key /\ calls'[id].headers = calls[id].headers
      /\ calls'[id].basis = calls[id].basis /\ calls'[id].decided = bel
      /\ calls'[id].step = "refused" /\ calls'[id].answer = calls[id].answer
  <2>1. calls' = [calls EXCEPT ![id].step = "refused", ![id].decided = bel]
    BY DEF bel
  <2>. QED  BY <1>2, <2>1, RefusedCall
<1>4. StoreInv' /\ Grows(id)
  BY UnchangedGrows, StoreStepInv DEF storeVars, StoreInv
<1>5. calls[id].answer = NoAnswer /\ versionsBy(id) = {}
  BY UnansweredWroteNothing
<1>6. versionsBy(id)' = {}
  BY <1>3, <1>5 DEF versionsBy
<1>7. calls[id].basis.epoch = epoch => calls[id].basis.versions < bel.versions
  <2>1. Len(log[calls[id].key]) \in Nat
    BY <1>1, CurrentIsLast
  <2>. QED  BY <1>2, <2>1, BasisDecides
<1>8. CallInv(id)'
  <2>1. CallInv(id)
    OBVIOUS
  <2>2. BeliefsArePast(id)'
    <3>1. IsPast(calls[id].key, calls[id].basis) /\ IsPast(calls[id].key, calls[id].answer.seen)
      BY <2>1 DEF CallInv, BeliefsArePast
    <3>. QED  BY <1>2, <1>3, <3>1, PastUnchanged
  <2>3. SentAsBelieved(id)'
    BY <1>3, <2>1 DEF CallInv, SentAsBelieved
  <2>4. StepsAreOrdered(id)'
    BY <1>2, <1>3, <1>5, <1>7 DEF StepsAreOrdered
  <2>5. Truthful(id)' /\ ReplacesWhatWasSeen(id)' /\ MovesForward(id)'
    BY <1>3, <1>5, <1>6 DEF Truthful, ReplacesWhatWasSeen, MovesForward, NoAnswer
  <2>. QED  BY <2>2, <2>3, <2>4, <2>5 DEF CallInv
<1>. QED  BY <1>3, <1>4, <1>8, UpdateInv

LEMMA ServeStep ==
    ASSUME ApiInv, NEW id \in CallIds, Serve(id) PROVE ApiInv'
<1>. DEFINE call == calls[id]  p == preconditionOf(call.headers)
            outcome == Outcome(call.key, p, call.body)
<1>1. id \in Sent /\ call.step = "sent" /\ UNCHANGED <<held, epoch>>
  BY DEF Serve, StepIs
<1>2. NoBelief \in Belief /\ IsPast(call.key, NoBelief)
  BY NoBeliefIsPast
<1>3. ASSUME UNCHANGED storeVars, NEW code \in {"invalid_request", "dependency_unavailable"},
             calls' = Answer(id, code, NoBelief)
      PROVE  ApiInv'
  <2>1. code \in Codes \ {"ok"} /\ code # "desired_state_cas_mismatch"
    BY DEF Codes
  <2>. QED  BY <1>1, <1>2, <1>3, <2>1, AnswerInv DEF storeVars
<1>4. CASE ~wellFormed(call)
  <2>1. calls' = Answer(id, "invalid_request", NoBelief) /\ UNCHANGED storeVars
    BY <1>4 DEF Serve
  <2>. QED  BY <1>3, <2>1
<1>5. CASE wellFormed(call)
  <2>1. /\ CompareAndSwap(id, call.key, p, call.body)
        /\ calls' = CASE outcome = "ok" ->
                               Answer(id, "ok", [tag |-> strongETag(NewRecord(call.key, call.body)),
                                                 epoch |-> epoch,
                                                 versions |-> Len(log[call.key]) + 1])
                          [] outcome = "precondition_failed" ->
                               [calls EXCEPT ![id].step = "refused",
                                             ![id].decided = belief(call.key)]
                          [] outcome = "precondition_invalid" ->
                               Answer(id, "invalid_request", NoBelief)
                          [] OTHER -> Answer(id, "dependency_unavailable", NoBelief)
    BY <1>5 DEF Serve
  <2>2. CASE outcome = "ok"
    BY <1>1, <1>5, <2>1, <2>2, CommitStep
  <2>3. outcome # "ok" => UNCHANGED storeVars
    BY <2>1 DEF CompareAndSwap
  <2>4. CASE outcome = "precondition_failed"
    <3>1. ~Holds(call.key, p)
      BY <2>4 DEF Outcome
    <3>. QED  BY <1>1, <1>5, <2>1, <2>3, <2>4, <3>1, RefusedStep DEF storeVars
  <2>5. CASE outcome = "precondition_invalid"
    BY <1>3, <2>1, <2>3, <2>5
  <2>6. CASE outcome \notin {"ok", "precondition_failed", "precondition_invalid"}
    BY <1>3, <2>1, <2>3, <2>6
  <2>. QED  BY <2>2, <2>4, <2>5, <2>6
<1>. QED  BY <1>4, <1>5

\* The second Read comes after the refusal, so it sees the state that refused the call
\* or a later one.
LEMMA ReportMismatchStep ==
    ASSUME ApiInv, NEW id \in CallIds, ReportMismatch(id) PROVE ApiInv'
<1>. USE DEF ApiInv
<1>. DEFINE call == calls[id]  k == call.key  bel == belief(k)
<1>1. /\ id \in Sent /\ call.step = "refused" /\ UNCHANGED <<records, log, held, epoch>>
      /\ calls' = Answer(id, "desired_state_cas_mismatch", bel)
  BY DEF ReportMismatch, StepIs
<1>2. call \in Call /\ k \in Keys /\ call.basis \in Belief /\ call.decided \in Belief
  BY <1>1 DEF ApiTypeOK, Call
<1>3. /\ bel \in Belief /\ IsPast(k, bel) /\ bel.epoch = epoch
      /\ bel.versions = Len(log[k]) /\ bel.tag = TagAt(k, Len(log[k])) /\ Len(log[k]) \in Nat
  BY <1>2, BeliefIsPast, CurrentIsLast DEF belief
<1>4. CallInv(id)
  BY <1>1
<1>5. /\ call.decided.epoch = epoch
      /\ call.basis.epoch = epoch => call.basis.versions < call.decided.versions
  BY <1>1, <1>4 DEF CallInv, StepsAreOrdered
<1>6. call.decided.versions \in Nat /\ call.decided.versions <= Len(log[k])
  BY <1>2, <1>4, <1>5 DEF CallInv, BeliefsArePast, IsPast, Belief
<1>7. call.basis.epoch = epoch => bel.tag # call.basis.tag
  <2>1. SUFFICES ASSUME call.basis.epoch = epoch PROVE bel.tag # call.basis.tag
    OBVIOUS
  <2>2. call.basis.tag = TagAt(k, call.basis.versions) /\ call.basis.versions \in Nat
    BY <1>2, <1>4, <2>1 DEF CallInv, BeliefsArePast, IsPast, Belief
  <2>3. call.basis.versions \in 0..Len(log[k]) /\ call.basis.versions # Len(log[k])
    BY <1>3, <1>5, <1>6, <2>1, <2>2
  <2>. QED  BY <1>2, <1>3, <2>2, <2>3, TagTellsVersion
<1>. HIDE DEF bel
<1>8. "desired_state_cas_mismatch" \in Codes \ {"ok"}
  BY DEF Codes
<1>. QED  BY <1>1, <1>3, <1>5, <1>6, <1>7, <1>8, AnswerInv

LEMMA LoseRequestStep ==
    ASSUME ApiInv, NEW id \in CallIds, LoseRequest(id) PROVE ApiInv'
<1>. USE DEF ApiInv
<1>1. /\ id \in Sent /\ calls[id].step = "sent" /\ UNCHANGED <<records, log, held, epoch>>
      /\ calls' = [calls EXCEPT ![id].step = "lost"] /\ calls[id] \in Call
      /\ calls \in [Sent -> Call]
  BY DEF LoseRequest, StepIs, ApiTypeOK
<1>. DEFINE call == calls[id]  new == [call EXCEPT !.step = "lost"]
<1>2. /\ DOMAIN calls' = Sent /\ calls' = [x \in Sent |-> calls'[x]]
      /\ \A x \in Sent \ {id} : calls'[x] = calls[x]
      /\ calls'[id] = new
  BY <1>1
<1>3. /\ new \in Call /\ new.key = call.key /\ new.headers = call.headers
      /\ new.basis = call.basis /\ new.decided = call.decided
      /\ new.step = "lost" /\ new.answer = call.answer
  <2>. HIDE DEF call
  <2>. QED  BY <1>1 DEF Call, call
<1>. HIDE DEF new
<1>4. StoreInv' /\ Grows(id)
  BY <1>1, UnchangedGrows, StoreStepInv DEF storeVars, StoreInv
<1>5. versionsBy(id)' = versionsBy(id)
  BY <1>1, <1>2, <1>3 DEF versionsBy
<1>6. CallInv(id)'
  <2>1. CallInv(id)
    BY <1>1
  <2>2. BeliefsArePast(id)'
    <3>1. IsPast(call.key, call.basis) /\ IsPast(call.key, call.decided)
          /\ IsPast(call.key, call.answer.seen)
      BY <2>1 DEF CallInv, BeliefsArePast
    <3>2. /\ calls'[id].key = call.key /\ calls'[id].basis = call.basis
          /\ calls'[id].decided = call.decided /\ calls'[id].answer.seen = call.answer.seen
      BY <1>2, <1>3
    <3>. QED  BY <1>1, <3>1, <3>2, PastUnchanged
  <2>3. SentAsBelieved(id)' /\ StepsAreOrdered(id)'
    BY <1>1, <1>2, <1>3, <2>1 DEF CallInv, SentAsBelieved, StepsAreOrdered
  <2>4. Truthful(id)' /\ ReplacesWhatWasSeen(id)' /\ MovesForward(id)'
    BY <1>1, <1>2, <1>3, <1>5, <2>1
       DEF CallInv, Truthful, ReplacesWhatWasSeen, MovesForward
  <2>. QED  BY <2>2, <2>3, <2>4 DEF CallInv
<1>. QED  BY <1>1, <1>2, <1>3, <1>4, <1>6, UpdateInv

\* A restart makes every belief one of an earlier incarnation.
LEMMA ServerRestartStep == ASSUME ApiInv, ServerRestart PROVE ApiInv'
<1>. USE DEF ApiInv
<1>1. /\ Restart /\ held' = held /\ epoch' = epoch + 1 /\ epoch \in Nat
      /\ calls' = [id \in Sent |-> IF calls[id].step = "refused"
                                   THEN [calls[id] EXCEPT !.step = "lost"] ELSE calls[id]]
      /\ calls \in [Sent -> Call]
  BY DEF ServerRestart, ApiTypeOK
<1>2. StoreInv' /\ log' = [k \in Keys |-> << >>]
  BY <1>1, StoreStepInv DEF StoreNext, Restart
<1>3. ASSUME NEW id \in Sent
      PROVE  /\ calls'[id] \in Call /\ calls'[id].key = calls[id].key
             /\ calls'[id].headers = calls[id].headers /\ calls'[id].basis = calls[id].basis
             /\ calls'[id].decided = calls[id].decided /\ calls'[id].answer = calls[id].answer
             /\ calls'[id].step # "refused"
             /\ \/ calls'[id].step = calls[id].step
                \/ calls'[id].step = "lost" /\ calls[id].step = "refused"
  <2>. DEFINE call == calls[id]
  <2>1. call \in Call
    BY <1>1
  <2>2. calls'[id] = IF call.step = "refused" THEN [call EXCEPT !.step = "lost"] ELSE call
    BY <1>1
  <2>. HIDE DEF call
  <2>3. CASE call.step = "refused"
    BY <2>1, <2>2, <2>3 DEF Call, call
  <2>4. CASE call.step # "refused"
    BY <2>1, <2>2, <2>4 DEF Call, call
  <2>. QED  BY <2>3, <2>4
<1>4. DOMAIN calls' = Sent /\ Sent' = Sent /\ calls' \in [Sent -> Call]
  BY <1>1, <1>3 DEF Sent
<1>5. ApiTypeOK' /\ Numbered'
  BY <1>1, <1>4 DEF ApiTypeOK, Numbered, PutsOf
<1>6. WritersAreSent'
  BY <1>2 DEF WritersAreSent
<1>7. HeldIsPast'
  <2>1. \A c \in Clients : held[c].epoch <= epoch /\ held[c].epoch \in Int
    BY DEF HeldIsPast, IsPast, ApiTypeOK, Belief
  <2>. QED  BY <1>1, <2>1 DEF HeldIsPast, IsPast
<1>8. ASSUME NEW id \in Sent PROVE CallInv(id)'
  <2>1. CallInv(id) /\ calls[id] \in Call
    BY <1>1
  <2>2. /\ calls[id].basis.epoch <= epoch /\ calls[id].basis.epoch \in Int
        /\ calls[id].decided.epoch <= epoch /\ calls[id].decided.epoch \in Int
        /\ calls[id].answer.seen.epoch <= epoch /\ calls[id].answer.seen.epoch \in Int
    BY <2>1 DEF CallInv, BeliefsArePast, IsPast, Call, Belief
  <2>3. BeliefsArePast(id)'
    BY <1>1, <1>3, <2>2 DEF BeliefsArePast, IsPast
  <2>4. SentAsBelieved(id)' /\ StepsAreOrdered(id)'
    BY <1>1, <1>3, <2>1 DEF CallInv, SentAsBelieved, StepsAreOrdered
  <2>5. versionsBy(id)' = {}
    <3>1. calls'[id].key \in Keys
      BY <1>3 DEF Call
    <3>. QED  BY <1>2, <3>1 DEF versionsBy
  <2>6. Truthful(id)' /\ ReplacesWhatWasSeen(id)' /\ MovesForward(id)'
    BY <1>1, <1>3, <2>1, <2>2, <2>5
       DEF CallInv, Truthful, ReplacesWhatWasSeen, MovesForward
  <2>. QED  BY <2>3, <2>4, <2>6 DEF CallInv
<1>. QED  BY <1>2, <1>4, <1>5, <1>6, <1>7, <1>8

LEMMA ApiInitInv == Init => ApiInv
<1>. SUFFICES ASSUME Init PROVE ApiInv
  OBVIOUS
<1>1. StoreInv
  BY StoreInitInv DEF Init
<1>2. Sent = {} /\ calls \in [Sent -> Call]
  BY DEF Init, Sent
<1>3. \A c \in Clients : PutsOf(c) = {}
  BY <1>2 DEF PutsOf
<1>4. IsFiniteSet({}) /\ Cardinality({}) = 0
  BY FS_EmptySet
<1>5. Numbered
  BY <1>3, <1>4 DEF Numbered
<1>6. ApiTypeOK /\ HeldIsPast
  BY <1>2 DEF Init, ApiTypeOK, NoBelief, Belief, Tags, HeldIsPast, IsPast
<1>7. WritersAreSent
  BY DEF Init, StoreInit, WritersAreSent
<1>. QED  BY <1>1, <1>2, <1>5, <1>6, <1>7 DEF ApiInv

LEMMA ApiStepInv == ApiInv /\ [Next]_vars => ApiInv'
<1>. SUFFICES ASSUME ApiInv, [Next]_vars PROVE ApiInv'
  OBVIOUS
<1>1. CASE \E c \in Clients : Get(c) \/ Put(c) \/ Receive(c) \/ GiveUp(c) \/ Timeout(c)
  BY <1>1, ClientSteps, PutStep
<1>2. CASE \E s \in Strays : StrayPut(s)
  BY <1>2, StrayPutStep
<1>3. CASE \E id \in CallIds : Serve(id) \/ ReportMismatch(id) \/ LoseRequest(id)
  BY <1>3, ServeStep, ReportMismatchStep, LoseRequestStep
<1>4. CASE ServerRestart
  BY <1>4, ServerRestartStep
<1>5. CASE UNCHANGED vars
  BY <1>5, StepOfClient DEF vars, ApiInv, ApiTypeOK, HeldIsPast
<1>. QED  BY <1>1, <1>2, <1>3, <1>4, <1>5 DEF Next

\* What calls, clients and the store believe about each other is always true.
THEOREM ApiInvariant == Spec => []ApiInv
BY ApiInitInv, ApiStepInv, PTL DEF Spec

\* A PUT answered with anything but success never changed the state, and the ETag of a
\* success is that of the one version the PUT wrote: no delay, loss, retry or restart
\* makes an answer false.
THEOREM TruthfulAnswers == Spec => []AnswersAreTruthful
BY ApiInvariant, ApiInvImplies, PTL

\* However long a PUT is under way, it replaces the version its client last saw or none.
THEOREM NoLostWrites == Spec => []NoUnseenOverwrite
BY ApiInvariant, ApiInvImplies, PTL

\* The state reported with a refusal is read later than the refusal, and never older.
THEOREM ReportsMoveForward == Spec => []MismatchReportMovesForward
BY ApiInvariant, ApiInvImplies, PTL

----------------------------------------------------------------------------
(***************************************************************************)
(* The handler implements ConditionalRegister.                             *)
(***************************************************************************)
\* The three variables of the register, as functions of the handler's state.
Versions == [k \in Keys |-> [i \in 1..Len(log[k]) |-> strongETag(log[k][i].record)]]
AskedBy(call) ==
    [key |-> call.key, names |-> namedBy(call),
     digest |-> IF call.body = NotJson THEN NoDigest ELSE DigestOf[call.body]]
Asked == [id \in Sent |-> AskedBy(calls[id])]
Verdicts == [id \in Sent |-> verdictOf(calls[id])]

LEMMA SeqByIndex ==
    ASSUME NEW n \in Nat, NEW S, NEW f \in [1..n -> S]
    PROVE  f \in Seq(S) /\ Len(f) = n /\ (f = << >> <=> n = 0)
OBVIOUS

LEMMA IndexOfSeq ==
    ASSUME NEW n \in Nat, NEW S, NEW s \in Seq(S), Len(s) = n PROVE s \in [1..n -> S]
OBVIOUS

LEMMA AppendByIndex ==
    ASSUME NEW n \in Nat, NEW S, NEW s \in Seq(S), Len(s) = n, NEW e \in S,
           NEW t \in [1..n + 1 -> S], \A i \in 1..n : t[i] = s[i], t[n + 1] = e
    PROVE  t = Append(s, e)
<1>1. Append(s, e) \in Seq(S) /\ Len(Append(s, e)) = n + 1
      /\ (\A i \in 1..n : Append(s, e)[i] = s[i]) /\ Append(s, e)[n + 1] = e
  BY AppendFacts
<1>. DEFINE u == Append(s, e)
<1>2. u \in [1..n + 1 -> S]
  <2>1. u \in Seq(S) /\ Len(u) = n + 1 /\ n + 1 \in Nat
    BY <1>1
  <2>. HIDE DEF u
  <2>. QED  BY <2>1, IndexOfSeq
<1>3. \A i \in 1..n + 1 : t[i] = u[i]
  BY <1>1
<1>. HIDE DEF u
<1>4. t = u
  BY <1>2, <1>3
<1>. QED  BY <1>4 DEF u

\* The register is in the state whose tag a Read would return.
LEMMA RegisterIsCurrent ==
    ASSUME StoreInv, NEW k \in Keys PROVE Register!Current(k) = currentTag(k)
<1>. DEFINE n == Len(log[k])  s == [i \in 1..n |-> strongETag(log[k][i].record)]
            T == {strongETag(log[k][i].record) : i \in 1..n}
<1>1. n \in Nat /\ currentTag(k) = TagAt(k, n)
  BY CurrentIsLast
<1>2. s \in [1..n -> T]
  OBVIOUS
<1>3. Len(s) = n /\ (s = << >> <=> n = 0)
  <2>. HIDE DEF s, T, n
  <2>. QED  BY <1>1, <1>2, SeqByIndex
<1>4. Register!Current(k) = IF s = << >> THEN NoETag ELSE s[Len(s)]
  BY DEF Register!Current
<1>5. n # 0 => s[n] = strongETag(log[k][n].record)
  BY <1>1
<1>. QED  BY <1>1, <1>3, <1>4, <1>5 DEF TagAt

LEMMA VersionsUnchanged == log' = log => Versions' = Versions
BY DEF Versions

\* A commit appends the tag of the new record.
LEMMA VersionsExtended ==
    ASSUME StoreInv, NEW c \in Callers, NEW k \in Keys, NEW p \in Precondition,
           NEW v \in Payloads, Outcome(k, p, v) = "ok", Commit(c, k, p, v)
    PROVE  Versions' = [Versions EXCEPT ![k] =
                            Append(@, [revision |-> Len(@) + 1, digest |-> DigestOf[v]])]
<1>. DEFINE n == Len(log[k])  s == [i \in 1..n |-> strongETag(log[k][i].record)]
            T == {strongETag(log[k][i].record) : i \in 1..n}
            tag == [revision |-> n + 1, digest |-> DigestOf[v]]
            t == [i \in 1..Len(log'[k]) |-> strongETag(log'[k][i].record)]
<1>1. /\ n \in Nat
      /\ NewRecord(k, v).revision = n + 1 /\ Len(log'[k]) = n + 1
      /\ \A i \in 1..n : log'[k][i] = log[k][i]
      /\ log'[k][n + 1].record = NewRecord(k, v)
      /\ \A x \in Keys \ {k} : log'[x] = log[x]
  <2>1. n \in Nat
    BY CurrentIsLast
  <2>2. /\ NewRecord(k, v).revision = n + 1 /\ Len(log'[k]) = n + 1
        /\ \A i \in 1..n : log'[k][i] = log[k][i]
        /\ log'[k][n + 1] = [record |-> NewRecord(k, v), caller |-> c, on |-> p]
        /\ \A x \in Keys \ {k} : log'[x] = log[x]
    BY CommitExtendsLog
  <2>. QED  BY <2>1, <2>2
<1>2. s \in [1..n -> T] /\ s \in Seq(T) /\ Len(s) = n
  <2>1. s \in [1..n -> T]
    OBVIOUS
  <2>. HIDE DEF s, T, n
  <2>. QED  BY <1>1, <2>1, SeqByIndex
<1>3. strongETag(NewRecord(k, v)) = tag
  BY <1>1 DEF NewRecord, strongETag
<1>4. t = Append(s, tag)
  <2>1. t \in [1..n + 1 -> T \cup {tag}]
    BY <1>1, <1>3
  <2>2. s \in Seq(T \cup {tag})
    BY <1>1, <1>2, SeqByIndex
  <2>3. (\A i \in 1..n : t[i] = s[i]) /\ t[n + 1] = tag
    BY <1>1, <1>3
  <2>. HIDE DEF s, T, n, t, tag
  <2>. QED  BY <1>1, <1>2, <2>1, <2>2, <2>3, AppendByIndex
<1>5. \A x \in Keys \ {k} : Versions'[x] = Versions[x]
  BY <1>1 DEF Versions
<1>6. Versions[k] = s /\ Versions'[k] = t
  BY DEF Versions
<1>7. DOMAIN Versions = Keys /\ DOMAIN Versions' = Keys
      /\ Versions' = [x \in Keys |-> Versions'[x]]
  BY DEF Versions
<1>. HIDE DEF Versions, s, t
<1>8. Versions'[k] = Append(Versions[k], [revision |-> Len(Versions[k]) + 1, digest |-> DigestOf[v]])
  BY <1>2, <1>4, <1>6
<1>. QED  BY <1>5, <1>7, <1>8

\* A step of one call can only change that call's verdict.
LEMMA VerdictChanges ==
    ASSUME NEW id \in Sent, DOMAIN calls' = Sent, \A x \in Sent \ {id} : calls'[x] = calls[x],
           calls'[id].key = calls[id].key, calls'[id].headers = calls[id].headers,
           calls'[id].body = calls[id].body
    PROVE  /\ Asked' = Asked
           /\ Verdicts' = [Verdicts EXCEPT ![id] = verdictOf(calls'[id])]
<1>1. AskedBy(calls'[id]) = AskedBy(calls[id])
  BY DEF AskedBy, namedBy
<1>. QED  BY <1>1 DEF Asked, Verdicts, Sent

LEMMA MapsAsk ==
    ASSUME NEW id \in CallIds \ Sent, NEW k, NEW h, NEW b, NEW bel, log' = log,
           AddCall(id, newCall(k, h, b, bel))
    PROVE  Register!Ask(id)
<1>1. /\ DOMAIN calls' = Sent \cup {id} /\ calls'[id] = newCall(k, h, b, bel)
      /\ \A x \in Sent : calls'[x] = calls[x]
  BY DEF AddCall
<1>2. verdictOf(calls'[id]) = "open"
  BY <1>1 DEF verdictOf, newCall, NoAnswer
<1>3. Versions' = Versions
  BY VersionsUnchanged
<1>4. Sent' = Sent \cup {id} /\ DOMAIN Asked = Sent /\ DOMAIN Asked' = Sent \cup {id}
  BY <1>1 DEF Sent, Asked
<1>5. Asked' = Register!Extend(Asked, id, Asked'[id])
  BY <1>1, <1>4 DEF Asked, Register!Extend
<1>6. Verdicts' = Register!Extend(Verdicts, id, "open")
  BY <1>1, <1>2, <1>4 DEF Verdicts, Register!Extend
<1>. QED
  BY <1>3, <1>4, <1>5, <1>6 DEF Register!Ask, Versions, Asked, AskedBy, Verdicts

\* An open call is one no handler has looked at.
LEMMA SentIsOpen ==
    ASSUME ApiInv, NEW id \in Sent, calls[id].step = "sent"
    PROVE  /\ calls[id].answer.code = "none" /\ calls[id].decided = NoBelief
           /\ Verdicts[id] = "open" /\ id \in DOMAIN Asked
BY DEF ApiInv, CallInv, StepsAreOrdered, NoAnswer, Verdicts, verdictOf, Asked

LEMMA MapsServe ==
    ASSUME ApiInv, NEW id \in CallIds, Serve(id)
    PROVE  Register!Commit(id) \/ Register!Refuse(id) \/ Register!Reject(id)
<1>. USE DEF ApiInv
<1>. DEFINE call == calls[id]  p == preconditionOf(call.headers)
            outcome == Outcome(call.key, p, call.body)
<1>1. id \in Sent /\ call.step = "sent" /\ call \in Call
  BY DEF Serve, StepIs, ApiTypeOK
<1>2. Verdicts[id] = "open" /\ id \in DOMAIN Asked /\ call.decided = NoBelief
      /\ call.answer.code = "none"
  BY <1>1, SentIsOpen
<1>3. ASSUME UNCHANGED storeVars, NEW code \in {"invalid_request", "dependency_unavailable"},
             calls' = Answer(id, code, NoBelief)
      PROVE  Register!Reject(id)
  <2>1. code \in Codes /\ code # "ok" /\ NoBelief \in Belief
    BY NoBeliefIsPast DEF Codes
  <2>2. /\ DOMAIN calls' = Sent /\ \A x \in Sent \ {id} : calls'[x] = calls[x]
        /\ calls'[id].key = call.key /\ calls'[id].headers = call.headers
        /\ calls'[id].body = call.body /\ calls'[id].decided = call.decided
        /\ calls'[id].step = "answered" /\ calls'[id].answer.code = code
    BY <1>1, <1>3, <2>1, AnsweredCall
  <2>3. verdictOf(calls'[id]) = "rejected"
    BY <1>2, <2>1, <2>2 DEF verdictOf
  <2>4. Asked' = Asked /\ Verdicts' = [Verdicts EXCEPT ![id] = "rejected"]
    BY <1>1, <2>2, <2>3, VerdictChanges
  <2>5. Versions' = Versions
    BY <1>3, VersionsUnchanged DEF storeVars
  <2>. QED
    BY <1>2, <2>4, <2>5 DEF Register!Reject, Versions, Asked, AskedBy, Verdicts
<1>4. CASE ~wellFormed(call)
  <2>1. calls' = Answer(id, "invalid_request", NoBelief) /\ UNCHANGED storeVars
    BY <1>4 DEF Serve
  <2>. QED  BY <1>3, <2>1
<1>5. CASE wellFormed(call)
  <2>1. /\ CompareAndSwap(id, call.key, p, call.body)
        /\ calls' = CASE outcome = "ok" ->
                               Answer(id, "ok", [tag |-> strongETag(NewRecord(call.key, call.body)),
                                                 epoch |-> epoch,
                                                 versions |-> Len(log[call.key]) + 1])
                          [] outcome = "precondition_failed" ->
                               [calls EXCEPT ![id].step = "refused",
                                             ![id].decided = belief(call.key)]
                          [] outcome = "precondition_invalid" ->
                               Answer(id, "invalid_request", NoBelief)
                          [] OTHER -> Answer(id, "dependency_unavailable", NoBelief)
    BY <1>5 DEF Serve
  <2>2. p \in Precondition /\ ValidPrecondition(p) /\ call.body \in Payloads /\ call.key \in Keys
    BY <1>1, <1>5, AcceptedIsPrecondition
  <2>3. Register!Current(call.key) = currentTag(call.key)
    BY <2>2, RegisterIsCurrent
  <2>4. Holds(call.key, p) <=> namedBy(call) = currentTag(call.key)
    BY <1>1, <1>5, HoldsNamesTag
  <2>5. /\ Asked[id].key = call.key /\ Asked[id].names = namedBy(call)
        /\ Asked[id].digest = DigestOf[call.body]
    BY <1>1, <1>5 DEF Asked, AskedBy, wellFormed
  <2>6. CASE outcome = "ok"
    <3>. DEFINE bel == [tag |-> strongETag(NewRecord(call.key, call.body)),
                        epoch |-> epoch, versions |-> Len(log[call.key]) + 1]
    <3>1. Commit(id, call.key, p, call.body) /\ Holds(call.key, p) /\ id \in Callers
      BY <2>1, <2>6, CallerAssumption DEF CompareAndSwap, Outcome
    <3>2. Versions' = [Versions EXCEPT ![call.key] =
                          Append(@, [revision |-> Len(@) + 1, digest |-> DigestOf[call.body]])]
      BY <2>2, <2>6, <3>1, VersionsExtended
    <3>3. calls' = Answer(id, "ok", bel)
      BY <2>1, <2>6
    <3>4. bel \in Belief /\ "ok" \in Codes
      <4>1. NewRecord(call.key, call.body) \in Record /\ Len(log[call.key]) \in Nat
        BY <2>2, <2>6, <3>1, CommitExtendsLog, CurrentIsLast
      <4>. QED  BY <4>1 DEF Belief, Tags, strongETag, Record, Codes, ApiTypeOK
    <3>. HIDE DEF bel
    <3>5. /\ DOMAIN calls' = Sent /\ \A x \in Sent \ {id} : calls'[x] = calls[x]
          /\ calls'[id].key = call.key /\ calls'[id].headers = call.headers
          /\ calls'[id].body = call.body /\ calls'[id].answer.code = "ok"
      BY <1>1, <3>3, <3>4, AnsweredCall
    <3>6. Asked' = Asked /\ Verdicts' = [Verdicts EXCEPT ![id] = "committed"]
      BY <1>1, <3>5, VerdictChanges DEF verdictOf
    <3>7. Asked[id].names = Register!Current(Asked[id].key)
      BY <2>3, <2>4, <2>5, <3>1
    <3>8. Versions' = [Versions EXCEPT ![Asked[id].key] =
                          Append(@, [revision |-> Len(@) + 1, digest |-> Asked[id].digest])]
      BY <2>5, <3>2
    <3>. QED
      BY <1>2, <3>6, <3>7, <3>8 DEF Register!Commit, Versions, Asked, AskedBy, Verdicts
  <2>7. outcome # "ok" => UNCHANGED storeVars
    BY <2>1 DEF CompareAndSwap
  <2>8. CASE outcome = "precondition_failed"
    <3>. DEFINE bel == belief(call.key)
    <3>1. calls' = [calls EXCEPT ![id].step = "refused", ![id].decided = bel]
      BY <2>1, <2>8
    <3>2. bel \in Belief /\ bel # NoBelief
      <4>1. bel \in Belief /\ bel.epoch = epoch /\ epoch \in Nat /\ NoBelief.epoch = -1
        BY <2>2, BeliefIsPast DEF ApiTypeOK, NoBelief
      <4>. QED  BY <4>1
    <3>. HIDE DEF bel
    <3>3. /\ DOMAIN calls' = Sent /\ \A x \in Sent \ {id} : calls'[x] = calls[x]
          /\ calls'[id].key = call.key /\ calls'[id].headers = call.headers
          /\ calls'[id].body = call.body /\ calls'[id].decided = bel
          /\ calls'[id].answer = call.answer
      BY <1>1, <3>1, <3>2, RefusedCall
    <3>4. verdictOf(calls'[id]) = "refused"
      BY <1>2, <3>2, <3>3 DEF verdictOf
    <3>5. Asked' = Asked /\ Verdicts' = [Verdicts EXCEPT ![id] = "refused"]
      BY <1>1, <3>3, <3>4, VerdictChanges
    <3>6. Asked[id].names # Register!Current(Asked[id].key)
      <4>1. ~Holds(call.key, p)
        BY <2>8 DEF Outcome
      <4>. QED  BY <2>3, <2>4, <2>5, <4>1
    <3>7. Versions' = Versions
      BY <2>7, <2>8, VersionsUnchanged DEF storeVars
    <3>. QED
      BY <1>2, <3>5, <3>6, <3>7 DEF Register!Refuse, Versions, Asked, AskedBy, Verdicts
  <2>9. CASE outcome \notin {"ok", "precondition_failed"}
    <3>1. \E code \in {"invalid_request", "dependency_unavailable"} :
             calls' = Answer(id, code, NoBelief)
      BY <2>1, <2>9
    <3>. QED  BY <1>3, <2>7, <2>9, <3>1
  <2>. QED  BY <2>6, <2>8, <2>9
<1>. QED  BY <1>4, <1>5

\* Neither the answer to a refused call nor a loss changes a verdict.
LEMMA MapsReport ==
    ASSUME ApiInv, NEW id \in CallIds, ReportMismatch(id)
    PROVE  UNCHANGED <<Versions, Asked, Verdicts>>
<1>. USE DEF ApiInv
<1>1. /\ id \in Sent /\ calls[id].step = "refused" /\ log' = log /\ calls[id] \in Call
      /\ calls' = Answer(id, "desired_state_cas_mismatch", belief(calls[id].key))
  BY DEF ReportMismatch, StepIs, ApiTypeOK
<1>2. calls[id].key \in Keys /\ belief(calls[id].key) \in Belief
      /\ "desired_state_cas_mismatch" \in Codes
  BY <1>1, BeliefIsPast DEF Call, Codes
<1>3. /\ DOMAIN calls' = Sent /\ \A x \in Sent \ {id} : calls'[x] = calls[x]
      /\ calls'[id].key = calls[id].key /\ calls'[id].headers = calls[id].headers
      /\ calls'[id].body = calls[id].body /\ calls'[id].decided = calls[id].decided
      /\ calls'[id].answer.code = "desired_state_cas_mismatch"
  BY <1>1, <1>2, AnsweredCall
<1>4. calls[id].decided # NoBelief /\ calls[id].answer.code = "none"
  <2>1. calls[id].decided.epoch = epoch /\ epoch \in Nat /\ NoBelief.epoch = -1
        /\ calls[id].answer = NoAnswer
    BY <1>1 DEF CallInv, StepsAreOrdered, ApiTypeOK, NoBelief
  <2>. QED  BY <2>1 DEF NoAnswer
<1>5. verdictOf(calls'[id]) = verdictOf(calls[id])
  BY <1>3, <1>4 DEF verdictOf
<1>6. Asked' = Asked /\ Verdicts' = [Verdicts EXCEPT ![id] = verdictOf(calls[id])]
  BY <1>1, <1>3, <1>5, VerdictChanges
<1>7. Verdicts' = Verdicts
  BY <1>1, <1>6 DEF Verdicts
<1>. QED  BY <1>1, <1>6, <1>7, VersionsUnchanged

LEMMA MapsLoss ==
    ASSUME ApiInv, NEW id \in CallIds, LoseRequest(id)
    PROVE  UNCHANGED <<Versions, Asked, Verdicts>>
<1>. USE DEF ApiInv
<1>1. /\ id \in Sent /\ calls[id].step = "sent" /\ log' = log /\ calls[id] \in Call
      /\ calls' = [calls EXCEPT ![id].step = "lost"] /\ calls \in [Sent -> Call]
  BY DEF LoseRequest, StepIs, ApiTypeOK
<1>2. /\ DOMAIN calls' = Sent /\ \A x \in Sent \ {id} : calls'[x] = calls[x]
      /\ calls'[id] = [calls[id] EXCEPT !.step = "lost"]
  BY <1>1
<1>3. /\ calls'[id].key = calls[id].key /\ calls'[id].headers = calls[id].headers
      /\ calls'[id].body = calls[id].body /\ calls'[id].decided = calls[id].decided
      /\ calls'[id].step = "lost" /\ calls'[id].answer = calls[id].answer
  <2>. DEFINE call == calls[id]
  <2>1. call \in Call /\ calls'[id] = [call EXCEPT !.step = "lost"]
    BY <1>1, <1>2
  <2>. HIDE DEF call
  <2>2. /\ calls'[id].key = call.key /\ calls'[id].headers = call.headers
        /\ calls'[id].body = call.body /\ calls'[id].decided = call.decided
        /\ calls'[id].step = "lost" /\ calls'[id].answer = call.answer
    BY <2>1 DEF Call
  <2>. QED  BY <2>2 DEF call
<1>4. verdictOf(calls'[id]) = verdictOf(calls[id])
  BY <1>1, <1>3 DEF verdictOf
<1>5. Asked' = Asked /\ Verdicts' = [Verdicts EXCEPT ![id] = verdictOf(calls[id])]
  BY <1>1, <1>2, <1>3, <1>4, VerdictChanges
<1>6. Verdicts' = Verdicts
  BY <1>1, <1>5 DEF Verdicts
<1>. QED  BY <1>1, <1>5, <1>6, VersionsUnchanged

LEMMA MapsRestart == ASSUME ApiInv, ServerRestart PROVE Register!Forget
<1>. USE DEF ApiInv
<1>1. /\ log' = [k \in Keys |-> << >>] /\ calls \in [Sent -> Call]
      /\ calls' = [id \in Sent |-> IF calls[id].step = "refused"
                                   THEN [calls[id] EXCEPT !.step = "lost"] ELSE calls[id]]
  BY DEF ServerRestart, Restart, ApiTypeOK
<1>2. ASSUME NEW id \in Sent
      PROVE  AskedBy(calls'[id]) = AskedBy(calls[id]) /\ verdictOf(calls'[id]) = verdictOf(calls[id])
  <2>. DEFINE call == calls[id]
  <2>1. call \in Call /\ calls'[id] = IF call.step = "refused" THEN [call EXCEPT !.step = "lost"]
                                      ELSE call
    BY <1>1
  <2>. HIDE DEF call
  <2>2. CASE call.step = "refused"
    <3>1. /\ calls'[id].key = call.key /\ calls'[id].headers = call.headers
          /\ calls'[id].body = call.body /\ calls'[id].decided = call.decided
          /\ calls'[id].step = "lost" /\ calls'[id].answer = call.answer
      BY <2>1, <2>2 DEF Call
    <3>. QED  BY <2>2, <3>1 DEF AskedBy, namedBy, verdictOf, call
  <2>3. CASE call.step # "refused"
    BY <2>1, <2>3 DEF call
  <2>. QED  BY <2>2, <2>3
<1>3. DOMAIN calls' = Sent /\ Sent' = Sent
  BY <1>1 DEF Sent
<1>4. Asked' = Asked /\ Verdicts' = Verdicts
  BY <1>2, <1>3 DEF Asked, Verdicts
<1>5. Versions' = [k \in Keys |-> << >>]
  BY <1>1 DEF Versions
<1>. QED  BY <1>4, <1>5 DEF Register!Forget, Versions, Asked, AskedBy, Verdicts

LEMMA RegisterInit == Init => Register!Init
<1>. SUFFICES ASSUME Init PROVE Register!Init
  OBVIOUS
<1>1. log = [k \in Keys |-> << >>] /\ Sent = {}
  BY DEF Init, StoreInit, Sent
<1>2. Versions = [k \in Keys |-> << >>] /\ Asked = [r \in {} |-> 0] /\ Verdicts = [r \in {} |-> 0]
  BY <1>1 DEF Versions, Asked, Verdicts
<1>. QED  BY <1>2 DEF Register!Init, Versions, Asked, AskedBy, Verdicts

LEMMA RegisterStep == ApiInv /\ [Next]_vars => [Register!Next]_(Register!vars)
<1>. SUFFICES ASSUME ApiInv, [Next]_vars PROVE [Register!Next]_(Register!vars)
  OBVIOUS
<1>0. ASSUME UNCHANGED <<Versions, Asked, Verdicts>> PROVE UNCHANGED Register!vars
  BY <1>0 DEF Register!vars, Versions, Asked, AskedBy, Verdicts
<1>1. ASSUME UNCHANGED <<log, calls>> PROVE UNCHANGED <<Versions, Asked, Verdicts>>
  BY <1>1 DEF Versions, Asked, Verdicts, Sent
<1>2. ASSUME NEW c \in Clients, Put(c) PROVE Register!Next
  <2>1. PICK id : id = [who |-> c, n |-> Cardinality(PutsOf(c)) + 1]
    OBVIOUS
  <2>2. /\ id \in CallIds \ Sent
        /\ AddCall(id, newCall(KeyOf[c], headersFor(held[c].tag), BodyOf[c], held[c]))
    BY <1>2, <2>1, NextPut
  <2>3. log' = log
    BY <1>2 DEF Put
  <2>4. Register!Ask(id)
    BY <2>2, <2>3, MapsAsk
  <2>. QED  BY <2>2, <2>4 DEF Register!Next
<1>3. ASSUME NEW c \in Clients, Get(c) \/ Receive(c) \/ GiveUp(c) \/ Timeout(c)
      PROVE  UNCHANGED Register!vars
  BY <1>0, <1>1, <1>3 DEF Get, Receive, GiveUp, Timeout
<1>4. ASSUME NEW s \in Strays, StrayPut(s) PROVE Register!Next
  <2>. DEFINE id == [who |-> s, n |-> 1]
  <2>1. id \in CallIds \ Sent
    BY <1>4, BoundAssumption DEF StrayPut, CallIds
  <2>2. Register!Ask(id)
    BY <1>4, <2>1, MapsAsk DEF StrayPut
  <2>. QED  BY <2>1, <2>2 DEF Register!Next
<1>5. ASSUME NEW id \in CallIds, Serve(id) PROVE Register!Next
  BY <1>5, MapsServe DEF Register!Next
<1>6. ASSUME NEW id \in CallIds, ReportMismatch(id) \/ LoseRequest(id)
      PROVE  UNCHANGED Register!vars
  BY <1>0, <1>6, MapsReport, MapsLoss
<1>7. CASE ServerRestart
  BY <1>7, MapsRestart DEF Register!Next
<1>8. CASE UNCHANGED vars
  BY <1>0, <1>1, <1>8 DEF vars
<1>. QED  BY <1>2, <1>3, <1>4, <1>5, <1>6, <1>7, <1>8 DEF Next

\* Two reads of the lock, delays, losses and restarts notwithstanding, every PUT is decided
\* at one instant, on the state current at that instant.
THEOREM HandlerImplementsRegister == Spec => ImplementsConditionalRegister
BY ApiInvariant, RegisterInit, RegisterStep, PTL
   DEF Spec, ImplementsConditionalRegister, Register!Spec
=============================================================================
