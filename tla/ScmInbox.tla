------------------------------ MODULE ScmInbox ------------------------------
(***************************************************************************)
(* The webhook inbox of internal/scmintake/inbox.go under at-least-once    *)
(* delivery: one immutable receipt per (provider, deliveryId).             *)
(*                                                                         *)
(* Receive digests the bytes and then works under the inbox's mutex, so a  *)
(* call is one step.  The providers are outside src/: a Delivery is one    *)
(* logical webhook, sent again until its sender has an answer; copies are  *)
(* delayed, reordered and duplicated, and answers are lost.  Two           *)
(* deliveries with one id and other bytes are a replayed deliveryId.       *)
(***************************************************************************)
EXTENDS Integers

CONSTANTS
    Deliveries,
    DeliveryIds,      \* (provider, deliveryId) pairs
    PayloadDigests,   \* SHA-256 digests of the delivered bytes
    DeliveryIdOf,     \* DeliveryIdOf[d], PayloadDigestOf[d]: what a delivery carries
    PayloadDigestOf,
    MaxCopies,    \* bound: copies of one delivery on their way at once
    MaxFaults,    \* bound: lost copies and lost answers
    MaxRestarts   \* bound: restarts of the intake process

ASSUME DeliveryAssumption ==
    /\ DeliveryIdOf \in [Deliveries -> DeliveryIds]
    /\ PayloadDigestOf \in [Deliveries -> PayloadDigests]

VARIABLES
    receipts,    \* Inbox.entries: (provider, deliveryId) -> digest of the receipt
    copies,      \* copies of each delivery on their way to the inbox
    settled,     \* the answer each sender acts on: "no", "accepted", "denied"
    news,        \* ghost: per deliveryId, how often Receive reported isNew
    received,    \* ghost: the deliveries Receive accepted in this incarnation
    faults, restarts

inboxVars == <<receipts, copies, settled, news, received, faults, restarts>>

InboxInit ==
    /\ receipts = [k \in {} |-> 0]
    /\ copies = [d \in Deliveries |-> 0]
    /\ settled = [d \in Deliveries |-> "no"]
    /\ news = [k \in DeliveryIds |-> 0]
    /\ received = {}
    /\ faults = 0 /\ restarts = 0

\* The sender has no answer yet and sends (again).
Send(d) ==
    /\ settled[d] = "no" /\ copies[d] < MaxCopies
    /\ copies' = [copies EXCEPT ![d] = @ + 1]
    /\ UNCHANGED <<receipts, settled, news, received, faults, restarts>>

\* Mutant: the digest of a known deliveryId is not compared.
ReceiveOutcomeByIdAlone(d) == IF DeliveryIdOf[d] \in DOMAIN receipts THEN "replay" ELSE "new"

\* What Receive finds under the lock.
ReceiveOutcome(d) ==
    IF DeliveryIdOf[d] \notin DOMAIN receipts THEN "new"
    ELSE IF receipts[DeliveryIdOf[d]] # PayloadDigestOf[d] THEN "idempotency_collision"
    ELSE "replay"

\* The payload digest kept in the receipt.
Receipt(d) == PayloadDigestOf[d]

\* The answer reaches the sender, or is lost on the way.
Respond(d) ==
    \/ /\ settled' = [settled EXCEPT ![d] =
                        IF ReceiveOutcome(d) = "idempotency_collision" THEN "denied" ELSE "accepted"]
       /\ UNCHANGED faults
    \/ faults < MaxFaults /\ faults' = faults + 1 /\ UNCHANGED settled

Receive(d) ==
    /\ copies[d] > 0
    /\ copies' = [copies EXCEPT ![d] = @ - 1]
    /\ receipts' = IF ReceiveOutcome(d) = "new"
                  THEN [k \in DOMAIN receipts \cup {DeliveryIdOf[d]} |->
                          IF k = DeliveryIdOf[d] THEN Receipt(d) ELSE receipts[k]]
                  ELSE receipts
    /\ news' = [news EXCEPT ![DeliveryIdOf[d]] =
                   IF ReceiveOutcome(d) = "new" THEN @ + 1 ELSE @]
    /\ received' = IF ReceiveOutcome(d) = "idempotency_collision" THEN received
                   ELSE received \cup {d}
    /\ Respond(d)
    /\ UNCHANGED restarts

LoseCopy(d) ==
    /\ copies[d] > 0 /\ faults < MaxFaults
    /\ copies' = [copies EXCEPT ![d] = @ - 1]
    /\ faults' = faults + 1
    /\ UNCHANGED <<receipts, settled, news, received, restarts>>

\* The inbox is durable for the process lifetime only.
RestartInbox ==
    /\ restarts < MaxRestarts
    /\ restarts' = restarts + 1
    /\ receipts' = [k \in {} |-> 0]
    /\ news' = [k \in DeliveryIds |-> 0]
    /\ received' = {}
    /\ UNCHANGED <<copies, settled, faults>>

InboxNext ==
    \/ \E d \in Deliveries : Send(d) \/ Receive(d) \/ LoseCopy(d)
    \/ RestartInbox

InboxSpec == InboxInit /\ [][InboxNext]_inboxVars

----------------------------------------------------------------------------
\* Duplicate delivery is side-effect free (the package comment): however a webhook is
\* duplicated, delayed or sent again after a lost answer, one incarnation of the inbox
\* reports it as new once, and then holds its receipt; and a deliveryId stands for one
\* payload: what was accepted under an id has the bytes of its receipt, so a delivery
\* accepted once is accepted again, and a replay with other bytes never is beside it.
OnePayloadPerDelivery ==
    /\ \A k \in DeliveryIds : news[k] <= 1 /\ (news[k] = 1 <=> k \in DOMAIN receipts)
    /\ \A d \in received : /\ DeliveryIdOf[d] \in DOMAIN receipts
                           /\ receipts[DeliveryIdOf[d]] = PayloadDigestOf[d]
=============================================================================
