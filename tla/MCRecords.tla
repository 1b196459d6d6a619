----------------------------- MODULE MCRecords -----------------------------
(***************************************************************************)
(* The four records that make a repeated call harmless, or say why it is   *)
(* not: the switch journal, the webhook inbox, the replay ledger and a     *)
(* published file.  They share no state, so a behaviour runs one of them   *)
(* (side) and the others stay at their start.                              *)
(*                                                                         *)
(* The journal as in MCSwitchJournal.  Inbox: two ids; under the first a   *)
(* webhook and a replay of its deliveryId with other bytes, under the      *)
(* second one webhook.  Ledger: p2 repeats the request of p1, and p3 has   *)
(* their nonce under another request id.  File: one call that replaces,    *)
(* two that require the path to be absent, and one reader.                 *)
(***************************************************************************)
EXTENDS MCSwitchJournal, ScmInbox, ReplayLedger, AtomicFile, TLC

CONSTANTS d1, d2, d3, k1, k2, x, y, p1, p2, p3, w1, w2, w3, r1

MCDeliveryIdOf == d1 :> k1 @@ d2 :> k1 @@ d3 :> k2
MCPayloadDigestOf == d1 :> x @@ d2 :> y @@ d3 :> x

MCEntryOf ==
    p1 :> [requestId |-> 1, nonce |-> 1] @@ p2 :> [requestId |-> 1, nonce |-> 1]
    @@ p3 :> [requestId |-> 2, nonce |-> 1]

----------------------------------------------------------------------------
VARIABLE side

others == <<inboxVars, ledgerVars, outputVars>>

MCInit ==
    /\ Init /\ InboxInit /\ LedgerInit /\ OutputInit
    /\ side \in {"journal", "inbox", "ledger", "output"}

MCNext ==
    /\ UNCHANGED side
    /\ \/ side = "journal" /\ Next /\ UNCHANGED others
       \/ side = "inbox" /\ InboxNext /\ UNCHANGED <<vars, ledgerVars, outputVars>>
       \/ side = "ledger" /\ LedgerNext /\ UNCHANGED <<vars, inboxVars, outputVars>>
       \/ side = "output" /\ OutputNext /\ UNCHANGED <<vars, inboxVars, ledgerVars>>

MCSpec == MCInit /\ [][MCNext]_<<side, vars, others>>
=============================================================================
