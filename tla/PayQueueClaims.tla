---------------------------- MODULE PayQueueClaims ----------------------------
(***************************************************************************)
(* What docs/PRODUCT_PLAN.md says of a purchase and the handlers do not    *)
(* keep.                                                                   *)
(***************************************************************************)
EXTENDS PayQueue

\* "POST /playlist/add fails after debit": refunded.  A handler whose add failed
\* with nothing added keeps no money, however the call failed.
FailedAddRefunded ==
  \A p \in Payers :
    /\ pc[p] = "raised" /\ tgt[p] # NoUid /\ uid[p] = NoUid
    /\ \A u \in DOMAIN media : media[u] # MediaOf[p]
    => ledger[p] # "charged"
=============================================================================
