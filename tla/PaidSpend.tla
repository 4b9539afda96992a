------------------------------ MODULE PaidSpend ------------------------------
(***************************************************************************)
(* What the paid queue promises about the money of each request, whatever  *)
(* the interleaving of handlers, polls and restarts: a request is charged  *)
(* at most once and before it is answered; its spend is recorded only      *)
(* while it is still charged; a refund is final; "ok" is answered for a    *)
(* recorded spend and "error" for one that cost nothing.                   *)
(***************************************************************************)
CONSTANTS
  Requests,
  RefundMayFail   \* the refund made on the way to an error answer may fail

VARIABLES
  money,    \* "none", "charged", "recorded" (a spend row exists), "refunded"
  answer    \* "open", "ok", "error", or "unknown": the handler raised

Init ==
  /\ money = [r \in Requests |-> "none"]
  /\ answer = [r \in Requests |-> "open"]

Moves == {<<"none", "charged">>, <<"charged", "recorded">>,
          <<"charged", "refunded">>, <<"recorded", "refunded">>}

Answers(m) ==
  {"unknown"}
    \cup (IF m \in {"recorded", "refunded"} THEN {"ok"} ELSE {})
    \cup (IF m \in {"none", "refunded"} \/ (m = "charged" /\ RefundMayFail)
          THEN {"error"} ELSE {})

Settle(r) ==
  /\ money'[r] # money[r] =>
       /\ <<money[r], money'[r]>> \in Moves
       /\ money[r] \in {"none", "charged"} => answer[r] = "open"
  /\ answer'[r] # answer[r] => answer[r] = "open" /\ answer'[r] \in Answers(money'[r])

Next == \A r \in Requests : Settle(r)

Spec == Init /\ [][Next]_<<money, answer>>
=============================================================================
