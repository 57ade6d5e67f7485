---------------------------- MODULE TariffGateway ----------------------------
(***************************************************************************)
(* The API gateway's tariff requests composed with the tariff service they *)
(* are forwarded to.  A call of the gateway's tariffClient is an HTTP      *)
(* request with a limit of five seconds: the service may be down, may take *)
(* the request after the gateway gave it up, and goes on with what it took *)
(* whether or not anybody waits.  The operators' views ask the service     *)
(* twice at the same time, for the current price and for the latest row of *)
(* the history, and show the price of the one with the label of the other. *)
(*                                                                         *)
(* A gateway call p is handled by slot p of TariffService.                 *)
(***************************************************************************)
EXTENDS TariffService

VARIABLES
  call,   \* what each gateway call asks, where it is and what it was answered
  board   \* one operator's view of the region being read

gvars == <<call, board>>
allVars == <<vars, gvars>>

-----------------------------------------------------------------------------
Asks    == {"none", "override", "remove", "current"}
Places  == {"none", "sent", "serving"}
Answers == {"none", "success", "error"}  \* an error is forgotten once the call is over

NoCall  == [ask |-> "none", row |-> NoRow, place |-> "none", answer |-> "none",
            alone |-> FALSE]
NoBoard == [open |-> FALSE, price |-> NoPrice, by |-> "unread"]

(* The label of a price nobody has stored a row for. *)
Labels == {"unread", "AUTO", "MANUAL", "automatic"}

Waiting(p) == call[p].ask # "none" /\ call[p].answer = "none"

GatewayInit == Init /\ call = [p \in Requests |-> NoCall] /\ board = NoBoard

-----------------------------------------------------------------------------
(* A call is `alone' while no other handler has started since the service    *)
(* took it.  Nothing is promised of a view that began while a handler was   *)
(* in progress or the cache was disturbed, or that a write has overtaken,   *)
(* nor of an answer once another handler has started: they are not followed *)
(* further.                                                                 *)
Started == {s \in Slots : ~Busy(s) /\ op'[s].stage # "idle"}
Writers == {s \in Started : op'[s].stage # "read"}

Calls(newCall) ==
  call' = [p \in Requests |->
             IF Started \subseteq {p} THEN newCall[p]
             ELSE IF newCall[p].answer = "success" THEN NoCall
             ELSE [newCall[p] EXCEPT !.alone = FALSE]]

View(newBoard) ==
  board' = IF Writers = {} /\ up' /\ ~disturbed' THEN newBoard ELSE NoBoard

(* What tariffClient gives a caller that still waits: what the service did, *)
(* or an error, of which nothing is kept.                                   *)
Succeeded(p) ==
  [call EXCEPT ![p] = IF Waiting(p) THEN [@ EXCEPT !.place = "none", !.answer = "success"]
                      ELSE NoCall]

Over(p) == [call EXCEPT ![p] = NoCall]

(* A call of tariffClient; the slot's last call is over.  (Bound: none is   *)
(* sent that MaxRequests would keep the service from taking.)               *)
Send(p, ask, row) ==
  /\ call[p].place = "none"
  /\ requests + Cardinality({q \in Requests : call[q].place = "sent"}) < MaxRequests
  /\ call' = [call EXCEPT ![p] = [NoCall EXCEPT !.ask = ask, !.row = row, !.place = "sent"]]
  /\ UNCHANGED <<vars, board>>

(* createTariffOverride; the gateway lets pass more than the service takes. *)
CreateTariffOverride(p, price) ==
  /\ price > 0 /\ price <= 10000
  /\ Send(p, "override", [NoRow EXCEPT !.price = price])

(* removeTariffOverride, of a row the operator has seen. *)
RemoveTariffOverride(p, row) == Send(p, "remove", row)

(* The service takes an override, or its validation refuses it. *)
TakeOverride(p) ==
  /\ call[p].ask = "override" /\ call[p].place = "sent"
  /\ \/ /\ Override(p, call[p].row.price)
        /\ Calls([call EXCEPT ![p] = [@ EXCEPT !.place = "serving", !.alone = AllIdle]])
        /\ View(board)
     \/ /\ up /\ ~Acceptable(call[p].row.price)
        /\ call' = Over(p)
        /\ UNCHANGED <<vars, board>>

(* The service takes a removal; the row may be gone since it was seen. *)
TakeRemoval(p) ==
  /\ call[p].ask = "remove" /\ call[p].place = "sent"
  /\ \/ /\ call[p].row \in tariffs
        /\ Remove(p, call[p].row)
        /\ Calls([call EXCEPT ![p] = [@ EXCEPT !.place = "serving"]])
        /\ View(board)
     \/ /\ up /\ call[p].row \notin tariffs
        /\ call' = Over(p)
        /\ UNCHANGED <<vars, board>>

Mut_TimeOutForgetsTheCall(p) ==
  /\ Waiting(p)
  /\ call' = Over(p)
  /\ UNCHANGED <<vars, board>>

(* The limit of five seconds; the request may still be on its way or in the *)
(* service.                                                                 *)
TimeOut(p) ==
  /\ Waiting(p)
  /\ call' = [call EXCEPT ![p] = [@ EXCEPT !.answer = "error"]]
  /\ UNCHANGED <<vars, board>>

(* The service is down, or the connection ends before it takes the request. *)
Refused(p) ==
  /\ call[p].place = "sent"
  /\ ~up \/ ~Waiting(p)
  /\ call' = Over(p)
  /\ UNCHANGED <<vars, board>>

-----------------------------------------------------------------------------
(* getAllRegionalTariffs and getTariffAnalytics, for one region: both       *)
(* requests are sent together and answered in either order.                 *)
Shown == board.price # NoPrice /\ board.by # "unread"

Look ==
  /\ board.open => Shown
  /\ up /\ AllIdle /\ ~disturbed
  /\ board' = [NoBoard EXCEPT !.open = TRUE]
  /\ UNCHANGED <<vars, call>>

Reading(part, unread) == board.open /\ board[part] = unread

(* tariffClient.getCurrentTariff while the service's cache has the price. *)
GetCurrentTariff ==
  /\ up
  /\ Reading("price", NoPrice)
  /\ cache # NoPrice
  /\ board' = [board EXCEPT !.price = cache]
  /\ UNCHANGED <<vars, call>>

(* The same, for a view or for a user, when the service has to read its      *)
(* table.                                                                   *)
GetUncached(p) ==
  /\ call[p].place = "none"
  /\ Get(p)
  /\ Calls([call EXCEPT ![p] = [NoCall EXCEPT !.ask = "current", !.place = "serving"]])
  /\ View(board)

Mut_OldestOfHistory ==
  /\ up
  /\ Reading("by", "unread")
  /\ \E by \in IF tariffs = {} THEN {"automatic"}
               ELSE {r.by : r \in {r \in tariffs : \A q \in tariffs : r.from <= q.from}} :
       board' = [board EXCEPT !.by = by]
  /\ UNCHANGED <<vars, call>>

(* tariffClient.getTariffHistory(region, 1); without a row the price keeps   *)
(* the label the client gave it.                                            *)
GetTariffHistory ==
  /\ up
  /\ Reading("by", "unread")
  /\ \E by \in IF tariffs = {} THEN {"automatic"} ELSE {r.by : r \in Latest(tariffs)} :
       board' = [board EXCEPT !.by = by]
  /\ UNCHANGED <<vars, call>>

(* One of the two has failed, and the region is left out. *)
Skip ==
  /\ board.open /\ ~Shown
  /\ board' = NoBoard
  /\ UNCHANGED <<vars, call>>

-----------------------------------------------------------------------------
Fails(p) == InsertFails(p) \/ CacheSetFails(p) \/ DeleteFails(p) \/ LatestReadFails(p)

Mut_SuccessWhateverHappened(p) ==
  /\ call[p].place = "serving" /\ call[p].ask # "current"
  /\ Await(p)
  /\ Calls(IF op'[p].stage = "idle" THEN Succeeded(p) ELSE call)
  /\ View(board)

(* The service takes its next step for p.  It answers when it has published,*)
(* when the row to remove was gone or no row is left to revert to, and when *)
(* a step throws.                                                           *)
Serve(p) ==
  /\ call[p].place = "serving" /\ call[p].ask # "current"
  /\ \/ PublishReturns(p) /\ Calls(Succeeded(p))
     \/ Fails(p) /\ Calls(Over(p))
     \/ (InsertDone(p) \/ CacheSet(p)) /\ Calls(call)
     \/ DeleteDone(p) /\ Calls(IF op'[p].stage = "idle" THEN Over(p) ELSE call)
     \/ LatestRead(p) /\ Calls(IF op'[p].stage = "idle" THEN Succeeded(p) ELSE call)
  /\ View(board)

(* The same for a price: what was read is answered once it is in the cache. *)
ServeCurrent(p) ==
  /\ call[p].place = "serving" /\ call[p].ask = "current"
  /\ \/ /\ CacheSet(p)
        /\ Calls(Over(p))
        /\ View(IF Waiting(p) /\ Reading("price", NoPrice)
                THEN [board EXCEPT !.price = op[p].row.price] ELSE board)
     \/ Fails(p) /\ Calls(Over(p)) /\ View(board)
     \/ /\ LatestRead(p)
        /\ Calls(IF op'[p].stage = "idle" THEN Over(p) ELSE call)
        /\ View(board)

(* The service's other steps; a crash ends the connections of its requests. *)
Service ==
  /\ \/ Tick \/ Commit \/ Consume \/ Expire \/ Shutdown \/ Restart \/ Await("consumer")
     \/ \E load \in Loads : Emit(load)
  /\ Calls(call)
  /\ View(board)

ServiceCrash ==
  /\ Crash
  /\ Calls([p \in Requests |-> IF call[p].place = "serving" THEN NoCall ELSE call[p]])
  /\ View(board)

-----------------------------------------------------------------------------
GatewayNext ==
  \/ Service \/ ServiceCrash
  \/ Look \/ GetCurrentTariff \/ GetTariffHistory \/ Skip
  \/ \E p \in Requests :
       \/ \E price \in OverridePrices : CreateTariffOverride(p, price)
       \/ \E row \in tariffs : RemoveTariffOverride(p, row)
       \/ TakeOverride(p) \/ TakeRemoval(p) \/ TimeOut(p) \/ Refused(p)
       \/ GetUncached(p) \/ Serve(p) \/ ServeCurrent(p)

GatewaySpec == GatewayInit /\ [][GatewayNext]_allVars

-----------------------------------------------------------------------------
GatewayTypeOK ==
  /\ call \in [Requests -> [ask : Asks, row : Row, place : Places, answer : Answers,
                            alone : BOOLEAN]]
  /\ board \in [open : BOOLEAN, price : Price \cup {NoPrice}, by : Labels]
  /\ \A p \in Requests : Busy(p) <=> call[p].place = "serving"

(* An operator who is told that an override was applied was told the truth: *)
(* its price has been stored, and until another handler starts in the       *)
(* service it is a latest price of the table and the cache does not say     *)
(* otherwise - through a failed query, a late answer, a crash, a restart or *)
(* the end of the key's time to live.                                       *)
AppliedOverrideIsInForce ==
  \A p \in Requests :
    call[p].ask = "override" /\ call[p].answer = "success" =>
      /\ call[p].row.price \in stored
      /\ call[p].alone /\ ~disturbed =>
           /\ \E r \in Latest(tariffs) : r.price = call[p].row.price
           /\ CacheIsCurrent

(* A view shows the price and the label of latest rows, although they come  *)
(* from two stores in two requests, unless something was written while it   *)
(* was read or the cache had been disturbed before.                         *)
ViewPairsLatestRows ==
  Shown =>
    /\ \E r \in Latest(tariffs) : r.price = board.price
    /\ \E r \in Latest(tariffs) : r.by = board.by

=============================================================================
