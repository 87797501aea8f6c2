------------------------------ MODULE Streams ------------------------------
(***************************************************************************)
(* What a browser may see of the requests and the sockets it opens through *)
(* the gateway, whatever becomes of the machine behind them: one verdict   *)
(* each, and after the end nothing more.                                   *)
(***************************************************************************)
CONSTANT Stream
VARIABLE told

(***************************************************************************)
(* `begun` is a status line or an accepted upgrade, `over` a completed     *)
(* answer or a closed socket, `refused` a 502 or a 504, `left` a browser   *)
(* that hung up first.  An upgrade may be accepted only to be closed.      *)
(***************************************************************************)
Edge ==
  {<<"idle", "waiting">>,
   <<"waiting", "begun">>, <<"waiting", "refused">>, <<"waiting", "left">>,
   <<"waiting", "over">>, <<"begun", "over">>, <<"begun", "left">>}

Init == told = [s \in Stream |-> "idle"]

Next == \A s \in Stream : told'[s] = told[s] \/ <<told[s], told'[s]>> \in Edge

Spec == Init /\ [][Next]_told
=============================================================================
