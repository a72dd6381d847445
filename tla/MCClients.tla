------------------------------ MODULE MCClients ------------------------------
(***************************************************************************)
(* TLC instance of the client libraries: the gateway's client and the      *)
(* agent connections.  They share nothing, so each behaviour follows one   *)
(* of them, the others standing still.                                     *)
(***************************************************************************)
EXTENDS GatewayClient, AgentLinks, TLC

VARIABLE focus

vars == <<now, clientVars, linksVars, focus>>

MCNames == {<<"sum">>, <<"sum", "up">>, <<"rank">>, <<"other">>}
MCOffered == << <<"sum", "up">>, <<"sum">>, <<"rank">> >>
MCListPrice == [n \in Range(MCOffered) |-> IF n = <<"rank">> THEN 2 ELSE 1]

Init ==
    /\ ClientInit /\ LinksInit
    /\ \/ focus \in {"waiting", "watching", "retrying"} /\ now = 0
       \/ focus = "links" /\ now = MaxTime  \* no clock left to wait for

Next ==
    /\ UNCHANGED focus
    /\ \/ focus = "links" /\ LinksNext /\ UNCHANGED <<now, clientVars>>
       \/ /\ focus # "links" /\ ClientNext /\ UNCHANGED linksVars
          /\ wait' # wait => focus = "waiting"
          /\ checks' # checks => focus = "watching"
          /\ retry' # retry => focus = "retrying"

\* Every wait, repeated call and call over a connection comes to an end.
CallsEnd == ClientEnds /\ EveryCallAnswered

Spec == Init /\ [][Next]_vars /\ ClientFairness /\ LinksFairness

=============================================================================
