---------------------------- MODULE MCMcpGateway -----------------------------
(***************************************************************************)
(* The MCP gateway of one host session: the lists it offers, its upstream  *)
(* connection and subscriptions, the progress it passes on and the HTTP    *)
(* session that carries it.  The four share no state beyond the atomic     *)
(* flags each module has for itself, so they are explored one at a time:   *)
(* `part` says which of them moves.                                        *)
(***************************************************************************)
EXTENDS McpLists, McpConnection, McpProgress, McpHttp, TLC

VARIABLE part

gatewayVars == <<part, listVars, connVars, progressVars, httpVars>>

Parts == {"lists", "connection", "progress", "http"}

GatewayInit ==
    /\ part \in Parts
    /\ ListsInit /\ ConnectionInit /\ ProgressInit /\ HttpInit
    /\ part # "lists" => listKind = CHOOSE k \in ListKinds : TRUE

GatewayNext ==
    /\ UNCHANGED part
    /\ \/ /\ part = "lists" /\ ListsNext
          /\ UNCHANGED <<connVars, progressVars, httpVars>>
       \/ /\ part = "connection" /\ ConnectionNext
          /\ UNCHANGED <<listVars, progressVars, httpVars>>
       \/ /\ part = "progress" /\ ProgressNext
          /\ UNCHANGED <<listVars, connVars, httpVars>>
       \/ /\ part = "http" /\ HttpNext
          /\ UNCHANGED <<listVars, connVars, progressVars>>

(* Notifications are handled, a server that is asked answers or its deadline *)
(* passes, and the lock of the aggregate is a fair queue: who waits for it   *)
(* and finds it free again and again gets it.                               *)
ListsFairness ==
    /\ WF_listVars(part = "lists" /\ Notice)
    /\ WF_listVars(part = "lists" /\ Refreshing)
    /\ WF_listVars(part = "lists" /\ Watch)
    /\ \A p \in Askers : SF_listVars(part = "lists" /\ TakeLock(p))

(* Threads run; the service loop takes what is queued and answers what it    *)
(* took, or ends when it is cancelled or has overflowed.                     *)
HttpFairness ==
    WF_httpVars(part = "http" /\ ((\E p \in Posts : PostRuns(p)) \/ ServiceRuns \/ FinishRuns))

GatewaySpec == GatewayInit /\ [][GatewayNext]_gatewayVars /\ ListsFairness /\ HttpFairness

GatewayTypeOK ==
    /\ part \in Parts
    /\ ListsTypeOK /\ ConnectionTypeOK /\ ProgressTypeOK /\ HttpTypeOK
-----------------------------------------------------------------------------

(* What the gateway lists is current or known to be stale, and a host never  *)
(* collects the pages of two snapshots.                                      *)
ListsAreHonest == GatewayTypeOK /\ StaleIsMarked /\ PagesAgree

(* What a POST is told of the end of its session is so, and the event queue  *)
(* accounts for exactly the frames it holds.                                 *)
HttpIsHonest == EndedIsHonest /\ CreditIsExact

(* List changes reach the host and POSTs their answer.                       *)
GatewayDelivers ==
    (part = "lists" /\ ListsAreBehind) \/ (part = "http" /\ PostsUnderWay)
        ~> (part = "lists" /\ ListsAreSettled) \/ (part = "http" /\ ~PostsUnderWay)
-----------------------------------------------------------------------------

(* The instance.                                                            *)

CONSTANTS sA, sB, uX, uY, hX, hY, c1, c2, c3, p1, p2

MCMaxVersion == [s \in Servers |-> 1]
MCConflicting == {}
MCOversized == {<<sB, 0>>}
MCUriOf == hX :> uX @@ hY :> uY
MCServerOf == c1 :> sA @@ c2 :> sA @@ c3 :> sB
MCBytesOf == c1 :> 1 @@ c2 :> 2 @@ c3 :> 1
MCMaxUpdates == uX :> 1 @@ uY :> 0
MCMaxProgress == c1 :> 2 @@ c2 :> 1 @@ c3 :> 1
MCIdOf == p1 :> 1 @@ p2 :> 1
MCFrameBytes == <<1, 2>>
=============================================================================
