------------------------------ MODULE MCSgRules ------------------------------
(* One request with two rules that expose SSH or RDP, the second over all  *)
(* ports so that one revocation closes two of them; and two requests that  *)
(* expose nothing, one of them recorded without a groupId.  What each      *)
(* revokes and reports is computed by SgDetection.                         *)
EXTENDS SgRules, TLC

Detection ==
  INSTANCE SgDetection WITH Items <- {}, MaxItems <- 0, perms <- <<>>

Tcp(from, to, cidrs) ==
  [protocol |-> "tcp", from |-> from, to |-> to, v4 |-> cidrs, v6 |-> <<>>]

MCItems ==
  [open     |-> <<Tcp(3389, 3389, <<"0.0.0.0/0">>),
                  Tcp(0, 65535, <<"0.0.0.0/0">>)>>,
   harmless |-> <<Tcp(443, 443, <<"0.0.0.0/0">>)>>,
   byName   |-> <<Tcp(443, 443, <<"0.0.0.0/0">>)>>]

(* Short names for the rules EC2 would hold.                               *)
CONSTANTS rdp, all, https

Name(held) ==
  CASE held.from = 3389 -> rdp
    [] held.from = 443 -> https
    [] OTHER -> all

Groups(q) == Detection!GroupByRule(Detection!IsPublicIngress(MCItems[q]))

GroupName(group_) == Name(Detection!RevokeRequest(group_.rule))

GrantsOf(q) == {Name(held) : held \in Detection!StoredRules(MCItems[q])}
RevokesOf(q) == [i \in DOMAIN Groups(q) |-> GroupName(Groups(q)[i])]
AllGroups == UNION {{Groups(q)[i] : i \in DOMAIN Groups(q)} : q \in DOMAIN MCItems}

(* The ports a rule is reported for are those its group collected.         *)
PortsOf(r) ==
  IF \E g \in AllGroups : GroupName(g) = r
  THEN (CHOOSE g \in AllGroups : GroupName(g) = r).ports
  ELSE <<>>

MCRules == {rdp, all, https}
MCRequests == {"open", "harmless", "byName"}
MCGrants ==
  "open" :> {rdp, all} @@ "harmless" :> {https} @@ "byName" :> {https}
MCRevokeList ==
  "open" :> <<rdp, all>> @@ "harmless" :> <<>> @@ "byName" :> <<>>
MCPorts == rdp :> <<3389>> @@ all :> <<22, 3389>> @@ https :> <<>>

(* The tables above are what the engine computes from the items.           *)
ASSUME TablesFromDetection ==
  /\ \A q \in MCRequests : /\ MCGrants[q] = GrantsOf(q)
                           /\ MCRevokeList[q] = RevokesOf(q)
  /\ \A r \in MCRules : MCPorts[r] = PortsOf(r)

ByName == {"byName"}
AllNamed == {}

(* For runs in which only the first request is made.                       *)
OpenOnly == {"open"}
OpenGrants == "open" :> {rdp, all}
OpenRevokeList == "open" :> <<rdp, all>>

=============================================================================
