---------------------------- MODULE SgDetection ----------------------------
(***************************************************************************)
(* What rules/sg_rules.py finds in an AuthorizeSecurityGroupIngress event  *)
(* and what it asks EC2 to revoke.  A permission item is one entry of      *)
(* ipPermissions.items as CloudTrail writes it; the request is a sequence  *)
(* of them, grown one item at a time so that every short request is met.   *)
(* An item is a record of its protocol, its port range, and the cidrs of   *)
(* ipRanges (v4) and ipv6Ranges (v6).                                      *)
(***************************************************************************)
EXTENDS Integers, Sequences, SequencesExt

CONSTANTS
  Items,    (* Permission items a caller may put into a request.           *)
  MaxItems  (* Bound on the length of a request.                           *)

VARIABLE perms  (* requestParameters.ipPermissions.items                   *)

(* fromPort / toPort when CloudTrail omits them, and Python's None.        *)
Absent == -2

AllTraffic == "-1"
RestrictedPorts == {22, 3389}
OpenCidrs == {"0.0.0.0/0", "::/0"}

(* ':' in cidr *)
IsV6(cidr) == cidr \in {"::/0", "fd00::/8"}

(* The protocols that know ports; all traffic reaches them too.            *)
WithPorts == {"tcp", "udp"}
HasPorts(rule) == rule.protocol \in WithPorts \union {"-1"}

PortNumbers == 0 .. 65535

(* ICMP has a type and a code in their place, -1 for all of them.          *)
Types == (-1) .. 255

(* What EC2 takes.  The two lists hold cidrs of their family, none twice.  *)
(* TCP and UDP come with a range of ports.  Another protocol (ICMP, ICMPv6 *)
(* or a number) comes with a type and a code, any type being of any code,  *)
(* or without either; all traffic comes as it likes.                       *)
ASSUME ItemsAssumption ==
  \A item \in Items :
    /\ item.v4 \in Seq(STRING) /\ IsInjective(item.v4)
    /\ item.v6 \in Seq(STRING) /\ IsInjective(item.v6)
    /\ \A i \in DOMAIN item.v4 : ~ IsV6(item.v4[i])
    /\ \A i \in DOMAIN item.v6 : IsV6(item.v6[i])
    /\ item.protocol \in WithPorts => item.from \in PortNumbers /\ item.to \in PortNumbers
    /\ ~ HasPorts(item) =>
         \/ item.from = Absent /\ item.to = Absent
         \/ /\ item.from \in Types /\ item.to \in Types
            /\ item.from = -1 => item.to = -1

-----------------------------------------------------------------------------

(* Faulty variant: missing ports are filled in whatever the protocol.      *)
PortRangeAlways(item) ==
  [from |-> IF item.from = Absent THEN 0 ELSE item.from,
   to   |-> IF item.to = Absent THEN 65535 ELSE item.to]

(* _port_range: an all-traffic item carries no range at all.               *)
PortRange(item) ==
  IF item.protocol = AllTraffic
  THEN [from |-> Absent, to |-> Absent]
  ELSE [from |-> IF item.from = Absent THEN 0 ELSE item.from,
        to   |-> IF item.to = Absent THEN 65535 ELSE item.to]

(* _covers_port *)
CoversPort(range, port) ==
  range.from = Absent \/ (range.from <= port /\ port <= range.to)

(* The restricted ports of a range: 22, then 3389.                         *)
ExposedPorts(range) ==
  LET reached(port) == IF CoversPort(range, port) THEN <<port>> ELSE <<>>
  IN  reached(22) \o reached(3389)

(* What identifies the rule an item makes for a cidr.                      *)
RuleOf(item, c) ==
  [cidr |-> c, from |-> PortRange(item).from, to |-> PortRange(item).to,
   protocol |-> item.protocol]

(* A cidr that is not open contributes nothing, an open one a violation    *)
(* per restricted port covered.                                            *)
CidrViolations(item, c) ==
  LET ports == IF c \in OpenCidrs THEN ExposedPorts(PortRange(item)) ELSE <<>>
  IN  [i \in DOMAIN ports |-> [port |-> ports[i], rule |-> RuleOf(item, c)]]

ItemViolations(item) ==
  LET cidrs == item.v4 \o item.v6
  IN  FlattenSeq([i \in DOMAIN cidrs |-> CidrViolations(item, cidrs[i])])

IsPublicIngress(items) ==
  FlattenSeq([i \in DOMAIN items |-> ItemViolations(items[i])])

(* group_by_rule: the violations of one rule become one group, in the      *)
(* order in which the rules were first met.                                *)
(* Faulty variants: no grouping, and a group that forgets further ports.   *)
AddToGroupsNever(groups, violation) ==
  Append(groups, [rule |-> violation.rule, ports |-> <<violation.port>>])

AddToGroupsOnce(groups, violation) ==
  IF \E i \in DOMAIN groups : groups[i].rule = violation.rule
  THEN groups
  ELSE Append(groups, [rule |-> violation.rule, ports |-> <<violation.port>>])

AddToGroups(groups, violation) ==
  IF \E i \in DOMAIN groups : groups[i].rule = violation.rule
  THEN [i \in DOMAIN groups |->
          IF groups[i].rule = violation.rule
          THEN [groups[i] EXCEPT !.ports = Append(@, violation.port)]
          ELSE groups[i]]
  ELSE Append(groups, [rule |-> violation.rule, ports |-> <<violation.port>>])

GroupByRule(violations) == FoldLeft(AddToGroups, <<>>, violations)

(* _revoke_rule: the request sent to EC2.  The range is left out for an    *)
(* all-traffic rule, and the cidr goes into the list of its family.        *)
RevokeRequest(rule) ==
  [protocol |-> rule.protocol,
   from     |-> rule.from,
   to       |-> rule.to,
   family   |-> IF IsV6(rule.cidr) THEN "v6" ELSE "v4",
   cidr     |-> rule.cidr]

(* The revocations handle_authorize_sg_ingress goes through for a request. *)
RevokeRequests(items) ==
  LET groups == GroupByRule(IsPublicIngress(items))
  IN  [i \in DOMAIN groups |-> RevokeRequest(groups[i].rule)]

-----------------------------------------------------------------------------

(* EC2's side: the ingress rule an item makes for a cidr of one of its     *)
(* families, with the range it came with.  EC2 keeps none for all traffic. *)
Held(item, family, c) ==
  [protocol |-> item.protocol,
   from |-> IF item.protocol = "-1" THEN Absent ELSE item.from,
   to   |-> IF item.protocol = "-1" THEN Absent ELSE item.to,
   family |-> family, cidr |-> c]

HeldOf(item) ==
  {Held(item, "v4", c) : c \in ToSet(item.v4)}
    \union {Held(item, "v6", c) : c \in ToSet(item.v6)}

(* The rules a granted request leaves in the group.                        *)
StoredRules(items) == UNION {HeldOf(items[i]) : i \in DOMAIN items}

(* EC2 refuses a request that names the same rule twice.                   *)
AddItem(item) ==
  /\ Len(perms) < MaxItems
  /\ StoredRules(perms) \intersect StoredRules(<<item>>) = {}
  /\ perms' = Append(perms, item)

-----------------------------------------------------------------------------
(* Reference definition: reachability of a port through what EC2 holds.    *)
(* SSH and RDP are reached over TCP or UDP.                                *)

ReachesPort(held, port) ==
  \/ held.protocol = "-1"
  \/ held.protocol \in WithPorts /\ port \in held.from .. held.to

ExposedPortsOf(held) == {p \in {22, 3389} : ReachesPort(held, p)}

ExposedRules(items) ==
  {held \in StoredRules(items) :
     /\ held.cidr \in {"0.0.0.0/0", "::/0"}
     /\ ExposedPortsOf(held) # {}}

(* A rule as the engine asks for it: a range that is not there is made up. *)
Filled(held) ==
  IF held.protocol # "-1" /\ held.from = Absent
  THEN [protocol |-> held.protocol, from |-> 0, to |-> 65535,
        family |-> held.family, cidr |-> held.cidr]
  ELSE held

(* The engine revokes every rule of the request through which the internet *)
(* reaches SSH or RDP, in the shape EC2 holds it, so that the revocation   *)
(* matches; none is asked for twice (the second answer would be NotFound,  *)
(* bug 2 of the engineering log); and of the rules that know ports no      *)
(* other is asked for.  A rule of another protocol may be: the engine does *)
(* not look at the protocol of a range, and makes one up where there is    *)
(* none, for a rule EC2 does not hold.                                     *)
ExposedRulesAreRevoked ==
  LET requests == RevokeRequests(perms)
  IN  /\ ExposedRules(perms) \subseteq ToSet(requests)
      /\ IsInjective(requests)
      /\ \A r \in ToSet(requests) \ ExposedRules(perms) :
           /\ ~ HasPorts(r)
           /\ \E held \in StoredRules(perms) : r = Filled(held)

(* Grouping loses no finding: each exposed rule is reported for every      *)
(* restricted port it exposes, and of any group each port is named once,   *)
(* lowest first, so the alerts of one revocation name every port it closed.*)
EveryExposedPortReported ==
  LET groups == GroupByRule(IsPublicIngress(perms))
  IN  /\ \A held \in ExposedRules(perms) :
           \E i \in DOMAIN groups :
             /\ RevokeRequest(groups[i].rule) = held
             /\ ToSet(groups[i].ports) = ExposedPortsOf(held)
      /\ \A i \in DOMAIN groups :
           \A j, k \in DOMAIN groups[i].ports :
             j < k => groups[i].ports[j] < groups[i].ports[k]

=============================================================================
