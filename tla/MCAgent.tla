------------------------------- MODULE MCAgent -------------------------------
(* Small services for the tools to read.                                   *)
EXTENDS Agent

CONSTANTS data, database, plain, sealed, mute, nameless

(* The name of one resource begins with that of the other.                 *)
MCSubjects == {data, database}
MCContaining == data :> {data, database} @@ database :> {database}

(* Three pages, of which the second, of a security group, may be empty and *)
(* the third is beyond MAX_PAGES.                                          *)
MCPages == << {"a"}, {"b"}, {"c"} >>
MCGroups == {"b"}
MCTags ==
  {NoTags,
   [value |-> "true", until |-> "date", at |-> 1],
   [value |-> "true", until |-> "date", at |-> 0],
   [value |-> "true in other letters", until |-> "timestamp", at |-> 9]}

MCBuckets ==
  {[kind |-> "bucket", exists |-> TRUE, block |-> b, kms |-> k, tags |-> t] :
     b \in {"on", "off"}, k \in BOOLEAN, t \in {"exempt", "not_tagged"}}
  \union
  {[kind |-> "bucket", exists |-> FALSE, block |-> "off", kms |-> FALSE,
    tags |-> "not_tagged"]}

MCKind == plain :> "unencrypted" @@ sealed :> "encrypted"
            @@ mute :> "unsaid" @@ nameless :> "unnamed"

Described(life, vs, t) ==
  [kind |-> "instance", exists |-> TRUE, life |-> life, mappings |-> vs, tags |-> t]

Vanished ==
  [kind |-> "instance", exists |-> FALSE, life |-> "terminated", mappings |-> {},
   tags |-> "not_tagged"]

(* Instances whose mappings all name a volume, and the rest.               *)
Readable ==
  {Described(l, vs, t) : l \in {"pending", "running"}, t \in {"exempt", "not_tagged"},
     vs \in SUBSET {plain, sealed, mute}}
  \union {Described("terminated", {}, "not_tagged"), Vanished}

WithUnnamed ==
  {Described(l, {sealed, nameless}, "not_tagged") : l \in {"pending", "running"}}

(* Permission items whose ranges sit on, just inside and just outside the  *)
(* restricted ports, in both address families.                             *)
MCRanges == {<<22, 22>>, <<3389, 3389>>, <<0, 65535>>, <<23, 3388>>,
             <<21, 23>>, <<0, 21>>, <<3390, 65535>>}

MCCidrs == {<< <<"0.0.0.0/0">>, <<>> >>, << <<>>, <<"::/0">> >>,
            << <<"10.0.0.0/8", "0.0.0.0/0">>, <<"::/0">> >>,
            << <<"10.0.0.0/8">>, <<"fd00::/8">> >>}

MCItems ==
  {[protocol |-> "tcp", from |-> r[1], to |-> r[2], v4 |-> c[1], v6 |-> c[2]]
     : r \in MCRanges, c \in MCCidrs}
  \union
  {[protocol |-> "-1", from |-> f, to |-> f, v4 |-> c[1], v6 |-> c[2]]
     : f \in {Absent, 0}, c \in MCCidrs}
  \union
  {[protocol |-> "icmp", from |-> -1, to |-> -1, v4 |-> c[1], v6 |-> c[2]]
     : c \in MCCidrs}
  \union
  {[protocol |-> "icmpv6", from |-> Absent, to |-> Absent, v4 |-> <<>>, v6 |-> v6]
     : v6 \in {<<"::/0">>, <<"fd00::/8">>}}

None == {}

=============================================================================
