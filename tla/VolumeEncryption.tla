-------------------------- MODULE VolumeEncryption --------------------------
(***************************************************************************)
(* What the EC2 rule makes of an instance's volumes (rules/ec2_rules.py,   *)
(* _volume_encryption_status).  The rule acts on it; the verdict of the    *)
(* reader's get_resource_state is measured against it.                     *)
(***************************************************************************)

CONSTANT
  Kind  (* What EC2 says of each volume: "encrypted", "unencrypted",       *)
        (* "unsaid" (no Encrypted field) or "unnamed" (no VolumeId in the  *)
        (* mapping).                                                       *)

(* The mappings that carry a VolumeId.                                     *)
Named(vs) == {v \in vs : Kind[v] # "unnamed"}

(* Faulty variant: a volume of which EC2 does not say is taken for         *)
(* unencrypted.                                                            *)
EncryptionStatusGuessing(described, answered) ==
  LET vs == described.mappings
  IN  IF vs = {}
      THEN {IF described.life = "pending" THEN "undetermined" ELSE "encrypted"}
      ELSE IF \E v \in vs : Kind[v] = "unnamed" \/ v \notin answered
      THEN {"undetermined"}
      ELSE IF \A v \in vs : Kind[v] = "encrypted" THEN {"encrypted"}
      ELSE {"unencrypted"}

(* Faulty variant: no mappings means no volumes, whatever the state.       *)
EncryptionStatusTooSoon(described, answered) ==
  LET vs == described.mappings
  IN  IF vs = {} THEN {"encrypted"}
      ELSE IF \E v \in vs : Kind[v] = "unnamed" \/ v \notin answered
      THEN {"undetermined"}
      ELSE IF \A v \in vs : Kind[v] = "encrypted" THEN {"encrypted"}
      ELSE {k \in {"unencrypted", "undetermined"} :
              \E v \in vs : Kind[v] = IF k = "undetermined" THEN "unsaid" ELSE k}

(* _volume_encryption_status: what it may return, given the volumes EC2    *)
(* answered about.  It stops at the first volume in EC2's order that is    *)
(* unencrypted or of which EC2 does not say.                               *)
VolumeEncryptionStatus(described, answered) ==
  LET vs == described.mappings
  IN  IF vs = {}
      THEN {IF described.life = "pending" THEN "undetermined" ELSE "encrypted"}
      ELSE IF \E v \in vs : Kind[v] = "unnamed" \/ v \notin answered
      THEN {"undetermined"}
      ELSE IF \A v \in vs : Kind[v] = "encrypted" THEN {"encrypted"}
      ELSE {k \in {"unencrypted", "undetermined"} :
              \E v \in vs : Kind[v] = IF k = "undetermined" THEN "unsaid" ELSE k}

=============================================================================
