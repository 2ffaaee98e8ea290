------------------------------ MODULE MCS3Rules ------------------------------
(* Which calls people make in a run, and as whom.                          *)
EXTENDS S3Rules

(* A bucket of today, which needs all three calls to become public, and    *)
(* one made before April 2023, which needs only the ACL.                   *)
Today == [acl |-> "private", blocked |-> TRUE, encryption |-> "AES256",
          ownership |-> "BucketOwnerEnforced"]
Earlier == [acl |-> "private", blocked |-> FALSE, encryption |-> "AES256",
            ownership |-> "ObjectWriter"]
Either == {Today, Earlier}
OneOfToday == {Today}

(* A public bucket and everything it takes: the ACL, the block and the     *)
(* ownership of the bucket.                                                *)
Opening == {[name |-> "PutBucketAcl", asks |-> "public"],
            [name |-> "PutBucketAcl", asks |-> "private"]}
             \union BlockRequests \union OwnershipRequests
Encrypting == {[name |-> "PutBucketEncryption", asks |-> "AES256"],
               [name |-> "PutBucketEncryption", asks |-> "other key"]}

Known == {TRUE}
OnAndOff == BOOLEAN
NoSetting == {}
PrivateAcl == {[name |-> "PutBucketAcl", asks |-> "private"]}
OtherKey == {[name |-> "PutBucketEncryption", asks |-> "other key"]}

(* A role whose name only begins like the engine's, on a record without a  *)
(* sessionIssuer and on one with it.                                       *)
Lookalike == {[issuer |-> "none", session |-> "engine-readonly"]}
OtherRole == {[issuer |-> "other", session |-> "engine-readonly"]}

=============================================================================
