------------------------------ MODULE MCEc2Rules ------------------------------
(* Two instances of one launch, with one volume or two of these kinds.     *)
EXTENDS Ec2Rules, TLC

CONSTANTS web, db, plain, sealed, silent

Pair == <<web, db>>
Alone == <<web>>

MCKind == plain :> "unencrypted" @@ sealed :> "encrypted" @@ silent :> "unsaid"

(* A violator whose encrypted volume may be mapped first, and after it an  *)
(* instance that cannot be assessed, at which an attempt may still end.    *)
Mixed == web :> {plain, sealed} @@ db :> {silent}
One == web :> {plain, sealed}

Web == {web}
WebAndPlain == {web, plain}
NoGap == {}
NoInstance == {}
EveryError == {"batch", "instance", "volumes", "remedy"}
VolumesOnly == {"batch", "volumes"}

=============================================================================
