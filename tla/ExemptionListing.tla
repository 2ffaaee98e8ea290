-------------------------- MODULE ExemptionListing --------------------------
(***************************************************************************)
(* The reader's list_exemptions (mcp_server/tools/exemptions.py): the      *)
(* resources carrying the exemption tag, page by page, each judged by the  *)
(* engine's own evaluate_exemption.  People change tags between two pages. *)
(***************************************************************************)
EXTENDS Exemption, Sequences, FiniteSets

CONSTANTS
  Pages,      (* The resources as the tagging API pages them.              *)
  SecurityGroups, (* Those that are security groups.                       *)
  TagChoices, (* The tags people put on a resource.                        *)
  MaxPages,   (* MAX_PAGES.                                                *)
  MaxRetags,  (* Bound on the changes people make.                         *)
  Now         (* The moment of the call; days are not told apart within it.*)

Resources == UNION {Pages[i] : i \in DOMAIN Pages}

NoTags == [value |-> "absent", until |-> "absent", at |-> 0]

(* There is a page, if only an empty one, to every listing.                *)
ASSUME ListingAssumption ==
  /\ Pages \in Seq(SUBSET Resources) /\ Pages # <<>>
  /\ SecurityGroups \subseteq Resources
  /\ TagChoices \subseteq Tags /\ NoTags \in TagChoices
  /\ MaxPages \in Nat \ {0}
  /\ MaxRetags \in Nat
  /\ Now \in Nat

VARIABLES
  tags,    (* The tags of each resource.                                   *)
  retags,  (* Changes made.                                                *)
  listing, (* "idle", "listing", "listed", "failed" or "raised".           *)
  page,    (* Pages read.                                                  *)
  found,   (* The entries so far: resource and status.                     *)
  heard    (* History: all tags each resource had since the call began.    *)

tagVars == <<tags, retags>>
listingVars == <<listing, page, found, heard>>

ListingInit ==
  /\ tags \in [Resources -> TagChoices]
  /\ retags = 0
  /\ listing = "idle"
  /\ page = 0
  /\ found = {}
  /\ heard = [r \in Resources |-> {}]

Retag(r, t) ==
  /\ retags < MaxRetags
  /\ retags' = retags + 1
  /\ tags' = [tags EXCEPT ![r] = t]
  /\ heard' = IF listing = "listing" THEN [heard EXCEPT ![r] = @ \union {t}] ELSE heard
  /\ UNCHANGED <<listing, page, found>>

Begin ==
  /\ listing = "idle"
  /\ listing' = "listing"
  /\ heard' = [r \in Resources |-> {tags[r]}]
  /\ UNCHANGED <<tags, retags, page, found>>

(* TagFilters Key=ComplianceExempt Values=[true], spelt exactly so.        *)
Carries(t) == t.value = "true"

(* Faulty variant: whoever carries the tag is exempt.                      *)
EntryActive(r) == [on |-> r, status |-> "exempt"]

(* evaluate_exemption, whatever kind of resource it is.                    *)
Entry(r) == [on |-> r, status |-> Reason(tags[r], Now)]

(* Faulty variant: the token of a page without entries is not followed.    *)
GetPageOrStop ==
  /\ listing = "listing"
  /\ LET entries == {Entry(r) : r \in {q \in Pages[page + 1] : Carries(tags[q])}}
     IN  /\ found' = found \union entries
         /\ page' = page + 1
         /\ listing' = IF page' = Len(Pages) \/ page' = MaxPages \/ entries = {}
                       THEN "listed" ELSE "listing"
  /\ UNCHANGED <<tagVars, heard>>

(* get_resources: one page, and the token of the next if there is one.     *)
GetPage ==
  /\ listing = "listing"
  /\ LET entries == {Entry(r) : r \in {q \in Pages[page + 1] : Carries(tags[q])}}
     IN  /\ found' = found \union entries
         /\ page' = page + 1
         /\ listing' = IF page' = Len(Pages) \/ page' = MaxPages
                       THEN "listed" ELSE "listing"
  /\ UNCHANGED <<tagVars, heard>>

(* A ClientError: count None, and the entries so far are dropped.          *)
GetPageFails ==
  /\ listing = "listing"
  /\ listing' = "failed"
  /\ found' = {}
  /\ UNCHANGED <<tags, retags, page, heard>>

(* Any other error is raised (of a first page, see CallFails).             *)
GetPageRaises ==
  /\ listing = "listing"
  /\ listing' = "raised"
  /\ found' = {}
  /\ UNCHANGED <<tags, retags, page, heard>>

List == GetPage \/ GetPageFails \/ GetPageRaises

ForgetListing ==
  /\ listing \in {"listed", "failed", "raised"}
  /\ listing' = "idle"
  /\ page' = 0
  /\ found' = {}
  /\ heard' = [r \in Resources |-> {}]
  /\ UNCHANGED tagVars

Tagging == \E r \in Resources, t \in TagChoices : Retag(r, t)

-----------------------------------------------------------------------------

(* The engine's own decision: the S3 and EC2 rules pass over what its tags *)
(* exempt, but the security-group rule looks at no tag (sg_rules.py).      *)
PassedOver(r, t) == r \notin SecurityGroups /\ Exempt(t, Now)

(* What the listing calls active, unless it is a security group, the       *)
(* engine would have passed over at some moment since the call began,      *)
(* although tags change from page to page.  A tagged group is listed as    *)
(* exempt all the same and remediated nevertheless, so for groups the tool *)
(* "argues the opposite of what will happen" (resource_state.py).          *)
ActiveIsHonoured ==
  \A e \in found :
    e.status = "exempt" =>
      \/ e.on \in SecurityGroups
      \/ \E t \in heard[e.on] : PassedOver(e.on, t)

(* "A count of null means the lookup failed": a listing that comes with a  *)
(* count misses no resource whose tags exempt it all the while, whether or *)
(* not a page was empty, but for those beyond MAX_PAGES, and those whose   *)
(* tag is not spelt as the filter has it.                                  *)
ListingComplete ==
  listing = "listed" =>
    \A k \in DOMAIN Pages : k <= MaxPages =>
      \A r \in Pages[k] :
        (\A t \in heard[r] : Exempt(t, Now) /\ Carries(t)) =>
          [on |-> r, status |-> "exempt"] \in found

=============================================================================
