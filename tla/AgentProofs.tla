---------------------------- MODULE AgentProofs ----------------------------
(***************************************************************************)
(* What holds of the reader for any number of turns, calls, polls, lines,  *)
(* pages and resources.                                                    *)
(***************************************************************************)
EXTENDS Agent, DetectionProofs, MetricsProofs

-----------------------------------------------------------------------------
(* The loop.                                                               *)

(* While the calls of a message are made, the results are those of the     *)
(* calls before the current one; afterwards, of all.                       *)
Loop ==
  /\ calls \in Nat
  /\ at \in Nat \ {0}
  /\ results \in Seq([call : Nat, is : {"output", "failed"}])
  /\ \A i \in DOMAIN results : results[i].call = i
  /\ IF pc = "tools" THEN at <= calls /\ Len(results) + 1 = at
                     ELSE Len(results) = calls

(* The result of a call keeps the loop in order, whichever tool gave it.   *)
LEMMA ResultKeepsLoop ==
  ASSUME Loop, pc = "tools", NEW what \in {"output", "failed"}, Result(what)
  PROVE  Loop'
<1>1. /\ calls' = calls
      /\ results' = Append(results, [call |-> at, is |-> what])
  BY DEF Result
<1>2. /\ results' \in Seq([call : Nat, is : {"output", "failed"}])
      /\ Len(results') = at
      /\ \A i \in DOMAIN results' : results'[i].call = i
  BY <1>1 DEF Loop
<1>3. CASE at < calls
  BY <1>1, <1>2, <1>3 DEF Loop, Result, EndTurn
<1>4. CASE ~(at < calls)
  <2>1. at = calls
    BY <1>4 DEF Loop
  <2>2. at' = at /\ pc' # "tools"
    BY <1>4 DEF Result, EndTurn
  <2> QED
    BY <1>1, <1>2, <2>1, <2>2 DEF Loop
<1> QED
  BY <1>3, <1>4

LEMMA LoopKept == Loop /\ [Next]_vars => Loop'
<1> SUFFICES ASSUME Loop, [Next]_vars PROVE Loop'
  OBVIOUS
<1>1. CASE UNCHANGED loopVars
  BY <1>1 DEF Loop, loopVars
<1>2. ASSUME NEW how, Done(how), pc = "model" PROVE Loop'
  BY <1>2 DEF Loop, Done
<1>3. ASSUME NEW n \in 1 .. MaxCalls, CallTools(n) PROVE Loop'
  BY <1>3, AgentAssumption DEF Loop, CallTools
<1>4. CASE CallTool
  <2>1. pc = "tools"
    BY <1>4 DEF CallTool, CallFails, DescribeRules, ReadPosture, QueryLogs,
                ListExemptions, ReadState, Calling
  <2>2. UNCHANGED loopVars \/ \E what \in {"output", "failed"} : Result(what)
    BY <1>4 DEF CallTool, CallFails, DescribeRules, ReadPosture, QueryLogs,
                ListExemptions, ReadState
  <2> QED
    BY <1>1, <2>1, <2>2, ResultKeepsLoop
<1>5. UNCHANGED loopVars \/ (\E how : Done(how) /\ pc = "model")
        \/ (\E n \in 1 .. MaxCalls : CallTools(n)) \/ CallTool
  BY DEF vars, Next, RunAgent, World, Answer, Refuse, ModelRaises
<1> QED
  BY <1>1, <1>2, <1>3, <1>4, <1>5

(* Whatever the tools do and however many calls a message makes, each call *)
(* has its one result, in order, when the model is asked again.            *)
THEOREM CallsAnswered == Spec => []EveryCallAnswered
<1>1. Init => Loop
  BY DEF Init, Loop
<1>2. Loop => EveryCallAnswered
  BY DEF Loop, EveryCallAnswered
<1> QED
  BY <1>1, <1>2, LoopKept, PTL DEF Spec

-----------------------------------------------------------------------------
(* The log queries.                                                        *)

(* A limit that is not reached cuts nothing off.                           *)
LEMMA NotCutOff ==
  ASSUME NEW n \in Nat, NEW S \in SUBSET (1 .. n), Cardinality(Newest(S)) < Limit
  PROVE  Newest(S) = S
<1> DEFINE T == S \ Newest(S)
           After(m) == {j \in S : j > m}
<1>1. SUFFICES ASSUME T # {} PROVE FALSE
  BY DEF Newest
<1>2. IsFiniteSet(S)
  <2>1. IsFiniteSet(1 .. n)
    BY FS_Interval
  <2> QED
    BY <2>1, FS_Subset
<1>3. IsFiniteSet(T) /\ IsFiniteSet(Newest(S)) /\ T \in SUBSET Nat
  <2>1. T \in SUBSET S /\ Newest(S) \in SUBSET S
    BY DEF Newest
  <2>2. T \in SUBSET Nat
    <3>1. \A k \in 1 .. n : k \in Nat
      OBVIOUS
    <3> QED
      BY <3>1
  <2> HIDE DEF T
  <2> QED
    BY <1>2, <2>1, <2>2, FS_Subset
<1>4. PICK m \in T : \A k \in T : k <= m
  BY <1>1, <1>3, LastOf
<1>5. ~ (Cardinality(After(m)) < Limit)
  BY <1>4 DEF Newest
<1>6. After(m) \subseteq Newest(S)
  <2>1. SUFFICES ASSUME NEW j \in S, j > m, j \in T PROVE FALSE
    OBVIOUS
  <2>2. j <= m
    BY <1>4, <2>1
  <2> QED
    BY <2>1, <2>2
<1>7. /\ Cardinality(After(m)) <= Cardinality(Newest(S))
      /\ Cardinality(After(m)) \in Nat
      /\ Cardinality(Newest(S)) \in Nat
  BY <1>3, <1>6, FS_Subset, FS_CardinalityType
<1> QED
  BY <1>5, <1>7, QueryAssumption

(* An answer that is not cut off has what the log group had.               *)
Whole(it) ==
  it.status = "Complete" /\ Cardinality(it.records) < Limit
    => asked.had \subseteq it.records

Lines == lines \in Seq(Subjects) /\ ingested \subseteq DOMAIN lines

(* What the log group had when it was asked, it has.                       *)
Question ==
  /\ asked.end \in Nat /\ asked.end <= Len(lines)
  /\ asked.on \in Subjects \union {"all"}
  /\ \A k \in asked.had : /\ k \in ingested /\ k <= asked.end
                          /\ asked.on = "all" \/ lines[k] = asked.on

(* Outside a query the service has none.                                   *)
Service ==
  /\ server = [status |-> server.status, records |-> server.records]
  /\ query # "polling" => server.status = "none"
  /\ Whole(server)

Answering ==
  query = "answered" =>
    /\ Whole(answer)
    /\ answer.warning => \/ asked.had = {}
                         \/ answer.status = "Complete" /\ answer.records = {}

Querying == Lines /\ Question /\ Service /\ Answering

(* Lines the log group had on the resource match the query.                *)
LEMMA HadMatches ==
  ASSUME Querying
  PROVE  asked.had \subseteq Matching(asked) \intersect ingested
<1> SUFFICES ASSUME NEW k \in asked.had PROVE k \in Matching(asked) /\ k \in ingested
  OBVIOUS
<1>1. /\ k \in ingested /\ k \in DOMAIN lines /\ k <= asked.end
      /\ asked.on = "all" \/ lines[k] = asked.on
  BY DEF Querying, Lines, Question
<1>2. CASE asked.on = "all"
  BY <1>1, <1>2 DEF Matching
<1>3. CASE lines[k] = asked.on
  <2>1. lines[k] \in Subjects
    BY <1>1 DEF Querying, Lines
  <2> QED
    BY <1>1, <1>3, <2>1, QueryAssumption DEF Matching
<1> QED
  BY <1>1, <1>2, <1>3

(* What the service completes with is whole.                               *)
LEMMA CompletionWhole ==
  ASSUME Querying,
         Cardinality(Newest(Matching(asked) \intersect ingested)) < Limit
  PROVE  asked.had \subseteq Newest(Matching(asked) \intersect ingested)
<1>1. Len(lines) \in Nat /\ Matching(asked) \intersect ingested \in SUBSET (1 .. Len(lines))
  BY DEF Querying, Lines, Matching
<1> QED
  BY <1>1, NotCutOff, HadMatches

(* Lines are added and reach the log group; the question stays.            *)
LEMMA LinesGrow ==
  ASSUME Lines, Question, UNCHANGED asked,
         \/ \E r \in Subjects : lines' = Append(lines, r) /\ UNCHANGED ingested
         \/ \E k \in DOMAIN lines : ingested' = ingested \union {k} /\ UNCHANGED lines
         \/ UNCHANGED logVars
  PROVE  Lines' /\ Question'
<1>1. /\ lines' \in Seq(Subjects) /\ Len(lines) <= Len(lines')
      /\ \A k \in DOMAIN lines : k \in DOMAIN lines' /\ lines'[k] = lines[k]
      /\ ingested \subseteq ingested' /\ ingested' \subseteq DOMAIN lines'
  BY DEF Lines, logVars
<1> QED
  BY <1>1 DEF Lines, Question

(* The tool is left with an answer or without, and the service with none.  *)
LEMMA QueryLeft ==
  ASSUME Querying, UNCHANGED <<lines, ingested, asked>>, Leave,
         query' = "answered" => Answering'
  PROVE  Querying'
<1>1. Lines' /\ Question'
  BY LinesGrow DEF Querying, logVars
<1>2. Service'
  BY DEF Leave, NoServer, Service, Whole
<1>3. Answering'
  BY DEF Answering
<1> QED
  BY <1>1, <1>2, <1>3 DEF Querying

LEMMA ReturnKeeps ==
  ASSUME Querying, NEW status, NEW records, Return(status, records),
         status = "Complete" /\ Cardinality(records) < Limit => asked.had \subseteq records
  PROVE  Querying'
<1>1. /\ answer'.status = status /\ answer'.records = records
      /\ answer'.warning => status = "Complete" /\ records = {}
  BY DEF Return
<1>2. Answering'
  BY <1>1 DEF Return, Answering, Whole
<1> QED
  BY <1>2, QueryLeft DEF Return, logVars

LEMMA QueryingKept == Querying /\ [Next]_vars => Querying'
<1> SUFFICES ASSUME Querying, [Next]_vars PROVE Querying'
  OBVIOUS
<1> USE DEF logVars, queryVars
<1>1. CASE UNCHANGED <<logVars, queryVars>>
  BY <1>1 DEF Querying, Lines, Question, Service, Answering, Whole
<1>2. ASSUME \/ \E r \in Subjects : Log(r)
             \/ \E k \in DOMAIN lines : Ingest(k)
      PROVE  Querying'
  <2>1. Lines' /\ Question' /\ UNCHANGED queryVars
    BY <1>2, LinesGrow DEF Querying, Log, Ingest
  <2> QED
    BY <2>1 DEF Querying, Service, Answering, Whole
<1>3. CASE Work
  <2>1. Lines' /\ Question' /\ UNCHANGED <<query, asked, answer>> /\ server.status = "Running"
    BY <1>3, LinesGrow DEF Querying, Work, Scan, Complete, GiveUp
  <2>2. Answering'
    BY <2>1 DEF Querying, Answering, Whole
  <2>3. CASE Scan \/ GiveUp
    <3>1. /\ server' = [status |-> server'.status, records |-> server'.records]
          /\ server'.status # "Complete"
          /\ query = "polling"
      BY <2>3 DEF Scan, GiveUp, Querying, Service
    <3> QED
      BY <2>1, <2>2, <3>1 DEF Querying, Service, Whole
  <2>4. CASE Complete
    <3> DEFINE all == Newest(Matching(asked) \intersect ingested)
    <3>1. server' = [status |-> "Complete", records |-> all]
      BY <2>4 DEF Complete
    <3>2. Cardinality(all) < Limit => asked.had \subseteq all
      BY CompletionWhole
    <3>3. query = "polling"
      BY <2>4 DEF Complete, Querying, Service
    <3> HIDE DEF all
    <3> QED
      BY <2>1, <2>2, <3>1, <3>2, <3>3 DEF Querying, Service, Whole
  <2> QED
    BY <1>3, <2>3, <2>4 DEF Work
<1>4. CASE Ask
  <2>1. PICK how \in {"search", "history"}, r \in Subjects \union {"all"} :
          StartQuery(how, r) \/ MissLogGroup(how, r)
    BY <1>4 DEF Ask
  <2>2. CASE StartQuery(how, r)
    <3>1. Lines' /\ Question'
      BY <2>2 DEF StartQuery, Querying, Lines, Question
    <3> QED
      BY <2>2, <3>1 DEF StartQuery, Querying, Service, Answering, Whole
  <2>3. CASE MissLogGroup(how, r)
    <3>1. Lines' /\ Question'
      BY <2>3 DEF MissLogGroup, Querying, Lines, Question
    <3> QED
      BY <2>3, <3>1 DEF MissLogGroup, Querying, Service, Answering, Whole
  <2> QED
    BY <2>1, <2>2, <2>3
<1>5. CASE Answered
  BY <1>5, ReturnKeeps DEF Answered, Querying, Service, Whole
<1>6. CASE Failed
  BY <1>6, ReturnKeeps DEF Failed
<1>7. CASE Poll
  <2>1. CASE Return("Timeout", {})
    BY <2>1, ReturnKeeps
  <2>2. CASE Sleep
    BY <2>2 DEF Sleep, Querying, Lines, Question, Service, Answering, Whole
  <2> QED
    BY <1>7, <2>1, <2>2 DEF Poll
<1>8. CASE Raise
  BY <1>8, QueryLeft DEF Raise
<1>9. CASE ForgetQuery
  BY <1>9 DEF ForgetQuery, Anything, Querying, Lines, Question, Service, Answering, Whole
<1>10. CASE QueryLogs
  BY <1>4, <1>5, <1>6, <1>7, <1>8, <1>9, <1>10 DEF QueryLogs, Query
<1>11. CASE World
  BY <1>1, <1>2, <1>3, <1>11 DEF World, Logging
<1>12. CASE RunAgent /\ ~ QueryLogs
  BY <1>1, <1>12 DEF RunAgent, Answer, Refuse, ModelRaises, Done, CallTools, CallTool,
     CallFails, DescribeRules, ReadPosture, ListExemptions, ReadState, toolVars
<1>13. CASE UNCHANGED vars
  BY <1>1, <1>13 DEF vars, toolVars
<1> QED
  BY <1>10, <1>11, <1>12, <1>13 DEF Next

LEMMA QueryingAlways == Spec => []Querying
<1>1. Init => Querying
  BY DEF Init, LogInit, Anything, NoServer, Querying, Lines, Question, Service,
     Answering, Whole
<1> QED
  BY <1>1, QueryingKept, PTL DEF Spec

(* However the query, the engine's logging and ingestion overlap, and      *)
(* whatever the limit and the polls, an answer that is not cut off is      *)
(* complete.                                                               *)
THEOREM CompleteAnswersAreComplete == Spec => []CompleteMeansAll
<1>1. Querying => CompleteMeansAll
  BY DEF Querying, Answering, Whole, CompleteMeansAll
<1> QED
  BY <1>1, QueryingAlways, PTL

(* Nothing is said never to have been logged about that was.               *)
THEOREM NeverLoggedMeansNever == Spec => []NeverLoggedIsTrue
<1>1. Cardinality({}) < Limit
  BY FS_EmptySet, QueryAssumption
<1>2. Querying => NeverLoggedIsTrue
  BY <1>1 DEF Querying, Answering, Whole, NeverLoggedIsTrue
<1> QED
  BY <1>2, QueryingAlways, PTL

-----------------------------------------------------------------------------
(* The exemption listing.                                                  *)

(* While the call runs, the tags a resource has are among those it had.    *)
Heard ==
  /\ tags \in [Resources -> TagChoices]
  /\ heard \in [Resources -> SUBSET TagChoices]
  /\ listing = "listing" => \A r \in Resources : tags[r] \in heard[r]

(* What the pages read so far should have brought.                         *)
PagesRead ==
  /\ page \in Nat
  /\ listing = "idle" => page = 0 /\ found = {}
  /\ listing \in {"failed", "raised"} => found = {}
  /\ listing = "listing" => page < Len(Pages) /\ page < MaxPages
  /\ listing = "listed" => page = Len(Pages) \/ page = MaxPages
  /\ listing \in {"listing", "listed"} =>
       \A k \in DOMAIN Pages : k <= page =>
         \A r \in Pages[k] :
           (\A t \in heard[r] : Exempt(t, Now) /\ Carries(t)) =>
             [on |-> r, status |-> "exempt"] \in found

Witnessed ==
  \A e \in found :
    /\ e.on \in Resources
    /\ e.status = "exempt" => \E t \in heard[e.on] : Exempt(t, Now)

Listing == Heard /\ PagesRead /\ Witnessed

LEMMA PageOf ==
  ASSUME NEW k \in DOMAIN Pages
  PROVE  Pages[k] \subseteq Resources
  BY DEF Resources

(* A page brings the entries of the tags as they are when it is read.      *)
LEMMA PageKeepsListing == Listing /\ GetPage => Listing'
<1> SUFFICES ASSUME Listing, GetPage PROVE Listing'
  OBVIOUS
<1> DEFINE entries == {Entry(r) : r \in {q \in Pages[page + 1] : Carries(tags[q])}}
<1>1. /\ listing = "listing" /\ page' = page + 1 /\ found' = found \union entries
      /\ listing' = IF page' = Len(Pages) \/ page' = MaxPages THEN "listed" ELSE "listing"
      /\ tags' = tags /\ heard' = heard
  BY DEF GetPage, tagVars
<1>2. Heard'
  BY <1>1 DEF Listing, Heard
<1>3. /\ page \in Nat /\ page + 1 \in DOMAIN Pages /\ page < MaxPages
      /\ Pages[page + 1] \subseteq Resources
      /\ Len(Pages) \in Nat /\ MaxPages \in Nat
  BY <1>1, PageOf, ListingAssumption DEF Listing, PagesRead
<1>4. ASSUME NEW e \in entries
      PROVE  /\ e.on \in Resources
             /\ e.status = "exempt" => \E t \in heard[e.on] : Exempt(t, Now)
  <2>1. PICK r \in Pages[page + 1] : e = Entry(r)
    OBVIOUS
  <2>2. r \in Resources /\ tags[r] \in heard[r] /\ e.on = r
    BY <1>1, <1>3, <2>1 DEF Entry, Listing, Heard
  <2>3. e.status = "exempt" => Exempt(tags[r], Now)
    BY <2>1 DEF Entry, Exempt
  <2> QED
    BY <2>2, <2>3
<1>5. Witnessed'
  BY <1>1, <1>4 DEF Listing, Witnessed
<1>6. ASSUME NEW r \in Pages[page + 1],
             \A t \in heard[r] : Exempt(t, Now) /\ Carries(t)
      PROVE  [on |-> r, status |-> "exempt"] \in entries
  <2>1. Exempt(tags[r], Now) /\ Carries(tags[r])
    BY <1>1, <1>3, <1>6 DEF Listing, Heard
  <2>2. Entry(r) = [on |-> r, status |-> "exempt"]
    BY <2>1 DEF Entry, Exempt
  <2> QED
    BY <2>1, <2>2
<1>7. ASSUME NEW k \in DOMAIN Pages, k <= page', NEW r \in Pages[k],
             \A t \in heard[r] : Exempt(t, Now) /\ Carries(t)
      PROVE  [on |-> r, status |-> "exempt"] \in found'
  <2>1. CASE k <= page
    BY <1>1, <1>7, <2>1 DEF Listing, PagesRead
  <2>2. CASE ~(k <= page)
    <3>1. k = page + 1
      BY <1>1, <1>3, <1>7, <2>2, ListingAssumption
    <3> QED
      BY <1>1, <1>6, <1>7, <3>1
  <2> QED
    BY <2>1, <2>2
<1>8. PagesRead'
  <2>1. page' \in Nat /\ page' <= Len(Pages) /\ page' <= MaxPages
    BY <1>1, <1>3, ListingAssumption
  <2> HIDE DEF entries
  <2> QED
    BY <1>1, <1>3, <1>7, <2>1 DEF PagesRead
<1> QED
  BY <1>2, <1>5, <1>8 DEF Listing

LEMMA ListingKept == Listing /\ [Next]_vars => Listing'
<1> SUFFICES ASSUME Listing, [Next]_vars PROVE Listing'
  OBVIOUS
<1> USE DEF tagVars, listingVars
<1>1. CASE UNCHANGED <<tagVars, listingVars>>
  BY <1>1 DEF Listing, Heard, PagesRead, Witnessed
<1>2. ASSUME NEW r \in Resources, NEW t \in TagChoices, Retag(r, t) PROVE Listing'
  <2>1. /\ tags' \in [Resources -> TagChoices] /\ heard' \in [Resources -> SUBSET TagChoices]
        /\ \A q \in Resources : heard[q] \subseteq heard'[q]
        /\ UNCHANGED <<listing, page, found>>
    BY <1>2 DEF Retag, Listing, Heard
  <2>2. Heard'
    BY <1>2, <2>1 DEF Retag, Listing, Heard
  <2>3. PagesRead'
    <3>1. \A k \in DOMAIN Pages : Pages[k] \subseteq Resources
      BY PageOf
    <3> QED
      BY <2>1, <3>1 DEF Listing, PagesRead
  <2>4. Witnessed'
    BY <2>1 DEF Listing, Witnessed
  <2> QED
    BY <2>2, <2>3, <2>4 DEF Listing
<1>3. CASE Begin
  <2>1. Heard'
    BY <1>3 DEF Begin, Listing, Heard
  <2>2. PagesRead'
    <3>1. page = 0 /\ page' = 0 /\ found' = {} /\ listing' = "listing"
      BY <1>3 DEF Begin, Listing, PagesRead
    <3>2. \A k \in DOMAIN Pages : ~(k <= 0)
      BY ListingAssumption
    <3>3. Len(Pages) \in Nat \ {0} /\ MaxPages \in Nat \ {0}
      BY ListingAssumption
    <3> QED
      BY <3>1, <3>2, <3>3 DEF PagesRead
  <2>3. Witnessed'
    BY <1>3 DEF Begin, Listing, PagesRead, Witnessed
  <2> QED
    BY <2>1, <2>2, <2>3 DEF Listing
<1>4. CASE GetPageFails \/ GetPageRaises
  BY <1>4 DEF GetPageFails, GetPageRaises, Listing, Heard, PagesRead, Witnessed
<1>5. CASE ForgetListing
  BY <1>5 DEF ForgetListing, Listing, Heard, PagesRead, Witnessed
<1>6. CASE ListExemptions
  BY <1>3, <1>4, <1>5, <1>6, PageKeepsListing DEF ListExemptions, List
<1>7. CASE World
  BY <1>1, <1>2, <1>7 DEF World, Tagging
<1>8. CASE RunAgent /\ ~ ListExemptions
  BY <1>1, <1>8 DEF RunAgent, Answer, Refuse, ModelRaises, Done, CallTools, CallTool,
     CallFails, DescribeRules, ReadPosture, QueryLogs, ReadState, toolVars
<1>9. CASE UNCHANGED vars
  BY <1>1, <1>9 DEF vars, toolVars
<1> QED
  BY <1>6, <1>7, <1>8, <1>9 DEF Next

LEMMA ListingAlways == Spec => []Listing
<1>1. Init => Listing
  BY ListingAssumption DEF Init, ListingInit, Listing, Heard, PagesRead, Witnessed
<1> QED
  BY <1>1, ListingKept, PTL DEF Spec

(* However tags change between two pages, what is listed as active, unless *)
(* it is a security group, the engine would have passed over at some       *)
(* moment of the call.                                                     *)
THEOREM ActiveAreHonoured == Spec => []ActiveIsHonoured
<1>1. Listing => ActiveIsHonoured
  BY DEF Listing, Witnessed, ActiveIsHonoured, PassedOver
<1> QED
  BY <1>1, ListingAlways, PTL

(* However many pages there are, a listing misses nothing up to MAX_PAGES. *)
THEOREM ListingsAreComplete == Spec => []ListingComplete
<1>1. Listing => ListingComplete
  BY ListingAssumption DEF Listing, PagesRead, ListingComplete
<1> QED
  BY <1>1, ListingAlways, PTL

-----------------------------------------------------------------------------
(* The state of a resource.                                                *)

(* What the calls told, some state of the bucket during the call bears out.*)
BlockSeen ==
  known.block # "unread" => \E b \in seen : b.exists /\ b.block = known.block
AlgorithmSeen ==
  known.algorithm # "unread" =>
    \E b \in seen : b.exists /\ (b.kms <=> known.algorithm = "mandated")

BucketRead ==
  resource.kind = "bucket" =>
    /\ reading \in {"idle", "encryption", "tagging", "told", "raised"}
    /\ reading \in {"encryption", "tagging"} =>
         /\ known = [block |-> known.block, algorithm |-> known.algorithm]
         /\ resource \in seen
         /\ BlockSeen
    /\ reading = "tagging" =>
         AlgorithmSeen /\ known.algorithm \in {"mandated", "another", "unread"}
    /\ BucketVerdictWitnessed

LEMMA BucketReadKept == BucketRead /\ [Next]_vars => BucketRead'
<1> SUFFICES ASSUME BucketRead, [Next]_vars PROVE BucketRead'
  OBVIOUS
<1> USE DEF readerVars, resourceVars, stateVars, BlockSeen, AlgorithmSeen
<1>1. CASE UNCHANGED stateVars
  BY <1>1 DEF BucketRead, BucketVerdictWitnessed
<1>2. ASSUME NEW r, Change(r) PROVE BucketRead'
  <2>1. SUFFICES ASSUME resource.kind = "bucket" PROVE BucketRead'
    BY <1>2 DEF Change, CanBecome, BucketRead
  <2>2. /\ seen \subseteq seen' /\ UNCHANGED readerVars
        /\ reading \in {"encryption", "tagging"} => resource' \in seen'
    BY <1>2, <2>1 DEF Change
  <2> QED
    BY <2>1, <2>2 DEF BucketRead, BucketVerdictWitnessed
<1>3. ASSUME NEW item, Open(item) PROVE BucketRead'
  BY <1>3 DEF Open, Group, BucketRead
<1>4. CASE GetPublicAccessBlock
  <2>1. CASE resource.exists
    BY <1>4, <2>1 DEF GetPublicAccessBlock, At, First, Learn, BucketRead, BucketVerdictWitnessed
  <2>2. CASE ~ resource.exists
    BY <1>4, <2>2 DEF GetPublicAccessBlock, At, First, Tell, BucketRead, BucketVerdictWitnessed
  <2> QED
    BY <2>1, <2>2
<1>5. CASE GetPublicAccessBlockFails
  BY <1>5 DEF GetPublicAccessBlockFails, At, First, Learn, BucketRead, BucketVerdictWitnessed
<1>6. ASSUME NEW answered \in BOOLEAN, GetBucketEncryption(answered) PROVE BucketRead'
  <2>1. /\ resource.kind = "bucket" /\ reading = "encryption" /\ reading' = "tagging"
        /\ known' = [known EXCEPT !.algorithm =
                       IF ~ (answered /\ resource.exists) THEN "unread"
                       ELSE IF resource.kms THEN "mandated" ELSE "another"]
        /\ UNCHANGED <<resource, seen>>
    BY <1>6 DEF GetBucketEncryption, At, Learn
  <2>2. /\ known = [block |-> known.block, algorithm |-> known.algorithm]
        /\ resource \in seen /\ BlockSeen
    BY <2>1 DEF BucketRead
  <2>3. /\ known' = [block |-> known'.block, algorithm |-> known'.algorithm]
        /\ known'.block = known.block
        /\ known'.algorithm = IF ~ (answered /\ resource.exists) THEN "unread"
                              ELSE IF resource.kms THEN "mandated" ELSE "another"
    BY <2>1, <2>2
  <2>4. BlockSeen' /\ AlgorithmSeen'
    BY <2>1, <2>2, <2>3
  <2> QED
    BY <2>1, <2>2, <2>3, <2>4 DEF BucketRead, BucketVerdictWitnessed
<1>7. ASSUME NEW answered \in BOOLEAN, GetBucketTagging(answered) PROVE BucketRead'
  <2>1. /\ resource.kind = "bucket" /\ reading = "tagging" /\ reading' = "told"
        /\ told'.verdict = BucketVerdict(known.block, known.algorithm)
        /\ told'.exempt => resource.exists /\ resource.tags = "exempt"
        /\ UNCHANGED <<known, resource, seen>>
    BY <1>7 DEF GetBucketTagging, At, Tell
  <2>2. /\ resource \in seen /\ BlockSeen /\ AlgorithmSeen
        /\ known.algorithm \in {"mandated", "another", "unread"}
    BY <2>1 DEF BucketRead
  <2>3. /\ told'.verdict = "compliant" =>
             known.block = "on" /\ known.algorithm = "mandated"
        /\ told'.verdict = "violating" =>
             /\ known.block # "unread"
             /\ known.block # "on" \/ known.algorithm # "mandated"
        /\ told'.verdict = "undetermined" => known.block = "unread"
    BY <2>1 DEF BucketVerdict
  <2>4. BucketVerdictWitnessed'
    BY <2>1, <2>2, <2>3 DEF BucketVerdictWitnessed
  <2> QED
    BY <2>1, <2>4 DEF BucketRead
<1>8. CASE ReadRaises
  BY <1>8 DEF ReadRaises, BucketRead, BucketVerdictWitnessed
<1>9. CASE Read /\ resource.kind # "bucket"
  BY <1>9 DEF Read, GetPublicAccessBlock, GetPublicAccessBlockFails, GetBucketEncryption,
     GetBucketTagging, DescribeInstances, DescribeInstancesFails, DescribeVolumes,
     ReadRaises, DescribeSecurityGroups, DescribeSecurityGroupsFails,
     At, First, BucketRead
<1>10. CASE Read /\ resource.kind = "bucket"
  BY <1>4, <1>5, <1>6, <1>7, <1>10, <1>8 DEF Read, DescribeInstances,
     DescribeInstancesFails, DescribeVolumes, DescribeSecurityGroups,
     DescribeSecurityGroupsFails, At
<1>11. CASE ForgetState
  BY <1>11 DEF ForgetState, BucketRead, BucketVerdictWitnessed
<1>12. CASE ReadState
  BY <1>9, <1>10, <1>11, <1>12 DEF ReadState
<1>13. CASE World
  BY <1>1, <1>2, <1>3, <1>13 DEF World, Account
<1>14. CASE RunAgent /\ ~ ReadState
  BY <1>1, <1>14 DEF RunAgent, Answer, Refuse, ModelRaises, Done, CallTools, CallTool,
     CallFails, DescribeRules, ReadPosture, QueryLogs, ListExemptions, toolVars
<1>15. CASE UNCHANGED vars
  BY <1>1, <1>15 DEF vars, toolVars
<1> QED
  BY <1>12, <1>13, <1>14, <1>15 DEF Next

(* Whichever calls fail and however the bucket changes between them, the   *)
(* verdict on a bucket rests on what the bucket was during the call.       *)
THEOREM BucketVerdictsRestOnWhatWas == Spec => []BucketVerdictWitnessed
<1>1. Init => BucketRead
  BY DEF Init, ReaderInit, BucketRead, BucketVerdictWitnessed
<1>2. BucketRead => BucketVerdictWitnessed
  BY DEF BucketRead, BucketVerdictWitnessed
<1> QED
  BY <1>1, <1>2, BucketReadKept, PTL DEF Spec

(* Every mapping of an instance names its volume.                          *)
EveryMappingNamed ==
  \A r \in Buckets \union Launched :
    r.kind = "instance" =>
      /\ IsFiniteSet(r.mappings)
      /\ \A v \in r.mappings : Kind[v] \in {"encrypted", "unencrypted", "unsaid"}

(* Once every volume has been answered about, and EC2 says of each whether *)
(* it is encrypted, the two routines say the same.                         *)
LEMMA VolumesAgree ==
  ASSUME NEW d, IsFiniteSet(d.mappings), d.mappings # {},
         \A v \in d.mappings : Kind[v] \in {"encrypted", "unencrypted", "unsaid"},
         NEW volumes \in SUBSET d.mappings,
         Cardinality(volumes) = Cardinality(d.mappings),
         \A v \in volumes : Kind[v] # "unsaid"
  PROVE  LET engine == VolumeEncryptionStatus(d, d.mappings)
         IN  IF \A v \in volumes : Kind[v] = "encrypted"
             THEN engine = {"encrypted"} ELSE "unencrypted" \in engine
<1>1. volumes = d.mappings
  BY FS_Subset
<1>2. ~ \E v \in d.mappings : Kind[v] = "unnamed" \/ v \notin d.mappings
  OBVIOUS
<1>3. CASE \A v \in volumes : Kind[v] = "encrypted"
  BY <1>1, <1>2, <1>3 DEF VolumeEncryptionStatus
<1>4. CASE ~ \A v \in volumes : Kind[v] = "encrypted"
  <2>1. PICK v \in d.mappings : Kind[v] = "unencrypted"
    BY <1>1, <1>4
  <2>2. VolumeEncryptionStatus(d, d.mappings)
          = {k \in {"unencrypted", "undetermined"} :
               \E w \in d.mappings : Kind[w] = IF k = "undetermined" THEN "unsaid" ELSE k}
    BY <1>1, <1>2, <1>4 DEF VolumeEncryptionStatus
  <2> QED
    BY <1>4, <2>1, <2>2
<1> QED
  BY <1>3, <1>4

InstanceRead ==
  /\ resource \in Buckets \union Launched \union {Group}
  /\ resource.kind = "instance" =>
       /\ reading = "idle" => known = Nothing
       /\ reading = "volumes" => known # Nothing /\ known.mappings # {}
       /\ known # Nothing => /\ known \in Buckets \union Launched
                             /\ known.kind = "instance"
       /\ InstanceVerdictAgrees

LEMMA InstanceReadKept ==
  ASSUME EveryMappingNamed, InstanceRead, [Next]_vars
  PROVE  InstanceRead'
<1> USE DEF readerVars, resourceVars, stateVars
<1>1. CASE UNCHANGED stateVars
  BY <1>1 DEF InstanceRead, InstanceVerdictAgrees
<1>2. ASSUME NEW r \in Buckets \union Launched, Change(r) PROVE InstanceRead'
  BY <1>2 DEF Change, CanBecome, InstanceRead, InstanceVerdictAgrees
<1>3. ASSUME NEW item, Open(item) PROVE InstanceRead'
  BY <1>3 DEF Open, Group, InstanceRead
<1>4. CASE DescribeInstances
  <2>1. /\ resource.kind = "instance" /\ resource' = resource /\ known = Nothing
        /\ resource \in Buckets \union Launched
    BY <1>4 DEF DescribeInstances, At, First, InstanceRead, Group
  <2>2. CASE ~ resource.exists
    BY <1>4, <2>1, <2>2 DEF DescribeInstances, Tell, InstanceRead, InstanceVerdictAgrees
  <2>3. CASE resource.exists /\ resource.mappings # {}
    BY <1>4, <2>1, <2>3 DEF DescribeInstances, InstanceRead, InstanceVerdictAgrees, Nothing
  <2>4. CASE resource.exists /\ resource.mappings = {}
    <3>1. /\ known' = resource /\ reading' = "told"
          /\ told'.verdict = IF resource.life = "pending" THEN "undetermined" ELSE "compliant"
      BY <1>4, <2>4 DEF DescribeInstances, Tell
    <3>2. resource.life # "pending" =>
            VolumeEncryptionStatus(resource, resource.mappings) = {"encrypted"}
      BY <2>4 DEF VolumeEncryptionStatus
    <3> QED
      BY <2>1, <3>1, <3>2 DEF InstanceRead, InstanceVerdictAgrees
  <2> QED
    BY <2>2, <2>3, <2>4
<1>5. CASE DescribeInstancesFails
  BY <1>5 DEF DescribeInstancesFails, At, First, Tell, InstanceRead, InstanceVerdictAgrees
<1>6. CASE DescribeVolumes
  <2>1. /\ resource.kind = "instance" /\ reading' = "told" /\ known' = known
        /\ resource' = resource
        /\ known # Nothing /\ known.mappings # {} /\ known.kind = "instance"
        /\ known \in Buckets \union Launched
    BY <1>6 DEF DescribeVolumes, At, Tell, InstanceRead
  <2>2. /\ IsFiniteSet(known.mappings)
        /\ \A v \in known.mappings : Kind[v] \in {"encrypted", "unencrypted", "unsaid"}
    BY <2>1 DEF EveryMappingNamed
  <2>3. Named(known.mappings) = known.mappings
    BY <2>2 DEF Named
  <2>4. PICK volumes \in SUBSET known.mappings :
          told'.verdict = IF \/ Cardinality(volumes) # Cardinality(known.mappings)
                             \/ \E v \in volumes : Kind[v] = "unsaid"
                          THEN "undetermined"
                          ELSE IF \A v \in volumes : Kind[v] = "encrypted"
                          THEN "compliant" ELSE "violating"
    BY <1>6, <2>1, <2>3 DEF DescribeVolumes, Tell
  <2> DEFINE engine == VolumeEncryptionStatus(known, known.mappings)
  <2>5. /\ told'.verdict = "compliant" => engine = {"encrypted"}
        /\ told'.verdict = "violating" => "unencrypted" \in engine
    <3>1. CASE Cardinality(volumes) = Cardinality(known.mappings)
                 /\ \A v \in volumes : Kind[v] # "unsaid"
      BY <2>1, <2>2, <2>4, <3>1, VolumesAgree
    <3>2. CASE ~ (Cardinality(volumes) = Cardinality(known.mappings)
                    /\ \A v \in volumes : Kind[v] # "unsaid")
      BY <2>4, <3>2
    <3> QED
      BY <3>1, <3>2
  <2> QED
    BY <2>1, <2>5 DEF InstanceRead, InstanceVerdictAgrees
<1>7. CASE ReadRaises
  BY <1>7 DEF ReadRaises, InstanceRead, InstanceVerdictAgrees
<1>8. CASE Read /\ resource.kind # "instance"
  BY <1>8 DEF Read, GetPublicAccessBlock, GetPublicAccessBlockFails, GetBucketEncryption,
     GetBucketTagging, DescribeInstances, DescribeInstancesFails, DescribeVolumes,
     ReadRaises, DescribeSecurityGroups, DescribeSecurityGroupsFails,
     At, First, InstanceRead
<1>9. CASE Read /\ resource.kind = "instance"
  BY <1>4, <1>5, <1>6, <1>7, <1>9 DEF Read, GetPublicAccessBlock, GetPublicAccessBlockFails,
     GetBucketEncryption, GetBucketTagging, DescribeSecurityGroups,
     DescribeSecurityGroupsFails, At
<1>10. CASE ForgetState
  BY <1>10 DEF ForgetState, InstanceRead, InstanceVerdictAgrees
<1>11. CASE ReadState
  BY <1>8, <1>9, <1>10, <1>11 DEF ReadState
<1>12. CASE World
  BY <1>1, <1>2, <1>3, <1>12 DEF World, Account
<1>13. CASE RunAgent /\ ~ ReadState
  BY <1>1, <1>13 DEF RunAgent, Answer, Refuse, ModelRaises, Done, CallTools, CallTool,
     CallFails, DescribeRules, ReadPosture, QueryLogs, ListExemptions, toolVars
<1>14. CASE UNCHANGED vars
  BY <1>1, <1>14 DEF vars, toolVars
<1> QED
  BY <1>11, <1>12, <1>13, <1>14 DEF Next

(* When every mapping names its volume, the reader never calls an instance *)
(* compliant that the EC2 rule would not pass, nor violating one that it   *)
(* could not remediate.                                                    *)
THEOREM InstanceVerdictsAgree ==
  ASSUME EveryMappingNamed
  PROVE  Spec => []InstanceVerdictAgrees
<1>1. Init => InstanceRead
  BY DEF Init, ReaderInit, InstanceRead, InstanceVerdictAgrees, Untold
<1>2. InstanceRead => InstanceVerdictAgrees
  BY DEF InstanceRead, InstanceVerdictAgrees
<1>3. InstanceRead /\ [Next]_vars => InstanceRead'
  BY InstanceReadKept
<1> QED
  BY <1>1, <1>2, <1>3, PTL DEF Spec

-----------------------------------------------------------------------------
(* The rules of a group.                                                   *)

(* The reader judges the ports of a rule as the engine does.               *)
LEMMA OpenPortsAre ==
  ASSUME Requested, NEW held \in StoredRules(perms)
  PROVE  OpenPorts(held) = IF Filled(held).cidr \in OpenCidrs
                           THEN CoveredPortsOf(Filled(held)) ELSE {}
<1> DEFINE rule == Filled(held)
           range == [from |-> rule.from, to |-> rule.to]
<1>1. PICK item \in Items : held \in HeldOf(item)
  BY StoredRulesAre DEF Requested, StoredRules
<1>2. /\ held.protocol = item.protocol /\ rule.cidr = held.cidr
      /\ rule.protocol = held.protocol
  BY <1>1, PortsAreKept
<1>3. PICK c, f : held = Held(item, f, c)
  BY <1>1 DEF HeldOf
<1>4. range.from = rule.from /\ range.to = rule.to
  OBVIOUS
<1>5. CASE held.protocol = AllTraffic
  <2>1. rule.from = Absent
    BY <1>2, <1>3, <1>5 DEF Filled, Held, AllTraffic
  <2> HIDE DEF range, rule
  <2>2. \A p : CoversPort(range, p)
    BY <1>4, <2>1 DEF CoversPort
  <2>3. {p \in RestrictedPorts : CoversPort(range, p)} = RestrictedPorts
    BY <2>2
  <2> QED
    BY <1>2, <1>5, <2>3 DEF OpenPorts, CoveredPortsOf, range, rule
<1>6. CASE held.protocol # AllTraffic
  <2>1. /\ held.from = item.from /\ held.to = item.to
        /\ item.protocol # AllTraffic /\ item.protocol # "-1"
    BY <1>2, <1>3, <1>6 DEF Held, AllTraffic
  <2>2. /\ rule.from = IF held.from = Absent THEN 0 ELSE held.from
        /\ rule.to = IF held.to = Absent THEN 65535 ELSE held.to
        /\ rule.from # Absent
    <3>1. CASE item.from = Absent
      <4>1. item.to = Absent
        BY <2>1, <3>1, RangesAre DEF Absent
      <4>2. rule = [protocol |-> item.protocol, from |-> 0, to |-> 65535,
                    family |-> f, cidr |-> c]
        BY <1>3, <2>1, <3>1, FillingIs
      <4>3. rule.from = 0 /\ rule.to = 65535
        BY <4>2
      <4> QED
        BY <2>1, <3>1, <4>1, <4>3 DEF Absent
    <3>2. CASE item.from # Absent
      <4>1. rule = held
        BY <2>1, <3>2 DEF Filled
      <4>2. item.to # Absent
        BY <2>1, <3>2, RangesAre DEF Absent
      <4> QED
        BY <2>1, <3>2, <4>1, <4>2
    <3> QED
      BY <3>1, <3>2
  <2> DEFINE low == IF held.from = Absent THEN 0 ELSE held.from
             high == IF held.to = Absent THEN 65535 ELSE held.to
  <2>3. OpenPorts(held) = IF held.cidr \notin OpenCidrs THEN {}
                          ELSE {p \in RestrictedPorts : low <= p /\ p <= high}
    BY <1>6 DEF OpenPorts
  <2>4. rule.from = low /\ rule.to = high
    BY <2>2
  <2> HIDE DEF low, high, rule, range
  <2>5. \A p : CoversPort(range, p) <=> low <= p /\ p <= high
    BY <1>4, <2>2, <2>4 DEF CoversPort
  <2>6. {p \in RestrictedPorts : low <= p /\ p <= high}
          = {p \in RestrictedPorts : CoversPort(range, p)}
    BY <2>5
  <2> QED
    BY <1>2, <2>3, <2>6 DEF CoveredPortsOf, range, rule
<1> QED
  BY <1>5, <1>6

(* The ports the reader finds open in a group are those for which the      *)
(* engine revokes rules: the two routines share no line.                   *)
LEMMA RequestedGroupAgrees ==
  ASSUME Requested
  PROVE  GroupVerdictAgrees
<1> DEFINE groups == GroupByRule(IsPublicIngress(perms))
           Reported == UNION {ToSet(groups[i].ports) : i \in DOMAIN groups}
<1>1. /\ \A i \in DOMAIN groups :
           /\ RevokeRequest(groups[i].rule) \in FlaggedRules(perms)
           /\ ToSet(groups[i].ports) = CoveredPortsOf(RevokeRequest(groups[i].rule))
      /\ \A rule \in FlaggedRules(perms) :
           \E i \in DOMAIN groups : RevokeRequest(groups[i].rule) = rule
  <2> HIDE DEF groups
  <2> QED
    BY GroupsAreFlaggedRules DEF Requested, groups
<1> HIDE DEF groups
<1>2. AskedRules(perms) = {Filled(held) : held \in StoredRules(perms)}
  BY StoredRulesAre DEF Requested
<1>3. ASSUME NEW held \in StoredRules(perms), NEW p \in OpenPorts(held)
      PROVE  p \in Reported
  <2>1. Filled(held).cidr \in OpenCidrs /\ p \in CoveredPortsOf(Filled(held))
    BY <1>3, OpenPortsAre
  <2>2. Filled(held) \in FlaggedRules(perms)
    BY <1>2, <2>1 DEF FlaggedRules
  <2>3. PICK i \in DOMAIN groups : RevokeRequest(groups[i].rule) = Filled(held)
    BY <1>1, <2>2
  <2> QED
    BY <1>1, <2>1, <2>3
<1>4. ASSUME NEW i \in DOMAIN groups, NEW p \in ToSet(groups[i].ports)
      PROVE  p \in GroupPorts
  <2> DEFINE rule == RevokeRequest(groups[i].rule)
  <2>1. rule \in FlaggedRules(perms) /\ p \in CoveredPortsOf(rule)
    BY <1>1, <1>4
  <2> HIDE DEF rule
  <2>2. PICK held \in StoredRules(perms) : rule = Filled(held)
    BY <1>2, <2>1 DEF FlaggedRules
  <2>3. p \in OpenPorts(held)
    BY <2>1, <2>2, OpenPortsAre DEF FlaggedRules
  <2> QED
    BY <2>3 DEF GroupPorts
<1>5. GroupPorts = Reported
  BY <1>3, <1>4 DEF GroupPorts
<1> QED
  BY <1>5 DEF GroupVerdictAgrees, groups

(* Rules come into the group one item at a time, and only so.              *)
LEMMA RequestedKept == Requested /\ [Next]_vars => Requested'
<1> SUFFICES ASSUME Requested, [Next]_vars PROVE Requested'
  OBVIOUS
<1> USE DEF readerVars, resourceVars, stateVars
<1>1. CASE UNCHANGED perms
  BY <1>1 DEF Requested
<1>2. ASSUME NEW item \in Items, Open(item) PROVE Requested'
  BY <1>2, AddItemRequested DEF Open
<1>3. CASE ReadState
  BY <1>1, <1>3 DEF ReadState, ForgetState, Read, GetPublicAccessBlock,
     GetPublicAccessBlockFails, GetBucketEncryption, GetBucketTagging,
     DescribeInstances, DescribeInstancesFails, DescribeVolumes,
     ReadRaises, DescribeSecurityGroups, DescribeSecurityGroupsFails, First
<1>4. CASE World
  BY <1>1, <1>2, <1>4 DEF World, Account, Change
<1>5. CASE RunAgent /\ ~ ReadState
  BY <1>1, <1>5 DEF RunAgent, Answer, Refuse, ModelRaises, Done, CallTools, CallTool,
     CallFails, DescribeRules, ReadPosture, QueryLogs, ListExemptions, toolVars
<1>6. CASE UNCHANGED vars
  BY <1>1, <1>6 DEF vars, toolVars
<1> QED
  BY <1>3, <1>4, <1>5, <1>6 DEF Next

LEMMA RequestedAlways == Spec => []Requested
<1>1. Init => Requested
  <2>1. Init => perms = <<>>
    BY DEF Init, ReaderInit
  <2>2. <<>> \in Seq(Items) /\ NoRuleTwice(<<>>)
    BY EmptySeq DEF NoRuleTwice
  <2> QED
    BY <2>1, <2>2 DEF Requested
<1> QED
  BY <1>1, RequestedKept, PTL DEF Spec

(* Of any request EC2 granted, however many items and cidrs it has, the    *)
(* engine revokes each rule through which the internet reaches SSH or RDP, *)
(* in the shape EC2 holds it, and once; what else it asks EC2 to revoke is *)
(* of a protocol without ports, its range made up where it has none.       *)
THEOREM ExposedAreRevoked == Spec => []ExposedRulesAreRevoked
<1>1. Requested => ExposedRulesAreRevoked
  BY RequestedRevokesTheExposed
<1> QED
  BY <1>1, RequestedAlways, PTL

(* ... and its report of a rule names every port the rule exposes, once.   *)
THEOREM ExposedPortsAreReported == Spec => []EveryExposedPortReported
<1>1. Requested => EveryExposedPortReported
  BY RequestedReportsEveryPort
<1> QED
  BY <1>1, RequestedAlways, PTL

(* Whatever rules a group holds, the reader's routine and the engine's     *)
(* find the same ports open.                                               *)
THEOREM GroupVerdictsAgree == Spec => []GroupVerdictAgrees
<1>1. Requested => GroupVerdictAgrees
  BY RequestedGroupAgrees
<1> QED
  BY <1>1, RequestedAlways, PTL

-----------------------------------------------------------------------------
(* The posture.                                                            *)

LEMMA PublishedKept == Published /\ [Next]_vars => Published'
<1> SUFFICES ASSUME Published, [Next]_vars PROVE Published'
  OBVIOUS
<1>1. CASE UNCHANGED metricVars
  BY <1>1 DEF metricVars, Published
<1>2. CASE World
  BY <1>1, <1>2, PublishedNext DEF World
<1>3. CASE RunAgent
  BY <1>1, <1>3 DEF RunAgent, Answer, Refuse, ModelRaises, Done, CallTools, CallTool,
     CallFails, DescribeRules, ReadPosture, QueryLogs, ListExemptions, ReadState, toolVars
<1>4. CASE UNCHANGED vars
  BY <1>1, <1>4 DEF vars, toolVars
<1> QED
  BY <1>2, <1>3, <1>4 DEF Next

(* Whatever the engine counted, whatever was lost and whichever window is  *)
(* asked for, the posture shows each metric with all that was put in it,   *)
(* but for the two with a second dimension, and every finding with its     *)
(* outcome.                                                                *)
THEOREM PosturesCount == Spec => []PostureCounts
<1>1. Init => Published
  BY PublishedInit DEF Init
<1>2. Published => PostureCounts
  BY PostureOfThePublished
<1> QED
  BY <1>1, <1>2, PublishedKept, PTL DEF Spec

-----------------------------------------------------------------------------
(* The types.                                                              *)

LoopKinds ==
  /\ tool \in Tools
  /\ turn \in 1 .. MaxTurns
  /\ pc \in {"model", "tools", "done"}
  /\ calls \in 0 .. MaxCalls
  /\ at \in 1 .. MaxCalls
  /\ results \in Seq([call : 1 .. MaxCalls, is : {"output", "failed"}])
  /\ outcome \in {"none", "answer", "refused", "raised", "stopped early"}

(* A result leads to the next call or the next turn, of which there are    *)
(* enough.                                                                 *)
LEMMA ResultKeepsKinds ==
  ASSUME Loop, LoopKinds, pc = "tools", NEW what \in {"output", "failed"}, Result(what)
  PROVE  LoopKinds'
<1>1. /\ calls' = calls /\ tool' = tool
      /\ results' = Append(results, [call |-> at, is |-> what])
  BY DEF Result
<1>2. results' \in Seq([call : 1 .. MaxCalls, is : {"output", "failed"}])
  <2>1. [call |-> at, is |-> what] \in [call : 1 .. MaxCalls, is : {"output", "failed"}]
    BY DEF LoopKinds
  <2> QED
    BY <1>1, <2>1, AppendProperties DEF LoopKinds
<1>3. CASE at < calls
  <2>1. at' = at + 1 /\ UNCHANGED <<turn, pc, outcome>>
    BY <1>3 DEF Result, EndTurn
  <2>2. at + 1 \in 1 .. MaxCalls
    <3>1. at \in 1 .. MaxCalls /\ calls \in 0 .. MaxCalls
      BY DEF LoopKinds
    <3> QED
      BY <1>3, <3>1, AgentAssumption
  <2> QED
    BY <1>1, <1>2, <2>1, <2>2 DEF LoopKinds
<1>4. CASE ~ (at < calls) /\ turn = MaxTurns
  <2>1. at' = at /\ turn' = turn /\ pc' = "done" /\ outcome' = "stopped early"
    BY <1>4 DEF Result, EndTurn
  <2> QED
    BY <1>1, <1>2, <2>1 DEF LoopKinds
<1>5. CASE ~ (at < calls) /\ turn # MaxTurns
  <2>1. at' = at /\ turn' = turn + 1 /\ pc' = "model" /\ outcome' = outcome
    BY <1>5 DEF Result, EndTurn
  <2>2. turn + 1 \in 1 .. MaxTurns
    <3>1. turn \in 1 .. MaxTurns
      BY DEF LoopKinds
    <3> QED
      BY <1>5, <3>1, AgentAssumption
  <2> QED
    BY <1>1, <1>2, <2>1, <2>2 DEF LoopKinds
<1> QED
  BY <1>3, <1>4, <1>5

LEMMA LoopKindsKept == Loop /\ LoopKinds /\ [Next]_vars => LoopKinds'
<1> SUFFICES ASSUME Loop, LoopKinds, [Next]_vars PROVE LoopKinds'
  OBVIOUS
<1>1. CASE UNCHANGED <<tool, loopVars>>
  BY <1>1 DEF LoopKinds, loopVars
<1>2. ASSUME NEW how \in {"answer", "refused", "raised"}, Done(how) PROVE LoopKinds'
  BY <1>2 DEF LoopKinds, Done
<1>3. ASSUME NEW n \in 1 .. MaxCalls, CallTools(n) PROVE LoopKinds'
  <2>1. n \in 0 .. MaxCalls /\ 1 \in 1 .. MaxCalls
    BY AgentAssumption
  <2>2. <<>> \in Seq([call : 1 .. MaxCalls, is : {"output", "failed"}])
    BY EmptySeq
  <2> QED
    BY <1>3, <2>1, <2>2 DEF LoopKinds, CallTools
<1>4. CASE CallTool
  <2>1. pc = "tools"
    BY <1>4 DEF CallTool, CallFails, DescribeRules, ReadPosture, QueryLogs,
                ListExemptions, ReadState, Calling
  <2>2. \/ UNCHANGED <<tool, loopVars>>
        \/ \E what \in {"output", "failed"} : Result(what)
    BY <1>4 DEF CallTool, CallFails, DescribeRules, ReadPosture, QueryLogs,
                ListExemptions, ReadState
  <2> QED
    BY <1>1, <2>1, <2>2, ResultKeepsKinds
<1>5. \/ UNCHANGED <<tool, loopVars>>
      \/ \E how \in {"answer", "refused", "raised"} : Done(how)
      \/ \E n \in 1 .. MaxCalls : CallTools(n)
      \/ CallTool
  BY DEF vars, Next, RunAgent, World, Answer, Refuse, ModelRaises
<1> QED
  BY <1>1, <1>2, <1>3, <1>4, <1>5

QueryKinds ==
  /\ query \in {"idle", "polling", "answered", "raised"}
  /\ polls \in 0 .. PollAttempts - 1
  /\ server.records \subseteq DOMAIN lines

(* A service that is asked hands out lines there are.                      *)
LEMMA QueryKindsKept == Querying /\ QueryKinds /\ [Next]_vars => QueryKinds'
<1> SUFFICES ASSUME Querying, QueryKinds, [Next]_vars PROVE QueryKinds'
  OBVIOUS
<1> USE DEF logVars, queryVars
<1>1. CASE UNCHANGED <<logVars, queryVars>>
  BY <1>1 DEF QueryKinds
<1>2. 0 \in 0 .. PollAttempts - 1
  BY QueryAssumption
<1>3. CASE Leave /\ UNCHANGED lines /\ query' \in {"answered", "raised"}
  BY <1>2, <1>3 DEF Leave, NoServer, QueryKinds
<1>4. ASSUME NEW status, NEW records, Return(status, records) PROVE QueryKinds'
  BY <1>3, <1>4 DEF Return
<1>5. ASSUME NEW r \in Subjects, Log(r) PROVE QueryKinds'
  <2>1. DOMAIN lines \subseteq DOMAIN lines'
    BY <1>5 DEF Log, Querying, Lines
  <2> QED
    BY <1>5, <2>1 DEF Log, QueryKinds
<1>6. ASSUME NEW k, Ingest(k) PROVE QueryKinds'
  BY <1>6 DEF Ingest, QueryKinds
<1>7. CASE Work
  <2>1. Newest(Matching(asked) \intersect ingested) \subseteq DOMAIN lines
    BY DEF Newest, Matching
  <2>2. server'.records \subseteq DOMAIN lines
    <3>1. server = [status |-> server.status, records |-> server.records]
      BY DEF Querying, Service
    <3>2. CASE Scan
      <4>1. PICK ks \in SUBSET Newest(Matching(asked) \intersect ingested) :
              server' = [server EXCEPT !.records = ks]
        BY <3>2 DEF Scan
      <4>2. server'.records = ks
        BY <3>1, <4>1
      <4> QED
        BY <2>1, <4>2
    <3>3. CASE Complete
      BY <2>1, <3>3 DEF Complete
    <3>4. CASE GiveUp
      <4>1. server'.records = server.records
        BY <3>1, <3>4 DEF GiveUp
      <4> QED
        BY <4>1 DEF QueryKinds
    <3> QED
      BY <1>7, <3>2, <3>3, <3>4 DEF Work
  <2> QED
    BY <1>7, <2>2 DEF Work, Scan, Complete, GiveUp, QueryKinds
<1>8. CASE Ask
  <2>1. PICK how \in {"search", "history"}, r \in Subjects \union {"all"} :
          StartQuery(how, r) \/ MissLogGroup(how, r)
    BY <1>8 DEF Ask
  <2> QED
    BY <2>1 DEF StartQuery, MissLogGroup, QueryKinds
<1>9. CASE Poll
  <2>1. CASE polls + 1 = PollAttempts
    BY <1>4, <1>9, <2>1 DEF Poll
  <2>2. CASE polls + 1 # PollAttempts
    <3>1. polls + 1 \in 0 .. PollAttempts - 1
      BY <2>2, QueryAssumption DEF QueryKinds
    <3>2. polls' = polls + 1 /\ UNCHANGED <<logVars, server, query>>
      BY <1>9, <2>2 DEF Poll, Sleep
    <3> QED
      BY <3>1, <3>2 DEF QueryKinds
  <2> QED
    BY <2>1, <2>2
<1>10. CASE Answered \/ Failed \/ Raise
  BY <1>3, <1>4, <1>10 DEF Answered, Failed, Raise
<1>11. CASE ForgetQuery
  BY <1>11 DEF ForgetQuery, QueryKinds
<1>12. CASE QueryLogs
  BY <1>8, <1>9, <1>10, <1>11, <1>12 DEF QueryLogs, Query
<1>13. CASE World
  BY <1>1, <1>5, <1>6, <1>7, <1>13 DEF World, Logging
<1>14. CASE RunAgent /\ ~ QueryLogs
  BY <1>1, <1>14 DEF RunAgent, Answer, Refuse, ModelRaises, Done, CallTools, CallTool,
     CallFails, DescribeRules, ReadPosture, ListExemptions, ReadState, toolVars
<1>15. CASE UNCHANGED vars
  BY <1>1, <1>15 DEF vars, toolVars
<1> QED
  BY <1>12, <1>13, <1>14, <1>15 DEF Next

ListingKinds ==
  /\ listing \in {"idle", "listing", "listed", "failed", "raised"}
  /\ page \in 0 .. MaxPages

LEMMA ListingKindsKept == Listing /\ ListingKinds /\ [Next]_vars => ListingKinds'
<1> SUFFICES ASSUME Listing, ListingKinds, [Next]_vars PROVE ListingKinds'
  OBVIOUS
<1> USE DEF tagVars, listingVars
<1>1. CASE UNCHANGED <<listing, page>>
  BY <1>1 DEF ListingKinds
<1>2. CASE GetPage
  <2>1. page + 1 \in 0 .. MaxPages
    BY <1>2, ListingAssumption DEF GetPage, Listing, PagesRead, ListingKinds
  <2>2. page' = page + 1 /\ listing' \in {"listed", "listing"}
    BY <1>2 DEF GetPage
  <2> QED
    BY <2>1, <2>2 DEF ListingKinds
<1>3. CASE Begin \/ GetPageFails \/ GetPageRaises \/ ForgetListing
  BY <1>3, ListingAssumption DEF Begin, GetPageFails, GetPageRaises, ForgetListing,
     ListingKinds
<1>4. CASE ListExemptions
  BY <1>2, <1>3, <1>4 DEF ListExemptions, List
<1>5. CASE World
  BY <1>1, <1>5 DEF World, Tagging, Retag
<1>6. CASE RunAgent /\ ~ ListExemptions
  BY <1>1, <1>6 DEF RunAgent, Answer, Refuse, ModelRaises, Done, CallTools, CallTool,
     CallFails, DescribeRules, ReadPosture, QueryLogs, ReadState, toolVars
<1>7. CASE UNCHANGED vars
  BY <1>1, <1>7 DEF vars, toolVars
<1> QED
  BY <1>4, <1>5, <1>6, <1>7 DEF Next

StateKinds ==
  /\ reading \in {"idle", "encryption", "tagging", "volumes", "told", "raised"}
  /\ told.verdict \in {"none", "compliant", "violating", "undetermined"}

LEMMA StateKindsKept == StateKinds /\ [Next]_vars => StateKinds'
<1> SUFFICES ASSUME StateKinds, [Next]_vars PROVE StateKinds'
  OBVIOUS
<1> USE DEF readerVars, resourceVars, stateVars
<1>1. CASE UNCHANGED readerVars
  BY <1>1 DEF StateKinds
<1>2. ASSUME NEW verdict \in {"compliant", "violating", "undetermined"}, NEW exempt,
             Tell(verdict, exempt)
      PROVE  StateKinds'
  BY <1>2 DEF Tell, StateKinds
<1>3. ASSUME NEW what, NEW call \in {"encryption", "tagging"}, Learn(what, call)
      PROVE  StateKinds'
  BY <1>3 DEF Learn, StateKinds
<1>4. CASE reading' \in {"volumes", "raised"} /\ UNCHANGED told
  BY <1>4 DEF StateKinds
<1>5. CASE GetPublicAccessBlock \/ GetPublicAccessBlockFails
  BY <1>2, <1>3, <1>5 DEF GetPublicAccessBlock, GetPublicAccessBlockFails
<1>6. ASSUME NEW answered \in BOOLEAN, GetBucketEncryption(answered) PROVE StateKinds'
  BY <1>3, <1>6 DEF GetBucketEncryption
<1>7. ASSUME NEW answered \in BOOLEAN, GetBucketTagging(answered) PROVE StateKinds'
  <2>1. BucketVerdict(known.block, known.algorithm) \in {"compliant", "violating", "undetermined"}
    BY DEF BucketVerdict
  <2> QED
    BY <1>2, <1>7, <2>1 DEF GetBucketTagging
<1>8. CASE DescribeInstances
  <2>1. CASE ~ resource.exists
    BY <1>2, <1>8, <2>1 DEF DescribeInstances
  <2>2. CASE resource.exists /\ resource.mappings = {}
    BY <1>2, <1>8, <2>2 DEF DescribeInstances
  <2>3. CASE resource.exists /\ resource.mappings # {}
    BY <1>4, <1>8, <2>3 DEF DescribeInstances
  <2> QED
    BY <2>1, <2>2, <2>3
<1>9. CASE DescribeInstancesFails \/ ReadRaises
  BY <1>2, <1>4, <1>9 DEF DescribeInstancesFails, ReadRaises
<1>10. CASE DescribeVolumes
  <2>1. PICK verdict, exempt :
          /\ verdict \in {"compliant", "violating", "undetermined"}
          /\ Tell(verdict, exempt)
    BY <1>10 DEF DescribeVolumes
  <2> QED
    BY <1>2, <2>1
<1>11. CASE DescribeSecurityGroups \/ DescribeSecurityGroupsFails
  BY <1>2, <1>11 DEF DescribeSecurityGroups, DescribeSecurityGroupsFails
<1>12. CASE ForgetState
  BY <1>12 DEF ForgetState, Untold, StateKinds
<1>13. CASE ReadState
  BY <1>5, <1>6, <1>7, <1>8, <1>9, <1>10, <1>11, <1>12, <1>13 DEF ReadState, Read
<1>14. CASE World
  BY <1>1, <1>14 DEF World, Account, Change, Open
<1>15. CASE RunAgent /\ ~ ReadState
  BY <1>1, <1>15 DEF RunAgent, Answer, Refuse, ModelRaises, Done, CallTools, CallTool,
     CallFails, DescribeRules, ReadPosture, QueryLogs, ListExemptions, toolVars
<1>16. CASE UNCHANGED vars
  BY <1>1, <1>16 DEF vars, toolVars
<1> QED
  BY <1>13, <1>14, <1>15, <1>16 DEF Next

(* Turns, calls, polls and pages stay within their limits, and a rule that *)
(* is revoked has a range of ports, or is for all traffic and has none.    *)
THEOREM TypeCorrect == Spec => []TypeOK
<1>1. Init => Loop /\ LoopKinds /\ QueryKinds /\ ListingKinds /\ StateKinds
  <2>1. ASSUME Init PROVE Loop
    BY <2>1 DEF Init, Loop
  <2>2. ASSUME Init PROVE LoopKinds
    BY <2>2, AgentAssumption DEF Init, LoopKinds
  <2>3. ASSUME Init PROVE QueryKinds
    BY <2>3, QueryAssumption DEF Init, LogInit, NoServer, QueryKinds
  <2>4. ASSUME Init PROVE ListingKinds
    BY <2>4, ListingAssumption DEF Init, ListingInit, ListingKinds
  <2>5. ASSUME Init PROVE StateKinds
    BY <2>5 DEF Init, ReaderInit, Untold, StateKinds
  <2> QED
    BY <2>1, <2>2, <2>3, <2>4, <2>5
<1>2. Requested /\ LoopKinds /\ QueryKinds /\ ListingKinds /\ StateKinds => TypeOK
  <2> SUFFICES ASSUME Requested, LoopKinds, QueryKinds, ListingKinds, StateKinds
               PROVE  TypeOK
    OBVIOUS
  <2>1. RevokedRanges
    BY RequestedRanges DEF RevokedRanges
  <2> QED
    BY <2>1, Zenon DEF LoopKinds, QueryKinds, ListingKinds, StateKinds, TypeOK
<1> QED
  BY <1>1, <1>2, LoopKept, LoopKindsKept, QueryingAlways, QueryKindsKept, ListingAlways,
     ListingKindsKept, StateKindsKept, RequestedAlways, PTL DEF Spec

=============================================================================
