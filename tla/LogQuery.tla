------------------------------ MODULE LogQuery ------------------------------
(***************************************************************************)
(* The reader's questions to CloudWatch Logs Insights (mcp_server/tools/   *)
(* logs.py): a query is started, polled a bounded number of times while    *)
(* the service works on it, and its records are handed out.  Meanwhile the *)
(* engine goes on logging, and lines reach the log group some time after   *)
(* they were written.                                                      *)
(***************************************************************************)
EXTENDS Naturals, FiniteSets, Sequences

CONSTANTS
  Subjects,     (* The resources the engine logs about.                    *)
  Containing,   (* Those whose name contains a resource's, itself included:*)
                (* a line about them matches the filter too.               *)
  PollAttempts, (* POLL_ATTEMPTS.                                          *)
  Limit,        (* The query's limit.                                      *)
  MaxLines      (* Bound on the lines written in the window.               *)

ASSUME QueryAssumption ==
  /\ Containing \in [Subjects -> SUBSET Subjects]
  /\ \A r \in Subjects : r \in Containing[r]
  /\ PollAttempts \in Nat \ {0}
  /\ Limit \in Nat \ {0}
  /\ MaxLines \in Nat

VARIABLES
  lines,    (* What the engine logged in the window, in order: the resource*)
            (* each line is about.                                         *)
  ingested, (* The lines that reached the log group.                       *)
  server,   (* The service's status of the query, and its records.         *)
  query,    (* "idle", "polling", "answered" or "raised".                  *)
  asked,    (* What is asked: the tool, the resource, the window's end;    *)
            (* and, history, the lines on it in the log group by then.     *)
  polls,    (* Polls made.                                                 *)
  answer    (* What the tool returned.                                     *)

logVars == <<lines, ingested>>
queryVars == <<server, query, asked, polls, answer>>

NoAnswer == [status |-> "none", records |-> {}, warning |-> FALSE]
NoServer == [status |-> "none", records |-> {}]
Anything == [tool |-> "search", on |-> "all", end |-> 0, had |-> {}]

LogInit ==
  /\ lines = <<>>
  /\ ingested = {}
  /\ server = NoServer
  /\ query = "idle"
  /\ asked = Anything
  /\ polls = 0
  /\ answer = NoAnswer

-----------------------------------------------------------------------------
(* The engine and the service.                                             *)

Log(r) ==
  /\ Len(lines) < MaxLines
  /\ lines' = Append(lines, r)
  /\ UNCHANGED <<ingested, queryVars>>

Ingest(k) ==
  /\ k \notin ingested
  /\ ingested' = ingested \union {k}
  /\ UNCHANGED <<lines, queryVars>>

(* filter @message like /.../ ; an empty pattern adds no filter.           *)
Matching(q) ==
  {k \in DOMAIN lines :
     k <= q.end /\ (q.on = "all" \/ lines[k] \in Containing[q.on])}

(* sort @timestamp desc | limit                                            *)
Newest(ks) == {k \in ks : Cardinality({j \in ks : j > k}) < Limit}

(* The service works on the query: it has some of the records, then all of *)
(* them, or gives up.                                                      *)
Scan ==
  /\ server.status = "Running"
  /\ \E found \in SUBSET Newest(Matching(asked) \intersect ingested) :
       server' = [server EXCEPT !.records = found]
  /\ UNCHANGED <<logVars, query, asked, polls, answer>>

Complete ==
  /\ server.status = "Running"
  /\ server' = [status |-> "Complete",
                records |-> Newest(Matching(asked) \intersect ingested)]
  /\ UNCHANGED <<logVars, query, asked, polls, answer>>

GiveUp ==
  /\ server.status = "Running"
  /\ \E status \in {"Failed", "Cancelled", "Timeout"} :
       server' = [server EXCEPT !.status = status]
  /\ UNCHANGED <<logVars, query, asked, polls, answer>>

-----------------------------------------------------------------------------
(* _run_query                                                              *)

(* start_query: the window ends at the moment of asking.                   *)
StartQuery(tool, r) ==
  /\ query = "idle"
  /\ asked' = [tool |-> tool, on |-> r, end |-> Len(lines),
                had |-> {k \in ingested : r = "all" \/ lines[k] = r}]
  /\ server' = [status |-> "Running", records |-> {}]
  /\ query' = "polling"
  /\ UNCHANGED <<logVars, polls, answer>>

(* The log group does not exist: said so, with a warning.                  *)
MissLogGroup(tool, r) ==
  /\ query = "idle"
  /\ lines = <<>>
  /\ asked' = [tool |-> tool, on |-> r, end |-> 0, had |-> {}]
  /\ query' = "answered"
  /\ answer' = [status |-> "LogGroupNotFound", records |-> {}, warning |-> TRUE]
  /\ UNCHANGED <<logVars, server, polls>>

(* Whatever becomes of the query in the service, nobody asks again.        *)
Leave == server' = NoServer /\ polls' = 0

(* Faulty variant: every answer without records is marked.                 *)
ReturnMarked(status, records) ==
  /\ query' = "answered"
  /\ answer' = [status |-> status, records |-> records,
                warning |-> asked.tool = "history" /\ records = {}]
  /\ Leave
  /\ UNCHANGED <<logVars, asked>>

(* get_resource_history marks a complete answer without records; the other *)
(* tool and the other statuses come without a warning.                     *)
Return(status, records) ==
  /\ query' = "answered"
  /\ answer' = [status |-> status, records |-> records,
                warning |-> asked.tool = "history" /\ status = "Complete" /\ records = {}]
  /\ Leave
  /\ UNCHANGED <<logVars, asked>>

Answered ==
  /\ query = "polling"
  /\ server.status = "Complete"
  /\ Return("Complete", server.records)

Failed ==
  /\ query = "polling"
  /\ server.status \in {"Failed", "Cancelled", "Timeout"}
  /\ Return(server.status, {})

(* Still running: sleep.                                                   *)
Sleep ==
  /\ polls' = polls + 1
  /\ UNCHANGED <<logVars, server, query, asked, answer>>

(* Faulty variant: when the polls are spent, what there is is handed out.  *)
PollHasty ==
  /\ query = "polling"
  /\ server.status = "Running"
  /\ IF polls + 1 = PollAttempts THEN Return("Complete", server.records) ELSE Sleep

(* When the polls are spent it is said so; the records the query has so    *)
(* far are not looked at.                                                  *)
Poll ==
  /\ query = "polling"
  /\ server.status = "Running"
  /\ IF polls + 1 = PollAttempts THEN Return("Timeout", {}) ELSE Sleep

(* start_query or get_query_results raises, and nothing catches it here.   *)
Raise ==
  /\ query \in {"idle", "polling"}
  /\ query' = "raised"
  /\ Leave
  /\ UNCHANGED <<logVars, asked, answer>>

Ask ==
  \/ \E r \in Subjects :
       \E tool \in {"search", "history"} : StartQuery(tool, r) \/ MissLogGroup(tool, r)
  \/ StartQuery("search", "all") \/ MissLogGroup("search", "all")

Work == Scan \/ Complete \/ GiveUp

Query == Answered \/ Failed \/ Poll \/ Raise

(* The caller has the answer; the next call starts afresh.                 *)
ForgetQuery ==
  /\ query \in {"answered", "raised"}
  /\ query' = "idle"
  /\ asked' = Anything
  /\ answer' = NoAnswer
  /\ UNCHANGED <<logVars, server, polls>>

Logging ==
  \/ \E r \in Subjects : Log(r)
  \/ \E k \in DOMAIN lines : Ingest(k)

-----------------------------------------------------------------------------

(* A complete answer is complete: an answer that is not cut off by the     *)
(* limit holds every line on the resource the log group had when it was    *)
(* asked, however the query, the engine and ingestion overlap.             *)
CompleteMeansAll ==
  query = "answered" /\ answer.status = "Complete"
      /\ Cardinality(answer.records) < Limit
    => asked.had \subseteq answer.records

(* "The engine has never logged anything about ..." is not said of a       *)
(* resource the log group had a line on, in particular not because the     *)
(* query was cut short or the lines of others used up the limit.           *)
NeverLoggedIsTrue ==
  query = "answered" /\ answer.warning => asked.had = {}

=============================================================================
