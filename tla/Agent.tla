------------------------------- MODULE Agent -------------------------------
(***************************************************************************)
(* The reader of the engine as a whole: the tool-use loop of               *)
(* mcp_server/agent.py and free_agent.py around the tools, each of which   *)
(* reads a service that goes on changing.                                  *)
(*                                                                         *)
(* The tools share nothing, so a behaviour has the model call one of them, *)
(* any number of times.                                                    *)
(***************************************************************************)
EXTENDS LogQuery, ExemptionListing, Metrics, ResourceState

CONSTANTS
  MaxTurns,  (* MAX_TURNS.                                                 *)
  MaxCalls   (* Bound on the tool calls in one message.                    *)

ASSUME AgentAssumption == MaxTurns \in Nat \ {0} /\ MaxCalls \in Nat \ {0}

VARIABLES
  tool,    (* The tool this behaviour is about.                            *)
  turn,    (* The current turn.                                            *)
  pc,      (* "model", "tools" or "done".                                  *)
  calls,   (* The tool calls of the model's last message ...               *)
  at,      (* ... the one that is made ...                                 *)
  results, (* ... and the results so far: the call, and what came of it.   *)
  outcome  (* How run_agent ended.                                         *)

loopVars == <<turn, pc, calls, at, results, outcome>>
toolVars == <<logVars, queryVars, tagVars, listingVars, metricVars, stateVars>>
vars == <<tool, loopVars, toolVars>>

Tools == {"describe_engine_rules", "get_compliance_posture", "logs",
          "get_resource_state", "list_exemptions"}

Init ==
  /\ tool \in Tools
  /\ turn = 1
  /\ pc = "model"
  /\ calls = 0
  /\ at = 1
  /\ results = <<>>
  /\ outcome = "none"
  /\ LogInit
  /\ MetricsInit
  /\ ListingInit
  /\ tool # "list_exemptions" => tags = [r \in Resources |-> NoTags]
  /\ IF tool = "get_resource_state"
     THEN \E r \in Buckets \union Launched \union {Group} : ReaderInit(r)
     ELSE ReaderInit(Group)

-----------------------------------------------------------------------------
(* The model's side of the loop.                                           *)

Done(how) ==
  /\ pc' = "done"
  /\ outcome' = how
  /\ UNCHANGED <<tool, turn, calls, at, results, toolVars>>

Answer == pc = "model" /\ Done("answer")

(* stop_reason refusal, which only agent.py knows.                         *)
Refuse == pc = "model" /\ Done("refused")

(* messages.create raises: nothing catches it.                             *)
ModelRaises == pc = "model" /\ Done("raised")

CallTools(n) ==
  /\ pc = "model"
  /\ pc' = "tools"
  /\ calls' = n
  /\ at' = 1
  /\ results' = <<>>
  /\ UNCHANGED <<tool, turn, outcome, toolVars>>

(* Faulty variant: the turn is counted only if a tool answered.            *)
EndTurnOnSuccess(rs) ==
  IF at < calls THEN at' = at + 1 /\ UNCHANGED <<turn, pc, outcome>>
  ELSE IF \A i \in DOMAIN rs : rs[i].is = "failed"
  THEN pc' = "model" /\ UNCHANGED <<turn, at, outcome>>
  ELSE /\ UNCHANGED at
       /\ IF turn = MaxTurns
          THEN pc' = "done" /\ outcome' = "stopped early" /\ UNCHANGED turn
          ELSE pc' = "model" /\ turn' = turn + 1 /\ UNCHANGED outcome

(* The next call, the next turn, or the end of the loop.                   *)
EndTurn(rs) ==
  IF at < calls THEN at' = at + 1 /\ UNCHANGED <<turn, pc, outcome>>
  ELSE /\ UNCHANGED at
       /\ IF turn = MaxTurns
          THEN pc' = "done" /\ outcome' = "stopped early" /\ UNCHANGED turn
          ELSE pc' = "model" /\ turn' = turn + 1 /\ UNCHANGED outcome

(* Faulty variant: a call that failed is passed over in silence.           *)
ResultOfSuccess(what) ==
  /\ results' = IF what = "failed" THEN results
                ELSE Append(results, [call |-> at, is |-> what])
  /\ EndTurn(results')
  /\ UNCHANGED <<tool, calls>>

Result(what) ==
  /\ results' = Append(results, [call |-> at, is |-> what])
  /\ EndTurn(results')
  /\ UNCHANGED <<tool, calls>>

-----------------------------------------------------------------------------
(* The tools, one step at a time.                                          *)

Calling(t) == pc = "tools" /\ tool = t

(* An unknown tool, arguments that are not JSON or do not fit, no region   *)
(* configured: the call fails before the tool has asked AWS for anything.  *)
CallFails ==
  /\ pc = "tools"
  /\ query = "idle" /\ listing = "idle" /\ reading = "idle"
  /\ Result("failed")
  /\ UNCHANGED toolVars

DescribeRules ==
  /\ Calling("describe_engine_rules")
  /\ Result("output")
  /\ UNCHANGED toolVars

(* One call of get_metric_data; that it raises is CallFails.               *)
ReadPosture ==
  /\ Calling("get_compliance_posture")
  /\ Result("output")
  /\ UNCHANGED toolVars

(* A tool that asks more than once goes on until it has answered or        *)
(* raised; then its result is handed over.                                 *)
QueryLogs ==
  /\ Calling("logs")
  /\ \/ (Ask \/ Query) /\ UNCHANGED loopVars
     \/ ForgetQuery /\ Result(IF query = "raised" THEN "failed" ELSE "output")
  /\ UNCHANGED <<tool, tagVars, listingVars, metricVars, stateVars>>

ListExemptions ==
  /\ Calling("list_exemptions")
  /\ \/ (Begin \/ List) /\ UNCHANGED loopVars
     \/ ForgetListing /\ Result(IF listing = "raised" THEN "failed" ELSE "output")
  /\ UNCHANGED <<tool, logVars, queryVars, metricVars, stateVars>>

ReadState ==
  /\ Calling("get_resource_state")
  /\ \/ Read /\ UNCHANGED loopVars
     \/ ForgetState /\ Result(IF reading = "raised" THEN "failed" ELSE "output")
  /\ UNCHANGED <<tool, logVars, queryVars, tagVars, listingVars, metricVars>>

CallTool ==
  \/ CallFails \/ DescribeRules \/ ReadPosture
  \/ QueryLogs \/ ListExemptions \/ ReadState

RunAgent ==
  \/ Answer \/ Refuse \/ ModelRaises
  \/ \E n \in 1 .. MaxCalls : CallTools(n)
  \/ CallTool

-----------------------------------------------------------------------------
(* Meanwhile the engine logs and counts, people act, and AWS works.  What  *)
(* happens after run_agent has ended concerns it no more.                  *)

World ==
  /\ pc # "done"
  /\ \/ /\ tool = "logs"
        /\ Logging \/ Work
        /\ UNCHANGED <<tagVars, listingVars, metricVars, stateVars>>
     \/ /\ tool = "list_exemptions"
        /\ Tagging
        /\ UNCHANGED <<logVars, queryVars, metricVars, stateVars>>
     \/ /\ tool = "get_compliance_posture"
        /\ MetricsNext
        /\ UNCHANGED <<logVars, queryVars, tagVars, listingVars, stateVars>>
     \/ /\ tool = "get_resource_state"
        /\ Account
        /\ UNCHANGED <<logVars, queryVars, tagVars, listingVars, metricVars>>
  /\ UNCHANGED <<tool, loopVars>>

Next == RunAgent \/ World

(* Every call of the model and of AWS returns or times out, and run_agent  *)
(* goes on.  Nothing is asked of the service that works on a query.        *)
Spec == Init /\ [][Next]_vars /\ WF_vars(RunAgent)

-----------------------------------------------------------------------------

(* What is revoked has a range of ports, or is for all traffic and has none*)
RevokedRanges ==
  \A r \in ToSet(RevokeRequests(perms)) :
    IF r.protocol = AllTraffic THEN r.from = Absent /\ r.to = Absent
    ELSE 0 <= r.from /\ r.from <= r.to /\ r.to <= 65535

(* Turns, calls, polls and pages stay within their limits.                 *)
TypeOK ==
  /\ tool \in Tools
  /\ turn \in 1 .. MaxTurns
  /\ pc \in {"model", "tools", "done"}
  /\ calls \in 0 .. MaxCalls
  /\ at \in 1 .. MaxCalls
  /\ results \in Seq([call : 1 .. MaxCalls, is : {"output", "failed"}])
  /\ outcome \in {"none", "answer", "refused", "raised", "stopped early"}
  /\ query \in {"idle", "polling", "answered", "raised"}
  /\ polls \in 0 .. PollAttempts - 1
  /\ server.records \subseteq DOMAIN lines
  /\ listing \in {"idle", "listing", "listed", "failed", "raised"}
  /\ page \in 0 .. MaxPages
  /\ reading \in {"idle", "encryption", "tagging", "volumes", "told", "raised"}
  /\ told.verdict \in {"none", "compliant", "violating", "undetermined"}
  /\ RevokedRanges

(* "The model needs to know the tool failed.  Silence would leave it       *)
(* guessing" (agent.py): when the model is asked again, and when the loop  *)
(* is cut off, each call of its last message has its one result, in order, *)
(* whatever the tools did.                                                 *)
EveryCallAnswered ==
  pc # "tools" =>
    /\ Len(results) = calls
    /\ \A i \in DOMAIN results : results[i].call = i

(* "A model that keeps calling tools must not run indefinitely" (agent.py):*)
(* every question ends, with an answer or without, though the model never  *)
(* stops calling, tools fail, and a query never completes.                 *)
AgentEnds == <>(pc = "done")

=============================================================================
