----------------------------- MODULE McpGateway -----------------------------
(***************************************************************************)
(* Tool calls through the sole-egress MCP gateway.  A worker's activity    *)
(* discovers the tools and calls one; a retry of the activity repeats the  *)
(* call with the same operation identity.  The gateway admits a call,      *)
(* answers it from its bounded table of results, joins it to the run that  *)
(* is in flight for its operation, or starts a run at the upstream server. *)
(*                                                                         *)
(* No critical section of the gateway awaits anything, so each of them is  *)
(* one step together with the code up to the next await; the upstream run, *)
(* the waiting callers and cancellations interleave.                       *)
(*                                                                         *)
(* Sources: backend/app/application/mcp_gateway.py, mcp_context.py,        *)
(* domain/mcp.py, adapters/mcp/gateway_server.py, gateway_client.py,       *)
(* streamable_http.py, adapters/auth_workload.py,                          *)
(* adapters/temporal/mcp_activity.py.                                      *)
(***************************************************************************)
EXTENDS Integers, Sequences, FiniteSets

CONSTANTS
  ToolCalls,        \* attempts of activities: one gateway request each
  CallOf,       \* [ToolCalls -> [op, identity, token, member, server, tool, arguments]]
  Endings,      \* how upstream runs may end, of "ok" and the failures
  MaxDedup,     \* entries of the result table
  MaxRuns,      \* bound: upstream runs
  MaxRestarts   \* bound: restarts of the gateway process

ASSUME GatewayBounds ==
  /\ MaxDedup \in Nat \ {0} /\ MaxRuns \in Nat /\ MaxRestarts \in Nat
  /\ Endings \subseteq {"ok", "malformed", "unavailable", "protocol", "timeout"}

VARIABLES
  call,        \* [ToolCalls -> [step, run, owner, answer]]
  run,         \* upstream runs: [op, identity, state]
  inflight,    \* [operations -> the run in flight, 0 for none]
  dedup,       \* the result table, oldest entry first: [op, identity, run]
  tools,       \* the gateway has the manifest
  expired,     \* operations whose deadline has passed
  restarts,    \* times the gateway has been started again
  forgotten    \* operations whose result has been evicted or lost

gatewayVars == <<call, run, inflight, dedup, tools, expired, restarts, forgotten>>

Operations == {CallOf[c].op : c \in ToolCalls}

(* A request as the activity sends it. *)
ToolCallRequests ==
  [op : STRING, identity : STRING, token : {"good", "missing", "invalid", "expired", "another subject"},
   member : BOOLEAN, server : STRING, tool : STRING, arguments : {"schema", "unbounded", "outside"}]

ASSUME CallsAreRequests == CallOf \in [ToolCalls -> ToolCallRequests]

(* Runs with their results, and the entries of the table of results. *)
UpstreamRuns ==
  [op : Operations, identity : STRING,
   state : {"running", "stopping", "cancelled", "lost", "ok", "malformed", "unavailable", "protocol", "timeout"}]
DedupEntries == [op : Operations, identity : STRING, run : 1..MaxRuns]
-----------------------------------------------------------------------------
(* ToolFailureCode to the code the worker sees. *)
McpCode == [AUTH_REQUIRED |-> "AUTHENTICATION_FAILED", FORBIDDEN |-> "AUTHORIZATION_DENIED",
            TOOL_NOT_FOUND |-> "TOOL_NOT_FOUND", ARGUMENT_INVALID |-> "INVALID_ARGUMENTS",
            TOOL_TIMEOUT |-> "TIMEOUT", TOOL_CANCELLED |-> "CANCELLED",
            PROTOCOL_ERROR |-> "UPSTREAM_PROTOCOL_ERROR", RESULT_INVALID |-> "RESULT_INVALID",
            OPERATION_CONFLICT |-> "INVALID_CONTEXT"]

(* JWTWorkloadTokenVerifier.verify and MCPGateway._verify. *)
Verify(r) == IF r.token \in {"missing", "invalid", "expired"} THEN "AUTHENTICATION_FAILED"
             ELSE IF r.token = "another subject" THEN "AUTHORIZATION_DENIED" ELSE "none"

(* SessionMCPContextAuthority.validate: the exact agent version is a member   *)
(* of the session in the round of the call.                                  *)
Authorize(r) == IF r.member THEN "none" ELSE "INVALID_CONTEXT"

(* The arguments name no trusted field and satisfy the tool's schema. *)
ArgumentsValid(r) == r.arguments = "schema"

First(codes) == IF \E i \in DOMAIN codes : codes[i] # "none"
                THEN codes[CHOOSE i \in DOMAIN codes : codes[i] # "none" /\ \A j \in 1..(i - 1) : codes[j] = "none"]
                ELSE "none"

(* invoke, up to the critical section: the first check that fails. *)
Refusal(r) ==
  First(<<IF r.op \in expired THEN "TIMEOUT" ELSE "none",
          IF r.arguments = "unbounded" THEN "INVALID_ARGUMENTS" ELSE "none",
          Verify(r), Authorize(r),
          IF r.server = "fixture" THEN "none" ELSE McpCode.FORBIDDEN,
          IF r.tool = "fixture.read_echo" THEN "none" ELSE McpCode.TOOL_NOT_FOUND,
          IF ArgumentsValid(r) THEN "none" ELSE McpCode.ARGUMENT_INVALID>>)

Answered(c, answer) == call' = [call EXCEPT ![c].step = "done", ![c].answer = answer]
-----------------------------------------------------------------------------
(* GatewayMCPClient.invoke, its first request: the tools are listed, and the *)
(* manifest is fetched when the gateway does not have it.                    *)
Discover(c) ==
  /\ call[c].step = "new"
  /\ LET r == CallOf[c]
         refusal == First(<<IF r.op \in expired THEN "TIMEOUT" ELSE "none", Verify(r), Authorize(r)>>)
     IN \/ /\ refusal # "none" /\ Answered(c, refusal) /\ UNCHANGED tools
        \/ /\ refusal = "none" /\ tools' = TRUE
           /\ IF r.tool = "fixture.read_echo"
              THEN call' = [call EXCEPT ![c].step = "discovered"] ELSE Answered(c, "TOOL_NOT_FOUND")
        \/ /\ refusal = "none" /\ ~tools /\ UNCHANGED tools
           /\ \E code \in {"UPSTREAM_UNAVAILABLE", "UPSTREAM_PROTOCOL_ERROR", "RESULT_INVALID"} : Answered(c, code)
  /\ UNCHANGED <<run, inflight, dedup, expired, restarts, forgotten>>

(* readiness: the manifest is negotiated again. *)
Ready == /\ ~tools /\ tools' = TRUE
         /\ UNCHANGED <<call, run, inflight, dedup, expired, restarts, forgotten>>

Prior(op) == {i \in DOMAIN dedup : dedup[i].op = op}

(* MCPCallIdentity: server, tool, context and arguments are the same. *)
SameIdentity(entry, r) == entry.identity = r.identity

(* invoke, the critical section. *)
Enter(c) ==
  /\ call[c].step = "discovered"
  /\ LET r == CallOf[c]  refusal == Refusal(r)  joined == inflight[r.op]
     IN \/ /\ refusal # "none" /\ Answered(c, refusal) /\ UNCHANGED <<run, inflight>>
        \/ /\ refusal = "none" /\ Prior(r.op) # {}
           /\ \E i \in Prior(r.op) :
                IF SameIdentity(dedup[i], r)
                THEN call' = [call EXCEPT ![c] = [step |-> "done", run |-> dedup[i].run, owner |-> FALSE, answer |-> "result"]]
                ELSE Answered(c, McpCode.OPERATION_CONFLICT)
           /\ UNCHANGED <<run, inflight>>
        \/ /\ refusal = "none" /\ Prior(r.op) = {} /\ joined # 0
           /\ IF SameIdentity(run[joined], r)
              THEN call' = [call EXCEPT ![c] = [step |-> "waiting", run |-> joined, owner |-> FALSE, answer |-> "none"]]
              ELSE Answered(c, McpCode.OPERATION_CONFLICT)
           /\ UNCHANGED <<run, inflight>>
        \/ /\ refusal = "none" /\ Prior(r.op) = {} /\ joined = 0 /\ Len(run) < MaxRuns
           /\ run' = Append(run, [op |-> r.op, identity |-> r.identity, state |-> "running"])
           /\ inflight' = [inflight EXCEPT ![r.op] = Len(run) + 1]
           /\ call' = [call EXCEPT ![c] = [step |-> "waiting", run |-> Len(run) + 1, owner |-> TRUE, answer |-> "none"]]
  /\ UNCHANGED <<dedup, tools, expired, restarts, forgotten>>

(* StreamableHTTPMCPToolProvider.invoke: the upstream answers, fails, breaks  *)
(* the protocol, answers with something else, or the time is over.           *)
Finish(k, state) ==
  /\ run[k].state = "running"
  /\ run' = [run EXCEPT ![k].state = state]
  /\ UNCHANGED <<call, inflight, dedup, tools, expired, restarts, forgotten>>

(* A cancelled run stops when its task is next scheduled. *)
Stop(k) ==
  /\ run[k].state = "stopping"
  /\ run' = [run EXCEPT ![k].state = "cancelled"]
  /\ UNCHANGED <<call, inflight, dedup, tools, expired, restarts, forgotten>>

Outcome == [ok |-> "result", malformed |-> "RESULT_INVALID", unavailable |-> "UPSTREAM_UNAVAILABLE",
            protocol |-> "UPSTREAM_PROTOCOL_ERROR", timeout |-> McpCode.TOOL_TIMEOUT,
            cancelled |-> McpCode.TOOL_CANCELLED]

Released(c) == [inflight EXCEPT ![CallOf[c].op] = IF call[c].owner THEN 0 ELSE @]

(* The table holds MaxDedup results; the oldest makes room. *)
Remember(entry) ==
  LET full == Len(dedup) >= MaxDedup
      kept == IF full THEN Tail(dedup) ELSE dedup
      known == {i \in DOMAIN kept : kept[i].op = entry.op}
  IN /\ dedup' = IF known = {} THEN Append(kept, entry)
                 ELSE [i \in DOMAIN kept |-> IF i \in known THEN entry ELSE kept[i]]
     /\ forgotten' = IF full /\ Head(dedup).op # entry.op THEN forgotten \cup {Head(dedup).op} ELSE forgotten

(* Mutant: the caller that started the run does not wait for it. *)
WakeEarly(c) ==
  /\ call[c].step = "waiting" /\ (run[call[c].run].state \in DOMAIN Outcome \/ call[c].owner)
  /\ Answered(c, IF run[call[c].run].state \in DOMAIN Outcome THEN Outcome[run[call[c].run].state] ELSE "TIMEOUT")
  /\ inflight' = Released(c)
  /\ IF run[call[c].run].state = "ok"
     THEN Remember([op |-> CallOf[c].op, identity |-> CallOf[c].identity, run |-> call[c].run])
     ELSE UNCHANGED <<dedup, forgotten>>
  /\ UNCHANGED <<run, tools, expired, restarts>>

(* invoke, after the shielded await: a caller sees how the run ended, its    *)
(* owner takes it out of the table of runs, and a good result is kept.       *)
Wake(c) ==
  /\ call[c].step = "waiting" /\ run[call[c].run].state \in DOMAIN Outcome
  /\ Answered(c, Outcome[run[call[c].run].state])
  /\ inflight' = Released(c)
  /\ IF run[call[c].run].state = "ok"
     THEN Remember([op |-> CallOf[c].op, identity |-> CallOf[c].identity, run |-> call[c].run])
     ELSE UNCHANGED <<dedup, forgotten>>
  /\ UNCHANGED <<run, tools, expired, restarts>>

(* The request of a waiting caller is cancelled.  A caller that has joined   *)
(* leaves; the owner tells the run to stop and waits for it...               *)
Cancel(c) ==
  /\ call[c].step = "waiting" /\ run[call[c].run].state \notin DOMAIN Outcome
  /\ IF call[c].owner
     THEN /\ call' = [call EXCEPT ![c].step = "draining"]
          /\ run' = [run EXCEPT ![call[c].run].state = "stopping"]
     ELSE Answered(c, McpCode.TOOL_CANCELLED) /\ UNCHANGED run
  /\ UNCHANGED <<inflight, dedup, tools, expired, restarts, forgotten>>

(* ... until it has stopped, or the request is cancelled a second time. *)
Drained(c) ==
  /\ call[c].step = "draining"
  /\ Answered(c, McpCode.TOOL_CANCELLED)
  /\ inflight' = Released(c)
  /\ UNCHANGED <<run, dedup, tools, expired, restarts, forgotten>>

(* The deadline of an operation passes. *)
Expire(op) ==
  /\ op \notin expired /\ expired' = expired \cup {op}
  /\ UNCHANGED <<call, run, inflight, dedup, tools, restarts, forgotten>>

(* The gateway process dies with its tables, its runs and its connections.   *)
Restart ==
  /\ restarts < MaxRestarts /\ restarts' = restarts + 1
  /\ call' = [c \in ToolCalls |-> IF call[c].step \in {"waiting", "draining"}
                              THEN [call[c] EXCEPT !.step = "done", !.answer = "UPSTREAM_UNAVAILABLE"] ELSE call[c]]
  /\ run' = [k \in DOMAIN run |-> IF run[k].state \in {"running", "stopping"} THEN [run[k] EXCEPT !.state = "lost"] ELSE run[k]]
  /\ inflight' = [op \in Operations |-> 0] /\ dedup' = <<>> /\ tools' = FALSE
  /\ forgotten' = forgotten \cup {dedup[i].op : i \in DOMAIN dedup} \cup {run[k].op : k \in DOMAIN run}
  /\ UNCHANGED expired

McpInit ==
  /\ call = [c \in ToolCalls |-> [step |-> "new", run |-> 0, owner |-> FALSE, answer |-> "none"]]
  /\ run = <<>> /\ inflight = [op \in Operations |-> 0] /\ dedup = <<>>
  /\ tools = TRUE /\ expired = {} /\ restarts = 0 /\ forgotten = {}

McpNext ==
  \/ \E c \in ToolCalls : Discover(c) \/ Enter(c) \/ Wake(c) \/ Cancel(c) \/ Drained(c)
  \/ \E k \in DOMAIN run : Stop(k) \/ \E state \in Endings : Finish(k, state)
  \/ \E op \in Operations : Expire(op)
  \/ Ready \/ Restart

McpSpec == McpInit /\ [][McpNext]_gatewayVars
-----------------------------------------------------------------------------
(* The types: the tables name runs that exist, of their own operation, and   *)
(* the table of results keeps to its size.                                   *)
McpTypeOK ==
  /\ \A c \in ToolCalls : /\ call[c].step \in {"new", "discovered", "waiting", "draining", "done"}
                          /\ call[c].run \in 0..Len(run) /\ call[c].owner \in BOOLEAN
                          /\ call[c].step \in {"waiting", "draining"} => run[call[c].run].op = CallOf[c].op
  /\ run \in Seq(UpstreamRuns) /\ Len(run) <= MaxRuns
  /\ inflight \in [Operations -> 0..Len(run)]
  /\ \A op \in Operations : inflight[op] # 0 => run[inflight[op]].op = op
  /\ dedup \in Seq(DedupEntries) /\ Len(dedup) <= MaxDedup
  /\ tools \in BOOLEAN /\ expired \subseteq Operations /\ restarts \in 0..MaxRestarts
  /\ forgotten \subseteq Operations
-----------------------------------------------------------------------------
(* However attempts, retries and cancellations interleave, an operation has  *)
(* at most one upstream run that nobody has told to stop, and it is the one  *)
(* in flight; and as long as its result is not forgotten, every caller that  *)
(* is answered gets the result of one run of exactly the call it made.       *)
OperationRunsOnce ==
  /\ \A k \in DOMAIN run : run[k].state = "running" => inflight[run[k].op] = k
  /\ \A c \in ToolCalls :
       call[c].answer = "result" =>
         /\ run[call[c].run].state = "ok" /\ run[call[c].run].identity = CallOf[c].identity
         /\ \A d \in ToolCalls : (call[d].answer = "result" /\ CallOf[d].op = CallOf[c].op /\ CallOf[c].op \notin forgotten)
                               => call[d].run = call[c].run
=============================================================================
