---------------------------- MODULE HTTPMessage ----------------------------
(***************************************************************************)
(* The gateway's HTTP request pipeline (HTTPMessage/Common.go,             *)
(* common_request_v3) for its one route, api_v1_web_download: GET, query   *)
(* parameters, a request and a response proto, withTimeout(Timeout).       *)
(*                                                                         *)
(* Each request in Reqs runs the handler's steps in code order: the early  *)
(* returns that answer before any call, the CallService RPC through gRPC   *)
(* (pick on the current picker, send on the picked SubConn, wait for the   *)
(* reply, the context deadline or a transport failure), and the response.  *)
(* The RPC's pick is composed with the Picker module: its ready SubConns   *)
(* and its picker change independently of the requests.                    *)
(***************************************************************************)
EXTENDS Integers, Sequences, FiniteSets

CONSTANTS
  Reqs,     \* the HTTP requests
  Timeout   \* the route's withTimeout value in ms; 0 means no deadline

CONSTANTS Addrs, MaxWeight, RingSize, Queries, Hash, Others, NoConn, NoParam

VARIABLES ready, picker, last
P == INSTANCE Picker

ASSUME HTTPAssumption == Timeout \in Nat /\ Reqs # {}

VARIABLES
  hpc,       \* where each request's handler is
  deadline,  \* whether the request's context carries a deadline
  conn,      \* the SubConn the RPC was sent on
  call,      \* what CallService returned: err, result and the body kind
  written    \* the responses the handler wrote, in order

pVars == <<ready, picker, last>>
hVars == <<hpc, deadline, conn, call, written>>
vars == <<pVars, hVars>>

\* The result codes of GateWayProtos.ResultType the pipeline can produce;
\* "ERR_Backend" stands for any non-OK code a backend returns.
Codes == {"OK", "ERR_Decode_Request", "ERR_Call_Service", "ERR_Backend",
          "ERR_Decode_Response"}

\* What a backend's reply body can be: a valid response proto, the literal
\* "ok" some backends send, or bytes that do not unmarshal.
Bodies == {"proto", "ok", "junk"}

Response == [status: {200, 405, 500}, code: Codes]

NoCall == [err |-> FALSE, result |-> "OK", body |-> "proto"]

TypeOK ==
  /\ hpc \in [Reqs -> {"recv", "pick", "sent", "returned", "done"}]
  /\ deadline \in [Reqs -> BOOLEAN]
  /\ conn \in [Reqs -> P!Keys \cup {NoConn}]
  /\ call \in [Reqs -> [err: BOOLEAN, result: Codes, body: Bodies]]
  /\ written \in [Reqs -> Seq(Response)]

Init ==
  /\ P!Init
  /\ hpc = [r \in Reqs |-> "recv"]
  /\ deadline = [r \in Reqs |-> FALSE]
  /\ conn = [r \in Reqs |-> NoConn]
  /\ call = [r \in Reqs |-> NoCall]
  /\ written = [r \in Reqs |-> <<>>]

\* responseJson / responseError: one header and one body per call.
Write(r, status, code) ==
  written' = [written EXCEPT ![r] = Append(@, [status |-> status, code |-> code])]

\* The method differs from the route's "GET": 405, and return.
RejectMethod(r) ==
  /\ hpc[r] = "recv"
  /\ Write(r, 405, "ERR_Decode_Request")
  /\ hpc' = [hpc EXCEPT ![r] = "done"]
  /\ UNCHANGED <<pVars, deadline, conn, call>>

\* kvMap2pb fails (a required parameter is missing or does not parse):
\* 500, and return.
RejectParams(r) ==
  /\ hpc[r] = "recv"
  /\ Write(r, 500, "ERR_Decode_Request")
  /\ hpc' = [hpc EXCEPT ![r] = "done"]
  /\ UNCHANGED <<pVars, deadline, conn, call>>

\* Mutant: the context is made with WithCancel whatever the Timeout.
CallStartNoDeadline(r) ==
  /\ hpc[r] = "recv"
  /\ deadline' = [deadline EXCEPT ![r] = FALSE]
  /\ hpc' = [hpc EXCEPT ![r] = "pick"]
  /\ UNCHANGED <<pVars, conn, call, written>>

\* All checks pass: the context gets a deadline unless Timeout is 0, and
\* CallService starts the RPC, which first picks a SubConn.
CallStart(r) ==
  /\ hpc[r] = "recv"
  /\ deadline' = [deadline EXCEPT ![r] = Timeout # 0]
  /\ hpc' = [hpc EXCEPT ![r] = "pick"]
  /\ UNCHANGED <<pVars, conn, call, written>>

\* callService adds no pick_param, so the default rand_weight pick is used.
RandReq == [type |-> "rand_weight", param |-> NoParam]

\* gRPC picks with the current picker; with no SubConn ready the error
\* picker makes it wait for the next picker, so the step is not enabled.
PickConn(r) ==
  /\ hpc[r] = "pick"
  /\ \E res \in P!Pick(picker, RandReq) :
       /\ res.err = "ok" /\ res.sc \in ready
       /\ conn' = [conn EXCEPT ![r] = res.sc]
  /\ hpc' = [hpc EXCEPT ![r] = "sent"]
  /\ UNCHANGED <<pVars, deadline, call, written>>

\* The backend answers on the SubConn: an OK or an error result code, and
\* a body.
Reply(r) ==
  /\ hpc[r] = "sent" /\ conn[r] \in ready
  /\ \E res \in {"OK", "ERR_Backend"}, b \in Bodies :
       call' = [call EXCEPT ![r] = [err |-> FALSE, result |-> res, body |-> b]]
  /\ hpc' = [hpc EXCEPT ![r] = "returned"]
  /\ UNCHANGED <<pVars, deadline, conn, written>>

\* The RPC fails: its SubConn's transport closed, or the context's deadline
\* passed while it picked or waited.  callService returns ERR_Call_Service.
CallFail(r) ==
  /\ \/ hpc[r] = "sent" /\ conn[r] \notin ready
     \/ hpc[r] \in {"pick", "sent"} /\ deadline[r]
  /\ call' = [call EXCEPT ![r] = [err |-> TRUE, result |-> "ERR_Call_Service",
                                   body |-> "ok"]]
  /\ hpc' = [hpc EXCEPT ![r] = "returned"]
  /\ UNCHANGED <<pVars, deadline, conn, written>>

\* Mutant: the check of the result code is missing.
RespondNoResultCheck(r) ==
  /\ hpc[r] = "returned"
  /\ LET c == call[r]
     IN IF c.err THEN Write(r, 500, c.result)
        ELSE IF c.body = "junk" THEN Write(r, 200, "ERR_Decode_Response")
        ELSE Write(r, 200, "OK")
  /\ hpc' = [hpc EXCEPT ![r] = "done"]
  /\ UNCHANGED <<pVars, deadline, conn, call>>

\* The rest of the handler, by the order of its checks: an error gives
\* 500 with the result code; a non-OK result 200 with that code; a body
\* "ok" skips Unmarshal and returns the empty response proto; a body that
\* does not unmarshal gives ERR_Decode_Response; else the decoded proto.
Respond(r) ==
  /\ hpc[r] = "returned"
  /\ LET c == call[r]
     IN IF c.err THEN Write(r, 500, c.result)
        ELSE IF c.result # "OK" THEN Write(r, 200, c.result)
        ELSE IF c.body = "junk" THEN Write(r, 200, "ERR_Decode_Response")
        ELSE Write(r, 200, "OK")
  /\ hpc' = [hpc EXCEPT ![r] = "done"]
  /\ UNCHANGED <<pVars, deadline, conn, call>>

\* The steps of one request's handler and its RPC.
Handle(r) ==
  \/ RejectMethod(r) \/ RejectParams(r) \/ CallStart(r)
  \/ PickConn(r) \/ Reply(r) \/ CallFail(r) \/ Respond(r)

\* The SubConns' states change independently of the requests.
Conns ==
  /\ \E k \in P!Keys : P!ConnUp(k) \/ P!ConnDown(k)
  /\ UNCHANGED hVars

Next == Conns \/ \E r \in Reqs : Handle(r)

(***************************************************************************)
(* Fairness.  A handler goroutine that can go on eventually does; the      *)
(* context's timer eventually fires (CallFail); gRPC retries a pick when a *)
(* picker is installed.  Nothing forces a backend to answer or a SubConn   *)
(* to become ready.                                                        *)
(***************************************************************************)
Fairness ==
  \A r \in Reqs :
    /\ WF_vars(RejectMethod(r) \/ RejectParams(r) \/ CallStart(r))
    /\ WF_vars(PickConn(r)) /\ WF_vars(CallFail(r)) /\ WF_vars(Respond(r))

Spec == Init /\ [][Next]_vars /\ Fairness

(***************************************************************************)
(* Properties                                                              *)
(***************************************************************************)
\* Every request gets exactly one response, and a response with code OK is
\* written only for an RPC that went out on a SubConn and whose backend
\* answered OK with a body that decodes: common_request_v3 returns after
\* each error response, and checks err, then the result, then the body.
ResponseReflectsCall ==
  \A r \in Reqs :
    /\ Len(written[r]) <= 1
    /\ hpc[r] = "done" => Len(written[r]) = 1
    /\ \A i \in DOMAIN written[r] :
         written[r][i].code = "OK" =>
           /\ conn[r] \in P!Keys /\ ~call[r].err
           /\ call[r].result = "OK" /\ call[r].body # "junk"

\* Every request is eventually answered, even when no backend ever becomes
\* ready or answers: the context deadline set from withTimeout ends a pick
\* that waits for a ready SubConn and a call that waits for its reply.
RequestAnswered == \A r \in Reqs : <>(hpc[r] = "done")
=============================================================================
