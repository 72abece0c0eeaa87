-------------------------- MODULE HTTPMessageProofs --------------------------
(***************************************************************************)
(* Proof that every request of the HTTP pipeline gets exactly one          *)
(* response and that a response with code OK reflects a successful call,   *)
(* for any number of requests, backends and virtual nodes.                 *)
(*                                                                         *)
(* ResponseReflectsCall is not inductive: a request still picking or       *)
(* waiting must not have written anything, and its call record must not    *)
(* yet claim success.  Stage states, for each handler location, what the   *)
(* handler has written and what it knows of its call.  The picker's state  *)
(* needs no invariant: a pick is taken only when it returns a ready        *)
(* SubConn, and the ready SubConns are always keys.                        *)
(***************************************************************************)
EXTENDS HTTPMessage, TLAPS

\* The successful call a response with code OK must come from.
CallOK(r) ==
  /\ conn[r] \in P!Keys /\ ~call[r].err
  /\ call[r].result = "OK" /\ call[r].body # "junk"

Stage(r) ==
  /\ call[r].err => call[r].result = "ERR_Call_Service"
  /\ hpc[r] \in {"recv", "pick"} => written[r] = <<>> /\ conn[r] = NoConn
  /\ hpc[r] = "sent" => written[r] = <<>> /\ conn[r] \in P!Keys
  /\ hpc[r] = "returned" =>
       written[r] = <<>> /\ (~call[r].err => conn[r] \in P!Keys)
  /\ hpc[r] = "done" =>
       /\ Len(written[r]) = 1
       /\ written[r][1].code = "OK" => CallOK(r)

HInv == TypeOK /\ ready \subseteq P!Keys /\ \A r \in Reqs : Stage(r)

\* The steps of the SubConns keep the ready set within the keys.
LEMMA ConnsTyped ==
  ASSUME ready \subseteq P!Keys, Conns
  PROVE  ready' \subseteq P!Keys /\ UNCHANGED hVars
  <1>1. PICK k \in P!Keys : P!ConnUp(k) \/ P!ConnDown(k)
    BY DEF Conns
  <1>2. ready' \subseteq P!Keys
    BY <1>1 DEF P!ConnUp, P!ConnDown
  <1>3. QED
    BY <1>2 DEF Conns

LEMMA InitHInv == Init => HInv
  BY DEF Init, P!Init, HInv, TypeOK, Stage, NoCall, Codes, Bodies

\* One step per action of the handler; r is the request that steps, and
\* every other request keeps its state.
LEMMA StepHInv == HInv /\ [Next]_vars => HInv'
<1> SUFFICES ASSUME HInv, [Next]_vars PROVE HInv'
  OBVIOUS
<1> USE DEF HInv, TypeOK, pVars
<1>1. CASE Conns
  BY <1>1, ConnsTyped DEF Stage, CallOK, hVars
<1>2. ASSUME NEW r \in Reqs, RejectMethod(r) PROVE HInv'
  BY <1>2 DEF RejectMethod, Write, Stage, CallOK, Response, Codes
<1>3. ASSUME NEW r \in Reqs, RejectParams(r) PROVE HInv'
  BY <1>3 DEF RejectParams, Write, Stage, CallOK, Response, Codes
<1>4. ASSUME NEW r \in Reqs, CallStart(r) PROVE HInv'
  BY <1>4 DEF CallStart, Stage, CallOK
<1>5. ASSUME NEW r \in Reqs, PickConn(r) PROVE HInv'
  <2>1. PICK res \in P!Pick(picker, RandReq) :
          res.err = "ok" /\ res.sc \in ready /\ conn' = [conn EXCEPT ![r] = res.sc]
    BY <1>5 DEF PickConn
  <2>2. res.sc \in P!Keys
    BY <2>1 DEF HInv
  <2>3. QED
    BY <1>5, <2>1, <2>2 DEF PickConn, Stage, CallOK
<1>6. ASSUME NEW r \in Reqs, Reply(r) PROVE HInv'
  BY <1>6 DEF Reply, Stage, CallOK, Codes, Bodies
<1>7. ASSUME NEW r \in Reqs, CallFail(r) PROVE HInv'
  BY <1>7 DEF CallFail, Stage, CallOK, Codes, Bodies
<1>8. ASSUME NEW r \in Reqs, Respond(r) PROVE HInv'
  <2> DEFINE c == call[r]
          W(st, cd) == written' = [written EXCEPT ![r] = Append(@, [status |-> st, code |-> cd])]
  <2>1. /\ hpc[r] = "returned" /\ hpc' = [hpc EXCEPT ![r] = "done"]
        /\ UNCHANGED <<ready, picker, last, deadline, conn, call>>
    BY <1>8 DEF Respond
  <2>2. c \in [err: BOOLEAN, result: Codes, body: Bodies]
    OBVIOUS
  <2>3. CASE c.err
    <3>1. W(500, c.result)
      BY <1>8, <2>3 DEF Respond, Write
    <3>2. QED
      BY <2>1, <2>2, <2>3, <3>1 DEF Stage, CallOK, Response, Codes
  <2>4. CASE ~c.err /\ c.result # "OK"
    <3>1. W(200, c.result)
      BY <1>8, <2>4 DEF Respond, Write
    <3>2. QED
      BY <2>1, <2>2, <2>4, <3>1 DEF Stage, CallOK, Response, Codes
  <2>5. CASE ~c.err /\ c.result = "OK" /\ c.body = "junk"
    <3>1. W(200, "ERR_Decode_Response")
      BY <1>8, <2>5 DEF Respond, Write
    <3>2. QED
      BY <2>1, <2>2, <2>5, <3>1 DEF Stage, CallOK, Response, Codes
  <2>6. CASE ~c.err /\ c.result = "OK" /\ c.body # "junk"
    <3>1. W(200, "OK")
      BY <1>8, <2>6 DEF Respond, Write
    <3>2. conn[r] \in P!Keys
      BY <2>1, <2>6 DEF Stage
    <3>3. QED
      BY <2>1, <2>2, <2>6, <3>1, <3>2 DEF Stage, CallOK, Response, Codes
  <2>7. QED
    BY <2>3, <2>4, <2>5, <2>6
<1>9. CASE UNCHANGED vars
  BY <1>9 DEF vars, pVars, hVars, Stage, CallOK
<1>10. QED
  BY <1>1, <1>2, <1>3, <1>4, <1>5, <1>6, <1>7, <1>8, <1>9 DEF Next, Handle

\* Every request is answered at most once, exactly once when its handler
\* has returned, and with code OK only after a call that went out on a
\* SubConn and came back OK with a body that decodes.
THEOREM ResponseCorrect == Spec => []ResponseReflectsCall
<1>1. HInv => ResponseReflectsCall
  <2> SUFFICES ASSUME HInv, NEW r \in Reqs
               PROVE  /\ Len(written[r]) <= 1
                      /\ hpc[r] = "done" => Len(written[r]) = 1
                      /\ \A i \in DOMAIN written[r] :
                           written[r][i].code = "OK" => CallOK(r)
    BY DEF ResponseReflectsCall, CallOK
  <2>1. written[r] \in Seq(Response)
    BY DEF HInv, TypeOK
  <2>2. CASE hpc[r] = "done"
    <3>1. Len(written[r]) = 1 /\ (written[r][1].code = "OK" => CallOK(r))
      BY <2>2 DEF HInv, Stage
    <3>2. DOMAIN written[r] = {1}
      BY <2>1, <3>1
    <3>3. QED
      BY <3>1, <3>2
  <2>3. CASE hpc[r] # "done"
    <3>1. written[r] = <<>>
      BY <2>3 DEF HInv, Stage, TypeOK
    <3>2. Len(written[r]) = 0 /\ DOMAIN written[r] = {}
      BY <3>1
    <3>3. QED
      BY <2>3, <3>2
  <2>4. QED
    BY <2>2, <2>3
<1>2. QED
  BY <1>1, InitHInv, StepHInv, PTL DEF Spec
=============================================================================
