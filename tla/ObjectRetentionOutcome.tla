------------------------ MODULE ObjectRetentionOutcome ------------------------
(***************************************************************************)
(* Proof that PutObjectRetention's outcome classification is exact         *)
(* (PutOutcomeExact) for every value of the constants, through the         *)
(* inductive invariant IInv, which strengthens the type invariant TypeInv  *)
(* of ObjectRetentionProofs.                                               *)
(***************************************************************************)
EXTENDS ObjectRetentionProofs, TLAPS

USE CodecAssumption, ObjectRetentionAssumption

\* With TypeInv, the strengthening of PutOutcomeExact that is inductive: a
\* PUT still in flight has not been applied, and a response to a PUT that
\* is not a transport error has a success status exactly when the store
\* applied the PUT.
ExactInv ==
    \A c \in Callers :
        /\ req[c] # Nil => ~applied[c]
        /\ resp[c] # Nil /\ call[c].op = "PutRet" /\ ~resp[c].err =>
              (applied[c] <=> resp[c].status \in {200, 204})

IInv == TypeInv /\ ExactInv /\ PutOutcomeExact

LEMMA IInvInit == Init => IInv
BY TypeInvInit DEF Init, IInv, ExactInv, PutOutcomeExact, Returned

LEMMA IInvNext == IInv /\ [Next]_vars => IInv'
<1> SUFFICES ASSUME IInv, [Next]_vars PROVE IInv'
  OBVIOUS
<1>0. /\ TypeOK /\ RespInv /\ ReqInv /\ WaitInv /\ ExactInv /\ PutOutcomeExact
      /\ TypeInv'
  BY TypeInvNext DEF IInv, TypeInv
<1> SUFFICES ExactInv' /\ PutOutcomeExact'
  BY <1>0 DEF IInv
<1>1. ASSUME NEW c \in Callers, NEW b \in Buckets, NEW o \in Objects,
             NEW v \in Versions \cup {NoVersion}, NEW m \in ModeInputs \cup {Nil},
             NEW d \in DateInputs \cup {Nil}, NEW bp \in BOOLEAN,
             PutObjectRetention(c, b, o, v, m, d, bp)
      PROVE  ExactInv' /\ PutOutcomeExact'
  <2> DEFINE nr == NewObjectRetention(m, d)
             mr == MarshalRetention(nr.val)
             cl == [op |-> "PutRet", bucket |-> b, object |-> o, version |-> v,
                    mode |-> m, date |-> d, bypass |-> bp]
  <2>1. /\ pc[c] = "idle" /\ req[c] = Nil /\ resp[c] = Nil
        /\ call' = [call EXCEPT ![c] = cl]
        /\ applied' = [applied EXCEPT ![c] = FALSE]
        /\ UNCHANGED resp
    BY <1>0, <1>1 DEF PutObjectRetention, StartCall, ReqInv, RespInv
  <2>2. CASE ~NamesValid(b, o) \/ nr.err \/ mr.err
    <3>1. PICK k \in {"validation", "encode"} : ReturnEarly(c, k)
      BY <1>1, <2>2 DEF PutObjectRetention
    <3>2. /\ result' = [result EXCEPT ![c] = Fail(k, 0)]
          /\ UNCHANGED <<req, pc>>
      BY <3>1 DEF ReturnEarly
    <3>3. QED
      BY <1>0, <2>1, <3>2 DEF ExactInv, PutOutcomeExact, Returned, Fail, TypeOK
  <2>3. CASE NamesValid(b, o) /\ ~nr.err /\ ~mr.err
    <3>1. /\ req' = [req EXCEPT ![c] = PutRetentionRequest(b, o, v, mr.doc, bp)]
          /\ pc' = [pc EXCEPT ![c] = "wait"]
          /\ result' = [result EXCEPT ![c] = Nil]
      BY <1>1, <2>3 DEF PutObjectRetention, Send
    <3>2. QED
      BY <1>0, <2>1, <3>1 DEF ExactInv, PutOutcomeExact, Returned, TypeOK
  <2>4. QED
    BY <2>2, <2>3
<1>2. ASSUME NEW c \in Callers, NEW b \in Buckets, NEW o \in Objects,
             NEW v \in Versions \cup {NoVersion},
             GetObjectRetention(c, b, o, v)
      PROVE  ExactInv' /\ PutOutcomeExact'
  <2> DEFINE cl == [op |-> "GetRet", bucket |-> b, object |-> o, version |-> v,
                    mode |-> Nil, date |-> Nil, bypass |-> FALSE]
  <2>1. /\ pc[c] = "idle" /\ req[c] = Nil /\ resp[c] = Nil
        /\ call' = [call EXCEPT ![c] = cl]
        /\ applied' = [applied EXCEPT ![c] = FALSE]
        /\ UNCHANGED resp
    BY <1>0, <1>2 DEF GetObjectRetention, StartCall, ReqInv, RespInv
  <2>2. CASE NamesValid(b, o)
    <3>1. /\ req' = [req EXCEPT ![c] = GetRetentionRequest(b, o, v)]
          /\ pc' = [pc EXCEPT ![c] = "wait"]
          /\ result' = [result EXCEPT ![c] = Nil]
      BY <1>2, <2>2 DEF GetObjectRetention, Send
    <3>2. QED
      BY <1>0, <2>1, <3>1 DEF ExactInv, PutOutcomeExact, Returned, TypeOK
  <2>3. CASE ~NamesValid(b, o)
    <3>1. /\ result' = [result EXCEPT ![c] = Fail("validation", 0)]
          /\ UNCHANGED <<req, pc>>
      BY <1>2, <2>3 DEF GetObjectRetention, ReturnEarly
    <3>2. QED
      BY <1>0, <2>1, <3>1 DEF ExactInv, PutOutcomeExact, Returned, Fail, TypeOK
  <2>4. QED
    BY <2>2, <2>3
<1>3. ASSUME NEW c \in Callers, PutObjectRetentionReturn(c)
      PROVE  ExactInv' /\ PutOutcomeExact'
  <2> DEFINE out == PutOutcome(resp[c])
  <2>1. /\ resp[c] # Nil /\ call[c].op = "PutRet" /\ req[c] = Nil
        /\ result' = [result EXCEPT ![c] = out]
        /\ pc' = [pc EXCEPT ![c] = "idle"]
        /\ resp' = [resp EXCEPT ![c] = Nil]
        /\ UNCHANGED <<call, req, applied>>
    BY <1>0, <1>3 DEF PutObjectRetentionReturn, RespInv
  <2>2. /\ out.kind = "ok" => applied[c]
        /\ out.kind = "service" => ~applied[c]
    BY <1>0, <2>1 DEF PutOutcome, Fail, ExactInv
  <2>3. QED
    BY <1>0, <2>1, <2>2 DEF ExactInv, PutOutcomeExact, Returned, TypeOK
<1>4. ASSUME NEW c \in Callers, GetObjectRetentionReturn(c)
      PROVE  ExactInv' /\ PutOutcomeExact'
  <2>1. /\ call[c].op = "GetRet" /\ req[c] = Nil
        /\ pc' = [pc EXCEPT ![c] = "idle"]
        /\ resp' = [resp EXCEPT ![c] = Nil]
        /\ result' = [result EXCEPT ![c] = GetOutcome(resp[c])]
        /\ UNCHANGED <<call, req, applied>>
    BY <1>0, <1>4 DEF GetObjectRetentionReturn, RespInv
  <2>2. QED
    BY <1>0, <2>1 DEF ExactInv, PutOutcomeExact, Returned, TypeOK
<1>5. ASSUME NEW c \in Callers, ServePutRetention(c)
      PROVE  ExactInv' /\ PutOutcomeExact'
  <2> DEFINE r == req[c]
             t == Reached(r)
             new == Requested(r.body)
  <2>0. /\ r # Nil /\ r.method = "PUT"
        /\ req' = [req EXCEPT ![c] = Nil]
        /\ UNCHANGED <<pc, call, result>>
    BY <1>5 DEF ServePutRetention
  <2>1. /\ r # Nil /\ pc[c] = "wait" /\ ~applied[c] /\ call[c].op = "PutRet"
        /\ req' = [req EXCEPT ![c] = Nil]
        /\ UNCHANGED <<pc, call, result>>
    BY <1>0, <2>0 DEF ReqInv, ExactInv, WaitInv, Call
  <2>2. CASE Allowed(ret[t], new, r.bypass)
    <3>1. PICK s \in PutOkCodes :
            /\ resp' = [resp EXCEPT ![c] = [err |-> FALSE, status |-> s, body |-> Nil]]
            /\ applied' = [applied EXCEPT ![c] = TRUE]
      BY <1>5, <2>2 DEF ServePutRetention
    <3>2. s \in {200, 204}
      OBVIOUS
    <3>3. QED
      BY <1>0, <2>1, <3>1, <3>2 DEF ExactInv, PutOutcomeExact, Returned, TypeOK
  <2>3. CASE ~Allowed(ret[t], new, r.bypass)
    <3>1. /\ resp' = [resp EXCEPT ![c] = [err |-> FALSE, status |-> 403, body |-> Nil]]
          /\ UNCHANGED applied
      BY <1>5, <2>3 DEF ServePutRetention
    <3>2. QED
      BY <1>0, <2>1, <3>1 DEF ExactInv, PutOutcomeExact, Returned, TypeOK
  <2>4. QED
    BY <2>2, <2>3
<1>6. ASSUME NEW c \in Callers, ServeGetRetention(c)
      PROVE  ExactInv' /\ PutOutcomeExact'
  <2>1. /\ req[c] # Nil /\ call[c].op = "GetRet"
        /\ req' = [req EXCEPT ![c] = Nil]
        /\ \E x : resp' = [resp EXCEPT ![c] = x]
        /\ UNCHANGED <<pc, call, result, applied>>
    BY <1>0, <1>6 DEF ServeGetRetention, ReqInv
  <2>2. QED
    BY <1>0, <2>1 DEF ExactInv, PutOutcomeExact, Returned, TypeOK
<1>7. ASSUME NEW c \in Callers, DropRequest(c) \/ LoseResponse(c)
      PROVE  ExactInv' /\ PutOutcomeExact'
  <2>1. /\ resp' = [resp EXCEPT ![c] = TransportError]
        /\ \E x : req' = [req EXCEPT ![c] = x]
        /\ req'[c] = Nil
        /\ UNCHANGED <<pc, call, result, applied>>
    BY <1>0, <1>7 DEF DropRequest, LoseResponse, RespInv, TypeOK
  <2>2. QED
    BY <1>0, <2>1 DEF ExactInv, PutOutcomeExact, Returned, TypeOK, TransportError
<1>8. ASSUME NEW c \in Callers, TruncateBody(c)
      PROVE  ExactInv' /\ PutOutcomeExact'
  BY <1>0, <1>8 DEF TruncateBody, ExactInv, PutOutcomeExact, Returned, TypeOK
<1>9. CASE Finished \/ UNCHANGED vars
  BY <1>0, <1>9 DEF Finished, vars, ExactInv, PutOutcomeExact, Returned
<1>10. QED
  <2>1. CASE Next /\ ~Finished
    <3>1. PICK c \in Callers :
                \/ \E b \in Buckets, o \in Objects, v \in Versions \cup {NoVersion} :
                      \/ \E m \in ModeInputs \cup {Nil}, d \in DateInputs \cup {Nil},
                            bypass \in BOOLEAN :
                            PutObjectRetention(c, b, o, v, m, d, bypass)
                      \/ GetObjectRetention(c, b, o, v)
                \/ PutObjectRetentionReturn(c)
                \/ GetObjectRetentionReturn(c)
                \/ ServePutRetention(c)
                \/ ServeGetRetention(c)
                \/ DropRequest(c)
                \/ LoseResponse(c)
                \/ TruncateBody(c)
      BY <2>1, Zenon DEF Next
    <3>2. CASE DropRequest(c) \/ LoseResponse(c)
      BY <1>7, <3>2
    <3>3. QED
      BY <3>1, <3>2, <1>1, <1>2, <1>3, <1>4, <1>5, <1>6, <1>8
  <2>2. QED
    BY <2>1, <1>9 DEF Next

\* PutObjectRetention reports success only for a PUT the store applied,
\* and a service error only for one it refused, whatever the numbers of
\* callers, buckets, objects and versions and however the transport fails.
THEOREM PutOutcomeCorrect == Spec => []PutOutcomeExact
<1>1. Init => IInv
  BY IInvInit
<1>2. IInv /\ [Next]_vars => IInv'
  BY IInvNext
<1>3. IInv => PutOutcomeExact
  BY DEF IInv
<1>4. QED
  BY <1>1, <1>2, <1>3, PTL DEF Spec
=============================================================================
