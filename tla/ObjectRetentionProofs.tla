------------------------ MODULE ObjectRetentionProofs ------------------------
(***************************************************************************)
(* Proofs about ObjectRetention for every value of its constants: the type *)
(* invariant, through the inductive TypeInv.  ObjectRetentionOutcome       *)
(* proves PutOutcomeExact and ObjectRetentionRefinement the refinement of  *)
(* RetentionLock on top of it.                                             *)
(***************************************************************************)
EXTENDS ObjectRetention, TLAPS

USE CodecAssumption, ObjectRetentionAssumption

-----------------------------------------------------------------------------
(* What the codec operators return *)

\* A request body built from inputs that passed newObjectRetention and
\* xml.Marshal is a well-formed <Retention> document.
LEMMA MarshalledDocument ==
    ASSUME NEW m \in ModeInputs \cup {Nil}, NEW d \in DateInputs \cup {Nil},
           ~NewObjectRetention(m, d).err,
           ~MarshalRetention(NewObjectRetention(m, d).val).err
    PROVE  MarshalRetention(NewObjectRetention(m, d).val).doc \in Document
<1> DEFINE r == NewObjectRetention(m, d).val
<1>1. r.mode \in RetentionMode \cup {Empty} /\ (r.date = Nil \/ r.date \in Time)
  BY DEF NewObjectRetention, IsValid, RetentionMode
<1>2. r.date # Nil => r.date.instant # FarTime
  BY DEF MarshalRetention, MarshalTime
<1>3. QED
  BY <1>1, <1>2 DEF MarshalRetention, MarshalTime, Document, TimeText, Time

\* What GetObjectRetention decodes from a well-formed document.
LEMMA DecodedResult ==
    ASSUME NEW d \in Document
    PROVE  /\ DecodeRetention(d).mode \in RetentionMode \cup {Empty}
           /\ DecodeRetention(d).date \in Time \cup {Nil}
BY DEF DecodeRetention, Document, UnmarshalTime, TimeText, Time, Zones

\* The outcome classifications return results.
LEMMA OutcomeTypes ==
    ASSUME NEW r \in Response, r.body # Truncated => r.body \in Document \cup {Nil},
           ~r.err /\ r.status = 200 /\ r.body # Truncated => r.body \in Document
    PROVE  /\ PutOutcome(r) \in Result
           /\ GetOutcome(r) \in Result
<1>1. PutOutcome(r) \in Result
  BY DEF PutOutcome, Fail, Result, Response, Statuses, Kinds
<1>2. ~r.err /\ r.status = 200 /\ r.body # Truncated =>
         LET g == GetObjectRetentionResult(DecodeRetention(r.body))
         IN  [kind |-> "ok", status |-> 200, mode |-> g.mode, date |-> g.date] \in Result
  BY DecodedResult DEF GetObjectRetentionResult, Result, Statuses, Kinds
<1>3. GetOutcome(r) \in Result
  BY <1>2 DEF GetOutcome, Fail, Result, Response, Statuses, Kinds
<1>4. QED
  BY <1>1, <1>3

-----------------------------------------------------------------------------
(* Type correctness *)

\* A request in flight belongs to a waiting call of the same operation,
\* and a PUT carries a document.
ReqInv ==
    \A c \in Callers :
        req[c] # Nil =>
            /\ pc[c] = "wait"
            /\ req[c].method = "PUT" => req[c].body \in Document
            /\ req[c].method = "GET" <=> call[c].op = "GetRet"

\* A response belongs to a waiting call whose request was consumed; one to a GET that is not an error
\* and has status 200 carries a document, unless it broke off.
RespInv ==
    \A c \in Callers :
        resp[c] # Nil =>
            /\ pc[c] = "wait"
            /\ req[c] = Nil
            /\ call[c].op = "GetRet" /\ ~resp[c].err /\ resp[c].status = 200
               /\ resp[c].body # Truncated => resp[c].body \in Document

\* A call blocked in c.executeMethod passed the name checks.
WaitInv ==
    \A c \in Callers :
        pc[c] = "wait" => call[c] \in Call /\ NamesValid(call[c].bucket, call[c].object)

TypeInv == TypeOK /\ RespInv /\ ReqInv /\ WaitInv

\* What starting a call does to the counters and the call record.
LEMMA StartCallType ==
    ASSUME TypeOK, NEW c \in Callers, NEW cl \in Call, StartCall(c, cl)
    PROVE  /\ calls' \in 0..MaxCalls
           /\ call' \in [Callers -> Call \cup {Nil}]
           /\ applied' \in [Callers -> BOOLEAN]
           /\ pc[c] = "idle"
           /\ call' = [call EXCEPT ![c] = cl]
BY DEF StartCall, TypeOK

\* A call that returns before sending leaves a result.
LEMMA ReturnEarlyType ==
    ASSUME TypeOK, NEW c \in Callers, NEW k \in Kinds, ReturnEarly(c, k)
    PROVE  result' \in [Callers -> Result \cup {Nil}]
BY DEF ReturnEarly, Fail, Result, TypeOK, Statuses

\* A call that sends a request is waiting with no result.
LEMMA SendType ==
    ASSUME TypeOK, NEW c \in Callers, NEW r \in Request, Send(c, r)
    PROVE  /\ req' \in [Callers -> Request \cup {Nil}]
           /\ pc' \in [Callers -> {"idle", "wait"}]
           /\ result' \in [Callers -> Result \cup {Nil}]
BY DEF Send, TypeOK

LEMMA TypeInvInit == Init => TypeInv
BY DEF Init, TypeInv, TypeOK, RespInv, ReqInv, WaitInv, Targets, StoreMode

LEMMA TypeInvNext == TypeInv /\ [Next]_vars => TypeInv'
<1> SUFFICES ASSUME TypeInv, [Next]_vars PROVE TypeInv'
  OBVIOUS
<1>0. TypeOK /\ RespInv /\ ReqInv /\ WaitInv
  BY DEF TypeInv
<1> USE DEF TypeInv
<1>1. ASSUME NEW c \in Callers, NEW b \in Buckets, NEW o \in Objects,
             NEW v \in Versions \cup {NoVersion}, NEW m \in ModeInputs \cup {Nil},
             NEW d \in DateInputs \cup {Nil}, NEW bp \in BOOLEAN,
             PutObjectRetention(c, b, o, v, m, d, bp)
      PROVE  TypeInv'
  <2> DEFINE nr == NewObjectRetention(m, d)
             mr == MarshalRetention(nr.val)
             cl == [op |-> "PutRet", bucket |-> b, object |-> o, version |-> v,
                    mode |-> m, date |-> d, bypass |-> bp]
  <2>1. cl \in Call
    BY DEF Call
  <2>2. /\ calls' \in 0..MaxCalls
        /\ call' \in [Callers -> Call \cup {Nil}]
        /\ applied' \in [Callers -> BOOLEAN]
        /\ pc[c] = "idle"
        /\ call' = [call EXCEPT ![c] = cl]
        /\ UNCHANGED <<ret, resp, acked, lockedAtSend>>
    BY <1>0, <1>1, <2>1, StartCallType DEF PutObjectRetention
  <2>3. req[c] = Nil /\ resp[c] = Nil
    BY <1>0, <2>2 DEF ReqInv, RespInv
  <2>4. CASE ~NamesValid(b, o) \/ nr.err \/ mr.err
    <3>1. ReturnEarly(c, "validation") \/ ReturnEarly(c, "encode")
      BY <1>1, <2>4 DEF PutObjectRetention
    <3>2. UNCHANGED <<req, pc>>
      BY <3>1 DEF ReturnEarly
    <3>3. result' \in [Callers -> Result \cup {Nil}]
      BY <1>0, <3>1 DEF ReturnEarly, Fail, Result, TypeOK, Statuses, Kinds
    <3>4. ReqInv' /\ RespInv' /\ WaitInv'
      BY <1>0, <2>2, <2>3, <3>2 DEF ReqInv, RespInv, WaitInv, TypeOK
    <3>5. QED
      BY <1>0, <2>2, <3>2, <3>3, <3>4 DEF TypeOK
  <2>5. CASE NamesValid(b, o) /\ ~nr.err /\ ~mr.err
    <3> DEFINE rq == PutRetentionRequest(b, o, v, mr.doc, bp)
    <3>1. mr.doc \in Document
      BY <2>5, MarshalledDocument
    <3>2. rq \in Request /\ rq.method = "PUT" /\ rq.body \in Document
      BY <2>5, <3>1 DEF PutRetentionRequest, Request, NamesValid
    <3>3. Send(c, rq)
      BY <1>1, <2>5 DEF PutObjectRetention
    <3>4. /\ req' = [req EXCEPT ![c] = rq]
          /\ pc' = [pc EXCEPT ![c] = "wait"]
          /\ result' = [result EXCEPT ![c] = Nil]
      BY <3>3 DEF Send
    <3>5. ReqInv'
      BY <1>0, <2>2, <3>2, <3>4 DEF ReqInv, TypeOK
    <3>6. RespInv'
      BY <1>0, <2>2, <2>3, <3>4 DEF RespInv, TypeOK
    <3>7. WaitInv'
      BY <1>0, <2>1, <2>2, <2>5, <3>4 DEF WaitInv, TypeOK
    <3>8. QED
      BY <1>0, <2>2, <3>2, <3>4, <3>5, <3>6, <3>7 DEF TypeOK
  <2>6. QED
    BY <2>4, <2>5
<1>2. ASSUME NEW c \in Callers, NEW b \in Buckets, NEW o \in Objects,
             NEW v \in Versions \cup {NoVersion},
             GetObjectRetention(c, b, o, v)
      PROVE  TypeInv'
  <2> DEFINE cl == [op |-> "GetRet", bucket |-> b, object |-> o, version |-> v,
                    mode |-> Nil, date |-> Nil, bypass |-> FALSE]
  <2>1. cl \in Call
    BY DEF Call
  <2>2. /\ calls' \in 0..MaxCalls
        /\ call' \in [Callers -> Call \cup {Nil}]
        /\ applied' \in [Callers -> BOOLEAN]
        /\ pc[c] = "idle"
        /\ call' = [call EXCEPT ![c] = cl]
        /\ UNCHANGED <<ret, resp, acked>>
    BY <1>0, <1>2, <2>1, StartCallType DEF GetObjectRetention
  <2>3. req[c] = Nil /\ resp[c] = Nil
    BY <1>0, <2>2 DEF ReqInv, RespInv
  <2>5. CASE NamesValid(b, o)
    <3> DEFINE rq == GetRetentionRequest(b, o, v)
    <3>1. rq \in Request /\ rq.method = "GET"
      BY <2>5 DEF GetRetentionRequest, Request, NamesValid
    <3>2. Send(c, rq) /\ lockedAtSend' = [lockedAtSend EXCEPT ![c] = Intended(cl) \in acked]
      BY <1>2, <2>5 DEF GetObjectRetention
    <3>3. /\ req' = [req EXCEPT ![c] = rq]
          /\ pc' = [pc EXCEPT ![c] = "wait"]
          /\ result' = [result EXCEPT ![c] = Nil]
      BY <3>2 DEF Send
    <3>4. ReqInv'
      BY <1>0, <2>2, <3>1, <3>3 DEF ReqInv, TypeOK
    <3>5. RespInv'
      BY <1>0, <2>2, <2>3, <3>3 DEF RespInv, TypeOK
    <3>6. WaitInv'
      BY <1>0, <2>1, <2>2, <2>5, <3>3 DEF WaitInv, TypeOK
    <3>7. QED
      BY <1>0, <2>2, <3>1, <3>2, <3>3, <3>4, <3>5, <3>6 DEF TypeOK
  <2>6. CASE ~NamesValid(b, o)
    <3>1. ReturnEarly(c, "validation") /\ UNCHANGED lockedAtSend
      BY <1>2, <2>6 DEF GetObjectRetention
    <3>2. UNCHANGED <<req, pc>>
      BY <3>1 DEF ReturnEarly
    <3>3. result' \in [Callers -> Result \cup {Nil}]
      BY <1>0, <3>1 DEF ReturnEarly, Fail, Result, TypeOK, Statuses, Kinds
    <3>4. ReqInv' /\ RespInv' /\ WaitInv'
      BY <1>0, <2>2, <2>3, <3>2 DEF ReqInv, RespInv, WaitInv, TypeOK
    <3>5. QED
      BY <1>0, <2>2, <3>1, <3>2, <3>3, <3>4 DEF TypeOK
  <2>7. QED
    BY <2>5, <2>6
<1>3. ASSUME NEW c \in Callers, PutObjectRetentionReturn(c)
      PROVE  TypeInv'
  <2>1. resp[c] \in Response
    BY <1>0, <1>3 DEF PutObjectRetentionReturn, TypeOK
  <2>2. PutOutcome(resp[c]) \in Result
    BY <2>1 DEF PutOutcome, Fail, Result, Response, Statuses, Kinds
  <2>3. Intended(call[c]) \in Targets
    BY <1>0, <1>3 DEF PutObjectRetentionReturn, WaitInv, NamesValid, Call,
       Intended, Resolve, Targets
  <2>4. acked' \subseteq Targets
    BY <1>0, <1>3, <2>3 DEF PutObjectRetentionReturn, TypeOK
  <2>5. req[c] = Nil
    BY <1>0, <1>3 DEF PutObjectRetentionReturn, ReqInv, RespInv
  <2>6. ReqInv' /\ RespInv' /\ WaitInv'
    BY <1>0, <1>3, <2>5 DEF PutObjectRetentionReturn, ReqInv, RespInv, WaitInv, TypeOK
  <2>7. QED
    BY <1>0, <1>3, <2>2, <2>4, <2>6 DEF PutObjectRetentionReturn, TypeOK
<1>4. ASSUME NEW c \in Callers, GetObjectRetentionReturn(c)
      PROVE  TypeInv'
  <2>1. resp[c] \in Response /\ resp[c] # Nil
    BY <1>0, <1>4 DEF GetObjectRetentionReturn, TypeOK
  <2>2. resp[c].body # Truncated => resp[c].body \in Document \cup {Nil}
    BY <2>1 DEF Response
  <2>3. ~resp[c].err /\ resp[c].status = 200 /\ resp[c].body # Truncated =>
          resp[c].body \in Document
    BY <1>0, <1>4, <2>1 DEF RespInv, GetObjectRetentionReturn
  <2>4. GetOutcome(resp[c]) \in Result
    BY <2>1, <2>2, <2>3, OutcomeTypes
  <2>5. req[c] = Nil
    BY <1>0, <1>4 DEF GetObjectRetentionReturn, ReqInv, RespInv
  <2>6. ReqInv' /\ RespInv' /\ WaitInv'
    BY <1>0, <1>4, <2>5 DEF GetObjectRetentionReturn, ReqInv, RespInv, WaitInv, TypeOK
  <2>7. QED
    BY <1>0, <1>4, <2>4, <2>6 DEF GetObjectRetentionReturn, TypeOK
<1>5. ASSUME NEW c \in Callers, ServePutRetention(c)
      PROVE  TypeInv'
  <2> DEFINE r == req[c]
             t == Reached(r)
             new == Requested(r.body)
  <2>1. /\ r \in Request /\ r # Nil /\ r.method = "PUT" /\ r.body \in Document
        /\ pc[c] = "wait" /\ call[c].op # "GetRet"
    BY <1>0, <1>5 DEF ServePutRetention, TypeOK, ReqInv
  <2>2. t \in Targets
    BY <2>1 DEF Request, Reached, Resolve, Targets
  <2>3. new \in StoreMode
    BY <2>1 DEF Requested, Document, StoreMode
  <2>4. req' \in [Callers -> Request \cup {Nil}] /\ ReqInv'
    BY <1>0, <1>5 DEF ServePutRetention, TypeOK, ReqInv
  <2>5. /\ UNCHANGED <<pc, call, result, calls, acked, lockedAtSend>>
        /\ req' = [req EXCEPT ![c] = Nil]
    BY <1>5 DEF ServePutRetention
  <2>7. CASE Allowed(ret[t], new, r.bypass)
    <3>1. PICK s \in PutOkCodes :
            /\ ret' = [ret EXCEPT ![t] = new]
            /\ resp' = [resp EXCEPT ![c] = [err |-> FALSE, status |-> s, body |-> Nil]]
            /\ applied' = [applied EXCEPT ![c] = TRUE]
      BY <1>5, <2>7 DEF ServePutRetention
    <3>2. s \in Statuses
      BY DEF Statuses
    <3>3. resp' \in [Callers -> Response \cup {Nil}] /\ RespInv'
      BY <1>0, <2>1, <2>5, <3>1, <3>2 DEF TypeOK, RespInv, Response
    <3>4. QED
      BY <1>0, <2>2, <2>3, <2>4, <2>5, <3>1, <3>3 DEF TypeOK, WaitInv
  <2>8. CASE ~Allowed(ret[t], new, r.bypass)
    <3>1. /\ resp' = [resp EXCEPT ![c] = [err |-> FALSE, status |-> 403, body |-> Nil]]
          /\ UNCHANGED <<ret, applied>>
      BY <1>5, <2>8 DEF ServePutRetention
    <3>2. resp' \in [Callers -> Response \cup {Nil}] /\ RespInv'
      BY <1>0, <2>1, <2>5, <3>1 DEF TypeOK, RespInv, Response, Statuses
    <3>3. QED
      BY <1>0, <2>4, <2>5, <3>1, <3>2 DEF TypeOK, WaitInv
  <2>9. QED
    BY <2>7, <2>8
<1>6. ASSUME NEW c \in Callers, ServeGetRetention(c)
      PROVE  TypeInv'
  <2> DEFINE r == req[c]
             m == ret[Reached(r)]
  <2>1. r \in Request /\ r # Nil /\ pc[c] = "wait"
    BY <1>0, <1>6 DEF ServeGetRetention, TypeOK, ReqInv
  <2>2. m \in StoreMode
    BY <1>0, <2>1 DEF TypeOK, Request, Reached, Resolve, Targets
  <2>3. m # "NONE" => [Mode |-> m, RetainUntilDate |-> Nil] \in Document
    BY <2>2 DEF StoreMode, Document
  <2>4. UNCHANGED <<ret, pc, call, result, calls, applied, acked, lockedAtSend>>
    BY <1>6 DEF ServeGetRetention
  <2>5. resp' \in [Callers -> Response \cup {Nil}] /\ RespInv'
    BY <1>0, <1>6, <2>1, <2>3, <2>4 DEF ServeGetRetention, TypeOK, RespInv, Response,
       Statuses
  <2>6. req' \in [Callers -> Request \cup {Nil}] /\ ReqInv'
    BY <1>0, <1>6, <2>4 DEF ServeGetRetention, TypeOK, ReqInv
  <2>7. QED
    BY <1>0, <2>4, <2>5, <2>6 DEF TypeOK, WaitInv
<1>7. ASSUME NEW c \in Callers, DropRequest(c)
      PROVE  TypeInv'
  <2>1. pc[c] = "wait"
    BY <1>0, <1>7 DEF DropRequest, ReqInv
  <2>2. /\ req' = [req EXCEPT ![c] = Nil]
        /\ resp' = [resp EXCEPT ![c] = TransportError]
        /\ UNCHANGED <<ret, pc, call, result, calls, applied, acked, lockedAtSend>>
    BY <1>7 DEF DropRequest
  <2>3. resp' \in [Callers -> Response \cup {Nil}] /\ RespInv'
    BY <1>0, <2>1, <2>2 DEF TypeOK, RespInv, Response, TransportError, Statuses
  <2>4. req' \in [Callers -> Request \cup {Nil}] /\ ReqInv'
    BY <1>0, <2>2 DEF TypeOK, ReqInv
  <2>5. QED
    BY <1>0, <2>2, <2>3, <2>4 DEF TypeOK, WaitInv
<1>8. ASSUME NEW c \in Callers, LoseResponse(c)
      PROVE  TypeInv'
  <2>1. /\ resp[c] # Nil
        /\ resp' = [resp EXCEPT ![c] = TransportError]
        /\ UNCHANGED <<ret, pc, call, req, result, calls, applied, acked, lockedAtSend>>
    BY <1>8 DEF LoseResponse
  <2>2. resp' \in [Callers -> Response \cup {Nil}] /\ RespInv'
    BY <1>0, <2>1 DEF TypeOK, RespInv, Response, TransportError, Statuses
  <2>3. QED
    BY <1>0, <2>1, <2>2 DEF TypeOK, ReqInv, WaitInv
<1>10. ASSUME NEW c \in Callers, TruncateBody(c)
       PROVE  TypeInv'
  <2>1. resp' \in [Callers -> Response \cup {Nil}] /\ RespInv'
    BY <1>0, <1>10 DEF TruncateBody, TypeOK, RespInv, Response
  <2>2. QED
    BY <1>0, <1>10, <2>1 DEF TruncateBody, TypeOK, ReqInv, WaitInv
<1>11. CASE Finished \/ UNCHANGED vars
  BY <1>0, <1>11 DEF Finished, vars, TypeOK, RespInv, ReqInv, WaitInv
<1>9. QED
  <2>1. CASE Next /\ ~Finished
    <3>1. PICK c \in Callers :
                \/ \E b \in Buckets, o \in Objects, v \in Versions \cup {NoVersion} :
                      \/ \E m \in ModeInputs \cup {Nil}, d \in DateInputs \cup {Nil},
                            bypass \in BOOLEAN :
                            PutObjectRetention(c, b, o, v, m, d, bypass)
                      \/ GetObjectRetention(c, b, o, v)
                \/ PutObjectRetentionReturn(c)
                \/ GetObjectRetentionReturn(c)
                \/ ServePutRetention(c)
                \/ ServeGetRetention(c)
                \/ DropRequest(c)
                \/ LoseResponse(c)
                \/ TruncateBody(c)
      BY <2>1, Zenon DEF Next
    <3>2. CASE \E b \in Buckets, o \in Objects, v \in Versions \cup {NoVersion} :
                  \/ \E m \in ModeInputs \cup {Nil}, d \in DateInputs \cup {Nil},
                        bypass \in BOOLEAN :
                        PutObjectRetention(c, b, o, v, m, d, bypass)
                  \/ GetObjectRetention(c, b, o, v)
      BY <3>2, <1>1, <1>2
    <3>3. QED
      BY <3>1, <3>2, <1>3, <1>4, <1>5, <1>6, <1>7, <1>8, <1>10
  <2>2. QED
    BY <2>1, <1>11 DEF Next

\* ObjectRetention is type-correct.
THEOREM TypeCorrect == Spec => []TypeOK
<1>1. Init => TypeInv
  BY TypeInvInit
<1>2. TypeInv /\ [Next]_vars => TypeInv'
  BY TypeInvNext
<1>3. QED
  BY <1>1, <1>2, PTL DEF Spec, TypeInv
=============================================================================
