---------------------- MODULE ObjectRetentionRefinement ----------------------
(***************************************************************************)
(* Proof that ObjectRetention implements the abstract RetentionLock under  *)
(* the mapping mode <- ret, locked <- acked, for every value of the        *)
(* constants, through the inductive invariant RInv == IInv /\ LockInv.     *)
(***************************************************************************)
EXTENDS ObjectRetentionOutcome, TLAPS

USE CodecAssumption, ObjectRetentionAssumption

\* What makes an acknowledgement of a COMPLIANCE lock true: a PUT of
\* COMPLIANCE in flight asks for COMPLIANCE on the version its call named;
\* once the store applied it that version stays locked; and every version
\* acknowledged is locked.
LockInv ==
    /\ \A c \in Callers :
          /\ req[c] # Nil /\ req[c].method = "PUT" /\ call[c].mode = "COMPLIANCE" =>
                /\ Reached(req[c]) = Intended(call[c])
                /\ Requested(req[c].body) = "COMPLIANCE"
          /\ applied[c] => Intended(call[c]) \in Targets
          /\ applied[c] /\ call[c].op = "PutRet" /\ call[c].mode = "COMPLIANCE" =>
                ret[Intended(call[c])] = "COMPLIANCE"
    /\ \A t \in acked : ret[t] = "COMPLIANCE"

RInv == IInv /\ LockInv

\* A PUT of COMPLIANCE that passed validation and encoding asks the store
\* for COMPLIANCE.
LEMMA CompliancePut ==
    ASSUME NEW d \in DateInputs \cup {Nil},
           ~NewObjectRetention("COMPLIANCE", d).err,
           ~MarshalRetention(NewObjectRetention("COMPLIANCE", d).val).err
    PROVE  Requested(MarshalRetention(NewObjectRetention("COMPLIANCE", d).val).doc)
             = "COMPLIANCE"
BY DEF NewObjectRetention, MarshalRetention, Requested

\* A version in COMPLIANCE mode may only be given COMPLIANCE again.
LEMMA ComplianceTerminal ==
    ASSUME NEW new, NEW bp, Allowed("COMPLIANCE", new, bp)
    PROVE  new = "COMPLIANCE"
BY DEF Allowed, RetentionMode

LEMMA LockInvInit == Init => LockInv
BY DEF Init, LockInv

LEMMA LockInvNext == RInv /\ [Next]_vars => LockInv'
<1> SUFFICES ASSUME RInv, [Next]_vars PROVE LockInv'
  OBVIOUS
<1>0. /\ TypeOK /\ RespInv /\ ReqInv /\ WaitInv /\ ExactInv /\ LockInv
  BY DEF RInv, IInv, TypeInv
<1>1. ASSUME NEW c \in Callers, NEW b \in Buckets, NEW o \in Objects,
             NEW v \in Versions \cup {NoVersion}, NEW m \in ModeInputs \cup {Nil},
             NEW d \in DateInputs \cup {Nil}, NEW bp \in BOOLEAN,
             PutObjectRetention(c, b, o, v, m, d, bp)
      PROVE  LockInv'
  <2> DEFINE nr == NewObjectRetention(m, d)
             mr == MarshalRetention(nr.val)
             cl == [op |-> "PutRet", bucket |-> b, object |-> o, version |-> v,
                    mode |-> m, date |-> d, bypass |-> bp]
  <2>1. /\ call' = [call EXCEPT ![c] = cl]
        /\ applied' = [applied EXCEPT ![c] = FALSE]
        /\ UNCHANGED <<ret, acked>>
    BY <1>1 DEF PutObjectRetention, StartCall
  <2>2. \/ UNCHANGED req
        \/ /\ req' = [req EXCEPT ![c] = PutRetentionRequest(b, o, v, mr.doc, bp)]
           /\ ~nr.err /\ ~mr.err
    BY <1>1 DEF PutObjectRetention, Send, ReturnEarly
  <2>3. req[c] = Nil
    BY <1>0, <1>1 DEF PutObjectRetention, StartCall, ReqInv
  <2>4. m = "COMPLIANCE" /\ ~nr.err /\ ~mr.err =>
          /\ Reached(PutRetentionRequest(b, o, v, mr.doc, bp)) = Intended(cl)
          /\ Requested(PutRetentionRequest(b, o, v, mr.doc, bp).body) = "COMPLIANCE"
    BY CompliancePut DEF PutRetentionRequest, Reached, Intended
  <2>5. QED
    BY <1>0, <2>1, <2>2, <2>3, <2>4 DEF LockInv, TypeOK
<1>2. ASSUME NEW c \in Callers, NEW b \in Buckets, NEW o \in Objects,
             NEW v \in Versions \cup {NoVersion},
             GetObjectRetention(c, b, o, v)
      PROVE  LockInv'
  <2>1. /\ call'[c].mode = Nil /\ Nil # "COMPLIANCE"
        /\ call' = [call EXCEPT ![c] = call'[c]]
        /\ applied' = [applied EXCEPT ![c] = FALSE]
        /\ \E x : req' = [req EXCEPT ![c] = x]
        /\ UNCHANGED <<ret, acked>>
    BY <1>0, <1>2 DEF GetObjectRetention, StartCall, Send, ReturnEarly, TypeOK
  <2>2. QED
    BY <1>0, <2>1 DEF LockInv, TypeOK
<1>3. ASSUME NEW c \in Callers, PutObjectRetentionReturn(c)
      PROVE  LockInv'
  <2> DEFINE out == PutOutcome(resp[c])
  <2>1. /\ resp[c] # Nil /\ call[c].op = "PutRet"
        /\ acked' = IF out.kind = "ok" /\ call[c].mode = "COMPLIANCE"
                    THEN acked \cup {Intended(call[c])} ELSE acked
        /\ UNCHANGED <<ret, call, req, applied>>
    BY <1>3 DEF PutObjectRetentionReturn
  <2>2. out.kind = "ok" => applied[c]
    BY <1>0, <2>1 DEF PutOutcome, Fail, ExactInv
  <2>3. QED
    BY <1>0, <2>1, <2>2 DEF LockInv
<1>4. ASSUME NEW c \in Callers, GetObjectRetentionReturn(c)
      PROVE  LockInv'
  BY <1>0, <1>4 DEF GetObjectRetentionReturn, LockInv, Reached, Intended, Requested, Resolve
<1>5. ASSUME NEW c \in Callers, ServePutRetention(c)
      PROVE  LockInv'
  <2> DEFINE r == req[c]
             t == Reached(r)
             new == Requested(r.body)
  <2>1. /\ req' = [req EXCEPT ![c] = Nil]
        /\ r # Nil /\ r.method = "PUT" /\ call[c].op = "PutRet"
        /\ UNCHANGED <<call, acked>>
    BY <1>0, <1>5 DEF ServePutRetention, ReqInv, WaitInv, Call
  <2>2. CASE Allowed(ret[t], new, r.bypass)
    <3>1. /\ ret' = [ret EXCEPT ![t] = new]
          /\ applied' = [applied EXCEPT ![c] = TRUE]
      BY <1>5, <2>2 DEF ServePutRetention
    <3>2. call[c].mode = "COMPLIANCE" => t = Intended(call[c]) /\ new = "COMPLIANCE"
      BY <1>0, <2>1 DEF LockInv
    <3>3. ret[t] = "COMPLIANCE" => new = "COMPLIANCE"
      BY <2>2, ComplianceTerminal
    <3>4. \A u \in Targets : ret[u] = "COMPLIANCE" => ret'[u] = "COMPLIANCE"
      BY <1>0, <3>1, <3>3 DEF TypeOK
    <3>5. t \in Targets
      BY <1>0, <2>1 DEF TypeOK, Request, Reached, Resolve, Targets
    <3>6. ret'[t] = new
      BY <1>0, <3>1, <3>5 DEF TypeOK
    <3>7. Intended(call[c]) \in Targets
      BY <1>0, <1>5 DEF ServePutRetention, ReqInv, WaitInv, NamesValid, Call, Intended,
         Resolve, Targets
    <3>8. QED
      BY <1>0, <2>1, <3>1, <3>2, <3>4, <3>6, <3>7 DEF LockInv, TypeOK
  <2>3. CASE ~Allowed(ret[t], new, r.bypass)
    <3>1. UNCHANGED <<ret, applied>>
      BY <1>5, <2>3 DEF ServePutRetention
    <3>2. QED
      BY <1>0, <2>1, <3>1 DEF LockInv
  <2>4. QED
    BY <2>2, <2>3
<1>6. ASSUME NEW c \in Callers, ServeGetRetention(c) \/ DropRequest(c)
      PROVE  LockInv'
  BY <1>0, <1>6 DEF ServeGetRetention, DropRequest, TypeOK, LockInv, Reached, Intended, Requested, Resolve
<1>7. ASSUME NEW c \in Callers, LoseResponse(c) \/ TruncateBody(c)
      PROVE  LockInv'
  BY <1>0, <1>7 DEF LoseResponse, TruncateBody, LockInv, Reached, Intended, Requested, Resolve
<1>8. CASE Finished \/ UNCHANGED vars
  BY <1>0, <1>8 DEF Finished, vars, LockInv, Reached, Intended, Requested, Resolve
<1>9. QED
  <2>1. CASE Next /\ ~Finished
    <3>1. PICK c \in Callers :
                \/ \E b \in Buckets, o \in Objects, v \in Versions \cup {NoVersion} :
                      \/ \E m \in ModeInputs \cup {Nil}, d \in DateInputs \cup {Nil},
                            bypass \in BOOLEAN :
                            PutObjectRetention(c, b, o, v, m, d, bypass)
                      \/ GetObjectRetention(c, b, o, v)
                \/ PutObjectRetentionReturn(c)
                \/ GetObjectRetentionReturn(c)
                \/ ServePutRetention(c)
                \/ ServeGetRetention(c)
                \/ DropRequest(c)
                \/ LoseResponse(c)
                \/ TruncateBody(c)
      BY <2>1, Zenon DEF Next
    <3>2. CASE ServeGetRetention(c) \/ DropRequest(c)
      BY <1>6, <3>2
    <3>3. CASE LoseResponse(c) \/ TruncateBody(c)
      BY <1>7, <3>3
    <3>4. QED
      BY <3>1, <3>2, <3>3, <1>1, <1>2, <1>3, <1>4, <1>5
  <2>2. QED
    BY <2>1, <1>8 DEF Next

\* Every step of ObjectRetention is a step of RetentionLock under the
\* mapping mode <- ret, locked <- acked, or leaves both unchanged.
LEMMA LockStep == RInv /\ [Next]_vars => [Lock!Next]_<<ret, acked>>
<1> SUFFICES ASSUME RInv, [Next]_vars PROVE Lock!Next \/ UNCHANGED <<ret, acked>>
  OBVIOUS
<1>0. /\ TypeOK /\ ReqInv /\ RespInv /\ WaitInv /\ ExactInv /\ LockInv
  BY DEF RInv, IInv, TypeInv
<1>1. ASSUME NEW c \in Callers, ServePutRetention(c)
      PROVE  Lock!Next \/ UNCHANGED <<ret, acked>>
  <2> DEFINE r == req[c]
             t == Reached(r)
             new == Requested(r.body)
  <2>1. UNCHANGED acked
    BY <1>1 DEF ServePutRetention
  <2>2. CASE Allowed(ret[t], new, r.bypass)
    <3>1. ret' = [ret EXCEPT ![t] = new]
      BY <1>1, <2>2 DEF ServePutRetention
    <3>2. r \in Request /\ r.method = "PUT" /\ r.body \in Document
      BY <1>0, <1>1 DEF ServePutRetention, TypeOK, ReqInv
    <3>3. t \in Targets /\ new \in Lock!Modes
      BY <3>2 DEF Request, Reached, Resolve, Targets, Requested, Document, RetentionMode, Lock!Modes
    <3>4. ret[t] = "COMPLIANCE" => new = "COMPLIANCE"
      BY <2>2, ComplianceTerminal
    <3>5. Lock!SetMode(t, new)
      BY <2>1, <3>1, <3>4 DEF Lock!SetMode
    <3>6. QED
      BY <3>3, <3>5 DEF Lock!Next
  <2>3. CASE ~Allowed(ret[t], new, r.bypass)
    BY <1>1, <2>1, <2>3 DEF ServePutRetention
  <2>4. QED
    BY <2>2, <2>3
<1>2. ASSUME NEW c \in Callers, PutObjectRetentionReturn(c)
      PROVE  Lock!Next \/ UNCHANGED <<ret, acked>>
  <2> DEFINE out == PutOutcome(resp[c])
             t == Intended(call[c])
  <2>1. /\ resp[c] # Nil /\ call[c].op = "PutRet"
        /\ acked' = IF out.kind = "ok" /\ call[c].mode = "COMPLIANCE"
                    THEN acked \cup {t} ELSE acked
        /\ UNCHANGED ret
    BY <1>2 DEF PutObjectRetentionReturn
  <2>2. CASE out.kind = "ok" /\ call[c].mode = "COMPLIANCE"
    <3>1. applied[c]
      BY <1>0, <2>1, <2>2 DEF PutOutcome, Fail, ExactInv
    <3>2. t \in Targets /\ ret[t] = "COMPLIANCE"
      BY <1>0, <2>1, <2>2, <3>1 DEF LockInv
    <3>3. Lock!Acknowledge(t)
      BY <2>1, <2>2, <3>2 DEF Lock!Acknowledge
    <3>4. QED
      BY <3>2, <3>3 DEF Lock!Next
  <2>3. CASE ~(out.kind = "ok" /\ call[c].mode = "COMPLIANCE")
    BY <2>1, <2>3
  <2>4. QED
    BY <2>2, <2>3
<1>3. ASSUME NEW c \in Callers, NEW b \in Buckets, NEW o \in Objects,
             NEW v \in Versions \cup {NoVersion},
             \/ \E m \in ModeInputs \cup {Nil}, d \in DateInputs \cup {Nil},
                   bp \in BOOLEAN : PutObjectRetention(c, b, o, v, m, d, bp)
             \/ GetObjectRetention(c, b, o, v)
      PROVE  UNCHANGED <<ret, acked>>
  BY <1>3 DEF PutObjectRetention, GetObjectRetention
<1>4. ASSUME NEW c \in Callers,
             \/ GetObjectRetentionReturn(c) \/ ServeGetRetention(c)
             \/ DropRequest(c) \/ LoseResponse(c) \/ TruncateBody(c)
      PROVE  UNCHANGED <<ret, acked>>
  BY <1>4 DEF GetObjectRetentionReturn, ServeGetRetention, DropRequest,
     LoseResponse, TruncateBody
<1>5. CASE Finished \/ UNCHANGED vars
  BY <1>5 DEF Finished, vars
<1>6. QED
  <2>1. ASSUME NEW c \in Callers, NEW b \in Buckets, NEW o \in Objects,
               NEW v \in Versions \cup {NoVersion}, NEW m \in ModeInputs \cup {Nil},
               NEW d \in DateInputs \cup {Nil}, NEW bp \in BOOLEAN,
               PutObjectRetention(c, b, o, v, m, d, bp)
        PROVE  Lock!Next \/ UNCHANGED <<ret, acked>>
    BY <1>3, <2>1
  <2>2. ASSUME NEW c \in Callers, NEW b \in Buckets, NEW o \in Objects,
               NEW v \in Versions \cup {NoVersion}, GetObjectRetention(c, b, o, v)
        PROVE  Lock!Next \/ UNCHANGED <<ret, acked>>
    BY <1>3, <2>2
  <2>3. ASSUME NEW c \in Callers, GetObjectRetentionReturn(c) PROVE Lock!Next \/ UNCHANGED <<ret, acked>>
    BY <1>4, <2>3
  <2>4. ASSUME NEW c \in Callers, ServeGetRetention(c) PROVE Lock!Next \/ UNCHANGED <<ret, acked>>
    BY <1>4, <2>4
  <2>5. ASSUME NEW c \in Callers, DropRequest(c) PROVE Lock!Next \/ UNCHANGED <<ret, acked>>
    BY <1>4, <2>5
  <2>6. ASSUME NEW c \in Callers, LoseResponse(c) PROVE Lock!Next \/ UNCHANGED <<ret, acked>>
    BY <1>4, <2>6
  <2>7. ASSUME NEW c \in Callers, TruncateBody(c) PROVE Lock!Next \/ UNCHANGED <<ret, acked>>
    BY <1>4, <2>7
  <2>8. CASE UNCHANGED vars
    BY <1>5, <2>8
  <2>9. CASE Finished
    BY <1>5, <2>9
  <2>10. ASSUME NEW c \in Callers, ServePutRetention(c) PROVE Lock!Next \/ UNCHANGED <<ret, acked>>
    BY <1>1, <2>10
  <2>11. ASSUME NEW c \in Callers, PutObjectRetentionReturn(c) PROVE Lock!Next \/ UNCHANGED <<ret, acked>>
    BY <1>2, <2>11
  <2>12. QED
    BY <2>1, <2>2, <2>3, <2>4, <2>5, <2>6, <2>7, <2>8, <2>9, <2>10, <2>11 DEF Next

\* ObjectRetention implements RetentionLock, for every value of the
\* constants: the store's retention modes change one version at a time and
\* never leave COMPLIANCE, and PutObjectRetention acknowledges a COMPLIANCE
\* lock only on the version it named and only once that version is locked.
THEOREM LockRefinementCorrect == Spec => LockRefinement
<1>1. Init => RInv
  BY IInvInit, LockInvInit DEF RInv
<1>2. RInv /\ [Next]_vars => RInv'
  BY IInvNext, LockInvNext DEF RInv
<1>3. Init => Lock!Init
  BY DEF Init, Lock!Init
<1>4. RInv /\ [Next]_vars => [Lock!Next]_<<ret, acked>>
  BY LockStep
<1>5. QED
  BY <1>1, <1>2, <1>3, <1>4, PTL DEF Spec, LockRefinement, Lock!Spec

=============================================================================
