----------------------- MODULE ObjectRetentionVisible -----------------------
(***************************************************************************)
(* Proof of ComplianceLockVisible for every value of the constants: a      *)
(* GetObjectRetention sent after PutObjectRetention acknowledged a         *)
(* COMPLIANCE lock on its version reports COMPLIANCE whenever the store's  *)
(* answer reaches the caller.  It rests on the lock invariant of           *)
(* ObjectRetentionRefinement (an acknowledged version is in COMPLIANCE at  *)
(* the store) and follows the GET from send to return.                     *)
(***************************************************************************)
EXTENDS ObjectRetentionRefinement, TLAPS

USE CodecAssumption, ObjectRetentionAssumption

\* The <Retention> document the store answers for a version in COMPLIANCE.
LockedDocument == [Mode |-> "COMPLIANCE", RetainUntilDate |-> Nil]

\* A GET sent after the lock was acknowledged: its version stays
\* acknowledged, its request reaches that version, and the transport
\* outcome waiting for it is an error or a 200 carrying the COMPLIANCE
\* document, whole or broken off.
VisibleAt(c) ==
    pc[c] = "wait" /\ call[c].op = "GetRet" /\ lockedAtSend[c] =>
        /\ Intended(call[c]) \in acked
        /\ req[c] # Nil => Reached(req[c]) = Intended(call[c])
        /\ resp[c] # Nil =>
              \/ resp[c].err
              \/ resp[c].status = 200 /\ resp[c].body \in {LockedDocument, Truncated}

VisibleInv == \A c \in Callers : VisibleAt(c)

VInv == RInv /\ VisibleInv /\ ComplianceLockVisible

-----------------------------------------------------------------------------
(* What GetObjectRetention makes of the store's answer for a locked version *)

\* An error, or a 200 carrying the COMPLIANCE document whole or broken off,
\* is classified as a transport error, a decode error, or COMPLIANCE.
LEMMA LockedOutcome ==
    ASSUME NEW r,
           \/ r.err
           \/ r.status = 200 /\ r.body \in {LockedDocument, Truncated}
    PROVE  \/ GetOutcome(r).kind \in {"transport", "decode"}
           \/ GetOutcome(r).kind = "ok" /\ GetOutcome(r).mode = "COMPLIANCE"
<1>1. LockedDocument \in Document /\ Truncated # LockedDocument
  BY DEF LockedDocument, Document, RetentionMode
<1>2. DecodeRetention(LockedDocument).mode = "COMPLIANCE"
  BY DEF DecodeRetention, LockedDocument
<1>3. QED
  BY <1>1, <1>2 DEF GetOutcome, Fail, GetObjectRetentionResult

-----------------------------------------------------------------------------
(* The inductive invariant *)

LEMMA VisibleInvInit == Init => VisibleInv
BY DEF Init, VisibleInv, VisibleAt

LEMMA VisibleInvNext == RInv /\ VisibleInv /\ [Next]_vars => VisibleInv'
<1> SUFFICES ASSUME RInv, VisibleInv, [Next]_vars PROVE VisibleInv'
  OBVIOUS
<1>0. /\ TypeOK /\ RespInv /\ ReqInv /\ WaitInv /\ LockInv
      /\ \A d \in Callers : VisibleAt(d)
  BY DEF RInv, IInv, TypeInv, VisibleInv
<1> SUFFICES ASSUME NEW q \in Callers PROVE VisibleAt(q)'
  BY DEF VisibleInv
<1>1. ASSUME NEW c \in Callers, NEW b \in Buckets, NEW o \in Objects,
             NEW v \in Versions \cup {NoVersion}, NEW m \in ModeInputs \cup {Nil},
             NEW dt \in DateInputs \cup {Nil}, NEW bp \in BOOLEAN,
             PutObjectRetention(c, b, o, v, m, dt, bp)
      PROVE  VisibleAt(q)'
  <2>1. /\ call'[c].op = "PutRet"
        /\ call' = [call EXCEPT ![c] = call'[c]]
        /\ \E x : req' = [req EXCEPT ![c] = x]
        /\ \E y : pc' = [pc EXCEPT ![c] = y]
        /\ UNCHANGED <<resp, acked, lockedAtSend>>
    BY <1>0, <1>1 DEF PutObjectRetention, StartCall, Send, ReturnEarly, TypeOK
  <2>2. QED
    BY <1>0, <2>1 DEF VisibleAt, TypeOK
<1>2. ASSUME NEW c \in Callers, NEW b \in Buckets, NEW o \in Objects,
             NEW v \in Versions \cup {NoVersion},
             GetObjectRetention(c, b, o, v)
      PROVE  VisibleAt(q)'
  <2> DEFINE cl == [op |-> "GetRet", bucket |-> b, object |-> o, version |-> v,
                    mode |-> Nil, date |-> Nil, bypass |-> FALSE]
  <2>1. /\ call' = [call EXCEPT ![c] = cl]
        /\ pc[c] = "idle" /\ resp[c] = Nil
        /\ UNCHANGED <<resp, acked>>
    BY <1>0, <1>2 DEF GetObjectRetention, StartCall, RespInv
  <2>2. CASE NamesValid(b, o)
    <3>1. /\ req' = [req EXCEPT ![c] = GetRetentionRequest(b, o, v)]
          /\ pc' = [pc EXCEPT ![c] = "wait"]
          /\ lockedAtSend' = [lockedAtSend EXCEPT ![c] = Intended(cl) \in acked]
      BY <1>2, <2>2 DEF GetObjectRetention, Send
    <3>2. Reached(GetRetentionRequest(b, o, v)) = Intended(cl)
      BY DEF GetRetentionRequest, Reached, Intended
    <3>3. VisibleAt(c)'
      <4>1. call'[c] = cl /\ req'[c] = GetRetentionRequest(b, o, v)
            /\ lockedAtSend'[c] = (Intended(cl) \in acked) /\ resp'[c] = Nil
        BY <1>0, <2>1, <3>1 DEF TypeOK
      <4>2. QED
        BY <2>1, <3>2, <4>1 DEF VisibleAt
    <3>4. q # c => VisibleAt(q)'
      BY <1>0, <2>1, <3>1 DEF VisibleAt, TypeOK
    <3>5. QED
      BY <3>3, <3>4
  <2>3. CASE ~NamesValid(b, o)
    <3>1. UNCHANGED <<req, pc, lockedAtSend>>
      BY <1>2, <2>3 DEF GetObjectRetention, ReturnEarly
    <3>2. QED
      BY <1>0, <2>1, <3>1 DEF VisibleAt, TypeOK
  <2>4. QED
    BY <2>2, <2>3
<1>3. ASSUME NEW c \in Callers, PutObjectRetentionReturn(c)
      PROVE  VisibleAt(q)'
  <2>1. /\ call[c].op = "PutRet"
        /\ acked \subseteq acked'
        /\ \E y : pc' = [pc EXCEPT ![c] = y]
        /\ \E x : resp' = [resp EXCEPT ![c] = x]
        /\ UNCHANGED <<call, req, lockedAtSend>>
    BY <1>3 DEF PutObjectRetentionReturn
  <2>2. QED
    BY <1>0, <2>1 DEF VisibleAt, TypeOK
<1>4. ASSUME NEW c \in Callers, GetObjectRetentionReturn(c)
      PROVE  VisibleAt(q)'
  <2>1. /\ pc' = [pc EXCEPT ![c] = "idle"]
        /\ \E x : resp' = [resp EXCEPT ![c] = x]
        /\ UNCHANGED <<call, req, acked, lockedAtSend>>
    BY <1>4 DEF GetObjectRetentionReturn
  <2>2. QED
    BY <1>0, <2>1 DEF VisibleAt, TypeOK
<1>5. ASSUME NEW c \in Callers, ServePutRetention(c)
      PROVE  VisibleAt(q)'
  <2>1. /\ req[c] # Nil /\ req[c].method = "PUT"
        /\ req' = [req EXCEPT ![c] = Nil]
        /\ \E x : resp' = [resp EXCEPT ![c] = x]
        /\ UNCHANGED <<pc, call, acked, lockedAtSend>>
    BY <1>5 DEF ServePutRetention
  <2>2. call[c].op # "GetRet"
    BY <1>0, <2>1 DEF ReqInv
  <2>3. QED
    BY <1>0, <2>1, <2>2 DEF VisibleAt, TypeOK
<1>6. ASSUME NEW c \in Callers, ServeGetRetention(c)
      PROVE  VisibleAt(q)'
  <2> DEFINE r == req[c]
             mo == ret[Reached(r)]
  <2>1. /\ r # Nil /\ r.method = "GET"
        /\ req' = [req EXCEPT ![c] = Nil]
        /\ resp' = [resp EXCEPT ![c] =
                      IF mo = "NONE"
                      THEN [err |-> FALSE, status |-> 404, body |-> Nil]
                      ELSE [err |-> FALSE, status |-> 200,
                            body |-> [Mode |-> mo, RetainUntilDate |-> Nil]]]
        /\ UNCHANGED <<pc, call, acked, lockedAtSend>>
    BY <1>6 DEF ServeGetRetention
  <2>2. pc[c] = "wait" /\ call[c].op = "GetRet" /\ lockedAtSend[c] =>
          mo = "COMPLIANCE"
    BY <1>0, <2>1 DEF VisibleAt, LockInv
  <2>3. QED
    BY <1>0, <2>1, <2>2 DEF VisibleAt, TypeOK, LockedDocument
<1>7. ASSUME NEW c \in Callers, DropRequest(c) \/ LoseResponse(c)
      PROVE  VisibleAt(q)'
  <2>1. /\ \E x : req' = [req EXCEPT ![c] = x]
        /\ req'[c] = Nil \/ req'[c] = req[c]
        /\ resp' = [resp EXCEPT ![c] = TransportError]
        /\ UNCHANGED <<pc, call, acked, lockedAtSend>>
    BY <1>0, <1>7 DEF DropRequest, LoseResponse, TypeOK
  <2>2. QED
    BY <1>0, <2>1 DEF VisibleAt, TypeOK, TransportError
<1>8. ASSUME NEW c \in Callers, TruncateBody(c)
      PROVE  VisibleAt(q)'
  <2>1. /\ resp[c] \in Response /\ resp[c].status = 200 /\ ~resp[c].err
        /\ resp' = [resp EXCEPT ![c].body = Truncated]
        /\ UNCHANGED <<pc, call, req, acked, lockedAtSend>>
    BY <1>0, <1>8 DEF TruncateBody, TypeOK
  <2>2. QED
    BY <1>0, <2>1 DEF VisibleAt, TypeOK, Response
<1>9. CASE Finished \/ UNCHANGED vars
  BY <1>0, <1>9 DEF Finished, vars, VisibleAt
<1>10. QED
  <2>1. ASSUME NEW c \in Callers, DropRequest(c) PROVE VisibleAt(q)'
    BY <1>7, <2>1
  <2>2. ASSUME NEW c \in Callers, LoseResponse(c) PROVE VisibleAt(q)'
    BY <1>7, <2>2
  <2>3. CASE Next /\ ~Finished
    <3>1. PICK c \in Callers :
                \/ \E b \in Buckets, o \in Objects, v \in Versions \cup {NoVersion} :
                      \/ \E m \in ModeInputs \cup {Nil}, dt \in DateInputs \cup {Nil},
                            bp \in BOOLEAN :
                            PutObjectRetention(c, b, o, v, m, dt, bp)
                      \/ GetObjectRetention(c, b, o, v)
                \/ PutObjectRetentionReturn(c)
                \/ GetObjectRetentionReturn(c)
                \/ ServePutRetention(c)
                \/ ServeGetRetention(c)
                \/ DropRequest(c)
                \/ LoseResponse(c)
                \/ TruncateBody(c)
      BY <2>3, Zenon DEF Next
    <3>2. QED
      BY <3>1, <1>1, <1>2, <1>3, <1>4, <1>5, <1>6, <1>8, <1>9, <2>1, <2>2
  <2>4. QED
    BY <2>3, <1>9 DEF Next

\* ComplianceLockVisible for one caller.
LockVisibleAt(c) ==
    /\ Returned(c)
    /\ call[c].op = "GetRet"
    /\ lockedAtSend[c]
    /\ result[c].kind \in {"ok", "service"}
    => result[c].kind = "ok" /\ result[c].mode = "COMPLIANCE"

LEMMA LockVisibleNext ==
    RInv /\ VisibleInv /\ ComplianceLockVisible /\ [Next]_vars => ComplianceLockVisible'
<1> SUFFICES ASSUME RInv, VisibleInv, ComplianceLockVisible, [Next]_vars
             PROVE  ComplianceLockVisible'
  OBVIOUS
<1>0. /\ TypeOK /\ RespInv /\ WaitInv
      /\ \A d \in Callers : VisibleAt(d) /\ LockVisibleAt(d)
  BY DEF RInv, IInv, TypeInv, VisibleInv, ComplianceLockVisible, LockVisibleAt
<1> SUFFICES ASSUME NEW q \in Callers PROVE LockVisibleAt(q)'
  BY DEF ComplianceLockVisible, LockVisibleAt
<1>1. ASSUME NEW c \in Callers, NEW b \in Buckets, NEW o \in Objects,
             NEW v \in Versions \cup {NoVersion}, NEW m \in ModeInputs \cup {Nil},
             NEW dt \in DateInputs \cup {Nil}, NEW bp \in BOOLEAN,
             PutObjectRetention(c, b, o, v, m, dt, bp)
      PROVE  LockVisibleAt(q)'
  <2>1. /\ call'[c].op = "PutRet"
        /\ call' = [call EXCEPT ![c] = call'[c]]
        /\ \E x : result' = [result EXCEPT ![c] = x]
        /\ \E y : pc' = [pc EXCEPT ![c] = y]
        /\ UNCHANGED lockedAtSend
    BY <1>0, <1>1 DEF PutObjectRetention, StartCall, Send, ReturnEarly, TypeOK
  <2>2. QED
    BY <1>0, <2>1 DEF LockVisibleAt, Returned, TypeOK
<1>2. ASSUME NEW c \in Callers, NEW b \in Buckets, NEW o \in Objects,
             NEW v \in Versions \cup {NoVersion},
             GetObjectRetention(c, b, o, v)
      PROVE  LockVisibleAt(q)'
  <2>1. \E x : call' = [call EXCEPT ![c] = x]
    BY <1>2 DEF GetObjectRetention, StartCall
  <2>2. CASE NamesValid(b, o)
    <3>1. /\ pc' = [pc EXCEPT ![c] = "wait"]
          /\ result' = [result EXCEPT ![c] = Nil]
          /\ \E y : lockedAtSend' = [lockedAtSend EXCEPT ![c] = y]
      BY <1>2, <2>2 DEF GetObjectRetention, Send
    <3>2. QED
      BY <1>0, <2>1, <3>1 DEF LockVisibleAt, Returned, TypeOK
  <2>3. CASE ~NamesValid(b, o)
    <3>1. /\ UNCHANGED <<pc, lockedAtSend>>
          /\ result' = [result EXCEPT ![c] = Fail("validation", 0)]
      BY <1>2, <2>3 DEF GetObjectRetention, ReturnEarly
    <3>2. QED
      BY <1>0, <2>1, <3>1 DEF LockVisibleAt, Returned, TypeOK, Fail
  <2>4. QED
    BY <2>2, <2>3
<1>3. ASSUME NEW c \in Callers, PutObjectRetentionReturn(c)
      PROVE  LockVisibleAt(q)'
  <2>1. /\ call[c].op = "PutRet"
        /\ \E x : result' = [result EXCEPT ![c] = x]
        /\ \E y : pc' = [pc EXCEPT ![c] = y]
        /\ UNCHANGED <<call, lockedAtSend>>
    BY <1>3 DEF PutObjectRetentionReturn
  <2>2. QED
    BY <1>0, <2>1 DEF LockVisibleAt, Returned, TypeOK
<1>4. ASSUME NEW c \in Callers, GetObjectRetentionReturn(c)
      PROVE  LockVisibleAt(q)'
  <2>1. /\ pc[c] = "wait" /\ resp[c] # Nil
        /\ result' = [result EXCEPT ![c] = GetOutcome(resp[c])]
        /\ pc' = [pc EXCEPT ![c] = "idle"]
        /\ UNCHANGED <<call, lockedAtSend>>
    BY <1>4 DEF GetObjectRetentionReturn
  <2>2. call[c].op = "GetRet" /\ lockedAtSend[c] =>
          \/ GetOutcome(resp[c]).kind \in {"transport", "decode"}
          \/ GetOutcome(resp[c]).kind = "ok" /\ GetOutcome(resp[c]).mode = "COMPLIANCE"
    BY <1>0, <2>1, LockedOutcome DEF VisibleAt
  <2>3. LockVisibleAt(c)'
    BY <1>0, <2>1, <2>2 DEF LockVisibleAt, Returned, TypeOK
  <2>4. q # c => LockVisibleAt(q)'
    BY <1>0, <2>1 DEF LockVisibleAt, Returned, TypeOK
  <2>5. QED
    BY <2>3, <2>4
<1>5. ASSUME NEW c \in Callers,
             \/ ServePutRetention(c) \/ ServeGetRetention(c) \/ DropRequest(c)
             \/ LoseResponse(c) \/ TruncateBody(c)
      PROVE  LockVisibleAt(q)'
  <2>1. UNCHANGED <<pc, call, result, lockedAtSend>>
    BY <1>5 DEF ServePutRetention, ServeGetRetention, DropRequest, LoseResponse,
       TruncateBody
  <2>2. QED
    BY <1>0, <2>1 DEF LockVisibleAt, Returned
<1>6. CASE Finished \/ UNCHANGED vars
  BY <1>0, <1>6 DEF Finished, vars, LockVisibleAt, Returned
<1>7. QED
  <2>1. CASE Next /\ ~Finished
    <3>1. PICK c \in Callers :
                \/ \E b \in Buckets, o \in Objects, v \in Versions \cup {NoVersion} :
                      \/ \E m \in ModeInputs \cup {Nil}, dt \in DateInputs \cup {Nil},
                            bp \in BOOLEAN :
                            PutObjectRetention(c, b, o, v, m, dt, bp)
                      \/ GetObjectRetention(c, b, o, v)
                \/ PutObjectRetentionReturn(c)
                \/ GetObjectRetentionReturn(c)
                \/ ServePutRetention(c)
                \/ ServeGetRetention(c)
                \/ DropRequest(c)
                \/ LoseResponse(c)
                \/ TruncateBody(c)
      BY <2>1, Zenon DEF Next
    <3>2. ASSUME NEW c2 \in Callers, ServePutRetention(c2) PROVE LockVisibleAt(q)'
      BY <1>5, <3>2
    <3>3. ASSUME NEW c2 \in Callers, ServeGetRetention(c2) PROVE LockVisibleAt(q)'
      BY <1>5, <3>3
    <3>4. ASSUME NEW c2 \in Callers, DropRequest(c2) PROVE LockVisibleAt(q)'
      BY <1>5, <3>4
    <3>5. ASSUME NEW c2 \in Callers, LoseResponse(c2) PROVE LockVisibleAt(q)'
      BY <1>5, <3>5
    <3>6. ASSUME NEW c2 \in Callers, TruncateBody(c2) PROVE LockVisibleAt(q)'
      BY <1>5, <3>6
    <3>7. QED
      BY <3>1, <1>1, <1>2, <1>3, <1>4, <3>2, <3>3, <3>4, <3>5, <3>6
  <2>2. QED
    BY <2>1, <1>6 DEF Next

-----------------------------------------------------------------------------
\* ComplianceLockVisible holds in every reachable state, for every value of
\* the constants: once PutObjectRetention has acknowledged a COMPLIANCE lock
\* on a version, a GetObjectRetention of it sent later that the store
\* answers returns mode COMPLIANCE, never 404 NoSuchObjectLockConfiguration
\* and never another mode, whatever the other callers do meanwhile.
THEOREM ComplianceLockVisibleCorrect == Spec => []ComplianceLockVisible
<1>1. Init => VInv
  BY IInvInit, LockInvInit, VisibleInvInit
     DEF VInv, RInv, Init, ComplianceLockVisible, Returned
<1>2. VInv /\ [Next]_vars => VInv'
  BY IInvNext, LockInvNext, VisibleInvNext, LockVisibleNext DEF VInv, RInv
<1>3. QED
  BY <1>1, <1>2, PTL DEF Spec, VInv

=============================================================================
