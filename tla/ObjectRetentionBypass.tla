------------------------ MODULE ObjectRetentionBypass ------------------------
(***************************************************************************)
(* Proof of the action property GovernanceRemovedOnlyByBypass for every    *)
(* value of the constants.  The store lowers GOVERNANCE to no retention    *)
(* only for a PUT carrying the bypass-governance header (spec 4.4); what   *)
(* is to be shown of the client is that PutObjectRetention sets that       *)
(* header exactly when its caller set GovernanceBypass, which BypassInv    *)
(* says of every PUT in flight.                                            *)
(***************************************************************************)
EXTENDS ObjectRetentionProofs, TLAPS

USE CodecAssumption, ObjectRetentionAssumption

\* A PUT in flight carries the bypass header iff its call asked for it.
BypassInv ==
    \A c \in Callers :
        req[c] # Nil /\ req[c].method = "PUT" => req[c].bypass = call[c].bypass

\* The step GovernanceRemovedOnlyByBypass constrains.
BypassStep ==
    \A t \in Targets :
        ret[t] = "GOVERNANCE" /\ ret'[t] = "NONE" =>
            \E c \in Callers :
                /\ req[c] # Nil /\ req[c].method = "PUT"
                /\ Reached(req[c]) = t
                /\ req[c].bypass /\ call[c].bypass

LEMMA BypassInvInit == Init => BypassInv
BY DEF Init, BypassInv

LEMMA BypassInvNext == TypeInv /\ BypassInv /\ [Next]_vars => BypassInv'
<1> SUFFICES ASSUME TypeInv, BypassInv, [Next]_vars PROVE BypassInv'
  OBVIOUS
<1>0. TypeOK /\ ReqInv
  BY DEF TypeInv
<1>1. ASSUME NEW c \in Callers, NEW b \in Buckets, NEW o \in Objects,
             NEW v \in Versions \cup {NoVersion}, NEW m \in ModeInputs \cup {Nil},
             NEW d \in DateInputs \cup {Nil}, NEW bp \in BOOLEAN,
             PutObjectRetention(c, b, o, v, m, d, bp)
      PROVE  BypassInv'
  <2> DEFINE mr == MarshalRetention(NewObjectRetention(m, d).val)
  <2>1. /\ call' = [call EXCEPT ![c] = [op |-> "PutRet", bucket |-> b, object |-> o,
                                        version |-> v, mode |-> m, date |-> d,
                                        bypass |-> bp]]
        /\ req[c] = Nil
        /\ \/ UNCHANGED req
           \/ req' = [req EXCEPT ![c] = PutRetentionRequest(b, o, v, mr.doc, bp)]
    BY <1>0, <1>1 DEF PutObjectRetention, StartCall, Send, ReturnEarly, ReqInv
  <2>2. QED
    BY <1>0, <2>1 DEF BypassInv, PutRetentionRequest, TypeOK
<1>2. ASSUME NEW c \in Callers, NEW b \in Buckets, NEW o \in Objects,
             NEW v \in Versions \cup {NoVersion},
             GetObjectRetention(c, b, o, v)
      PROVE  BypassInv'
  <2>1. /\ \E x : call' = [call EXCEPT ![c] = x]
        /\ req[c] = Nil
        /\ \/ UNCHANGED req
           \/ req' = [req EXCEPT ![c] = GetRetentionRequest(b, o, v)]
    BY <1>0, <1>2 DEF GetObjectRetention, StartCall, Send, ReturnEarly, ReqInv
  <2>2. QED
    BY <1>0, <2>1 DEF BypassInv, GetRetentionRequest, TypeOK
<1>3. ASSUME NEW c \in Callers,
             \/ ServePutRetention(c) \/ ServeGetRetention(c) \/ DropRequest(c)
      PROVE  BypassInv'
  <2>1. req' = [req EXCEPT ![c] = Nil] /\ UNCHANGED call
    BY <1>3 DEF ServePutRetention, ServeGetRetention, DropRequest
  <2>2. QED
    BY <1>0, <2>1 DEF BypassInv, TypeOK
<1>4. ASSUME NEW c \in Callers,
             \/ PutObjectRetentionReturn(c) \/ GetObjectRetentionReturn(c)
             \/ LoseResponse(c) \/ TruncateBody(c)
      PROVE  BypassInv'
  BY <1>4 DEF PutObjectRetentionReturn, GetObjectRetentionReturn, LoseResponse,
     TruncateBody, BypassInv
<1>5. CASE Finished \/ UNCHANGED vars
  BY <1>5 DEF Finished, vars, BypassInv
<1>6. QED
  <2>1. CASE Next /\ ~Finished
    <3>1. PICK c \in Callers :
                \/ \E b \in Buckets, o \in Objects, v \in Versions \cup {NoVersion} :
                      \/ \E m \in ModeInputs \cup {Nil}, d \in DateInputs \cup {Nil},
                            bp \in BOOLEAN :
                            PutObjectRetention(c, b, o, v, m, d, bp)
                      \/ GetObjectRetention(c, b, o, v)
                \/ PutObjectRetentionReturn(c)
                \/ GetObjectRetentionReturn(c)
                \/ ServePutRetention(c)
                \/ ServeGetRetention(c)
                \/ DropRequest(c)
                \/ LoseResponse(c)
                \/ TruncateBody(c)
      BY <2>1, Zenon DEF Next
    <3>2. CASE ServePutRetention(c) \/ ServeGetRetention(c) \/ DropRequest(c)
      BY <1>3, <3>2
    <3>3. CASE \/ PutObjectRetentionReturn(c) \/ GetObjectRetentionReturn(c)
               \/ LoseResponse(c) \/ TruncateBody(c)
      BY <1>4, <3>3
    <3>4. QED
      BY <3>1, <3>2, <3>3, <1>1, <1>2
  <2>2. QED
    BY <2>1, <1>5 DEF Next

LEMMA BypassStepNext == TypeInv /\ BypassInv /\ [Next]_vars => [BypassStep]_vars
<1> SUFFICES ASSUME TypeInv, BypassInv, [Next]_vars PROVE [BypassStep]_vars
  OBVIOUS
<1>0. TypeOK /\ ReqInv
  BY DEF TypeInv
<1>1. ASSUME NEW c \in Callers, ServePutRetention(c) PROVE BypassStep
  <2> DEFINE r == req[c]
             t == Reached(r)
             new == Requested(r.body)
  <2>1. r # Nil /\ r.method = "PUT" /\ r \in Request /\ r.body \in Document
    BY <1>0, <1>1 DEF ServePutRetention, ReqInv, TypeOK
  <2>2. t \in Targets
    BY <2>1 DEF Request, Reached, Resolve, Targets
  <2>3. CASE Allowed(ret[t], new, r.bypass)
    <3>1. ret' = [ret EXCEPT ![t] = new]
      BY <1>1, <2>3 DEF ServePutRetention
    <3>2. ret[t] = "GOVERNANCE" /\ new = "NONE" => r.bypass
      BY <2>3 DEF Allowed, RetentionMode
    <3>3. r.bypass => call[c].bypass
      BY <2>1 DEF BypassInv
    <3>4. QED
      BY <1>0, <2>1, <2>2, <3>1, <3>2, <3>3 DEF BypassStep, TypeOK
  <2>4. CASE ~Allowed(ret[t], new, r.bypass)
    BY <1>1, <2>4 DEF ServePutRetention, BypassStep
  <2>5. QED
    BY <2>3, <2>4
<1>2. CASE Next /\ ~Finished
  <2>1. PICK c \in Callers :
              \/ \E b \in Buckets, o \in Objects, v \in Versions \cup {NoVersion} :
                    \/ \E m \in ModeInputs \cup {Nil}, d \in DateInputs \cup {Nil},
                          bp \in BOOLEAN :
                          PutObjectRetention(c, b, o, v, m, d, bp)
                    \/ GetObjectRetention(c, b, o, v)
              \/ PutObjectRetentionReturn(c)
              \/ GetObjectRetentionReturn(c)
              \/ ServePutRetention(c)
              \/ ServeGetRetention(c)
              \/ DropRequest(c)
              \/ LoseResponse(c)
              \/ TruncateBody(c)
    BY <1>2, Zenon DEF Next
  <2>2. CASE ServePutRetention(c)
    BY <1>1, <2>2
  <2>3. CASE ~ServePutRetention(c)
    <3>1. CASE \E b \in Buckets, o \in Objects, v \in Versions \cup {NoVersion} :
                    \/ \E m \in ModeInputs \cup {Nil}, d \in DateInputs \cup {Nil},
                          bp \in BOOLEAN :
                          PutObjectRetention(c, b, o, v, m, d, bp)
                    \/ GetObjectRetention(c, b, o, v)
      <4>1. PICK b \in Buckets, o \in Objects, v \in Versions \cup {NoVersion} :
                  \/ \E m \in ModeInputs \cup {Nil}, d \in DateInputs \cup {Nil},
                        bp \in BOOLEAN :
                        PutObjectRetention(c, b, o, v, m, d, bp)
                  \/ GetObjectRetention(c, b, o, v)
        BY <3>1
      <4>2. UNCHANGED ret
        BY <4>1 DEF PutObjectRetention, GetObjectRetention
      <4>3. QED
        BY <4>2 DEF BypassStep
    <3>2. CASE \/ PutObjectRetentionReturn(c) \/ GetObjectRetentionReturn(c)
               \/ ServeGetRetention(c) \/ DropRequest(c) \/ LoseResponse(c)
               \/ TruncateBody(c)
      <4>1. UNCHANGED ret
        BY <3>2 DEF PutObjectRetentionReturn, GetObjectRetentionReturn,
           ServeGetRetention, DropRequest, LoseResponse, TruncateBody
      <4>2. QED
        BY <4>1 DEF BypassStep
    <3>3. QED
      BY <2>1, <2>3, <3>1, <3>2
  <2>4. QED
    BY <2>2, <2>3
<1>3. CASE Finished \/ UNCHANGED vars
  BY <1>3 DEF Finished, vars
<1>4. QED
  BY <1>2, <1>3 DEF Next

\* GovernanceRemovedOnlyByBypass holds for every value of the constants:
\* no step of the callers, the store or the transport takes GOVERNANCE off a
\* version unless the store is serving a PUT of that version whose caller
\* asked PutObjectRetention for GovernanceBypass.
THEOREM GovernanceBypassCorrect == Spec => GovernanceRemovedOnlyByBypass
<1>1. Init => TypeInv /\ BypassInv
  BY TypeInvInit, BypassInvInit
<1>2. TypeInv /\ BypassInv /\ [Next]_vars => (TypeInv /\ BypassInv)'
  BY TypeInvNext, BypassInvNext
<1>3. TypeInv /\ BypassInv /\ [Next]_vars => [BypassStep]_vars
  BY BypassStepNext
<1>4. QED
  BY <1>1, <1>2, <1>3, PTL DEF Spec, GovernanceRemovedOnlyByBypass, BypassStep
=============================================================================
