------------------------ MODULE BucketEncryptionExact ------------------------
(***************************************************************************)
(* Proof of EncryptionOutcomeExact for every value of the constants, for a *)
(* store that answers an accepted PUT ?encryption with 200 only: the run   *)
(* encryption_set204 shows the property fails when it may answer 204,     *)
(* since SetBucketEncryption then reports a service error for a request   *)
(* the store carried out.                                                  *)
(***************************************************************************)
EXTENDS BucketEncryptionProofs, TLAPS

USE BucketEncryptionAssumption

\* The status codes with which the store answers a request it carried out.
OkCodes(op) == IF op = "Set" THEN SetOkCodes ELSE RemoveOkCodes

\* A waiting SetBucketEncryption or RemoveBucketEncryption: while its
\* request is in flight the store has not carried it out, and an answer
\* that is not a transport error says the store carried it out, with one of
\* the codes it uses for that.
ExactAt(c) ==
    pc[c] = "wait" /\ call[c].op \in {"Set", "Remove"} =>
        /\ req[c] # Nil => ~applied[c]
        /\ resp[c] # Nil /\ ~resp[c].err =>
              applied[c] /\ resp[c].status \in OkCodes(call[c].op)

ExactInv == \A c \in Callers : ExactAt(c)

\* EncryptionOutcomeExact for one caller.
OutAt(c) ==
    Returned(c) /\ call[c].op \in {"Set", "Remove"} =>
        /\ result[c].kind = "ok" => applied[c]
        /\ result[c].kind = "service" => ~applied[c]

EAt(c) == ExactAt(c) /\ OutAt(c)

\* The inductive invariant: ExactInv and EncryptionOutcomeExact, caller by
\* caller, with the type invariant.
ExactAll == \A c \in Callers : EAt(c)

EInv == TypeInv /\ ExactAll

-----------------------------------------------------------------------------

LEMMA ExactInvInit == Init => ExactInv /\ EncryptionOutcomeExact
BY DEF Init, ExactInv, ExactAt, EncryptionOutcomeExact, Returned

\* Both facts are about one caller's own variables only.
LEMMA EAtFrame ==
    ASSUME NEW q, EAt(q),
           pc'[q] = pc[q], call'[q] = call[q], req'[q] = req[q],
           resp'[q] = resp[q], (applied'[q] <=> applied[q]), result'[q] = result[q]
    PROVE  EAt(q)'
BY DEF EAt, ExactAt, OutAt, Returned, OkCodes

\* A call starts: its request, if any, is not carried out yet, and it has
\* no answer; a call refused at once reports a validation error.
LEMMA StartExact ==
    ASSUME TypeInv, NEW c \in Callers, NEW q \in Callers, EAt(q), NEW op \in Ops,
           NEW b \in Buckets, NEW cfg \in Configs \cup {Nil}, NEW valid \in BOOLEAN,
           NEW m, Start(c, [op |-> op, bucket |-> b, config |-> cfg], valid, "validation",
                        [method |-> m, bucket |-> b, body |-> cfg])
    PROVE  EAt(q)'
<1>0. TypeOK
  BY DEF TypeInv
<1>1. /\ pc[c] = "idle" /\ resp[c] = Nil
      /\ applied' = [applied EXCEPT ![c] = FALSE]
      /\ call' = [call EXCEPT ![c] = [op |-> op, bucket |-> b, config |-> cfg]]
      /\ UNCHANGED resp
  BY DEF Start, TypeInv, RespInv
<1>2. CASE q # c
  <2>1. /\ pc'[q] = pc[q] /\ req'[q] = req[q] /\ result'[q] = result[q]
    BY <1>0, <1>2 DEF Start, TypeOK
  <2>2. /\ call'[q] = call[q] /\ resp'[q] = resp[q] /\ (applied'[q] <=> applied[q])
    BY <1>0, <1>1, <1>2 DEF TypeOK
  <2>3. QED
    BY <2>1, <2>2, EAtFrame
<1>3. CASE q = c /\ valid
  <2>1. pc' = [pc EXCEPT ![c] = "wait"]
    BY <1>3 DEF Start
  <2>2. QED
    BY <1>0, <1>1, <1>3, <2>1 DEF TypeOK, EAt, ExactAt, OutAt, Returned
<1>4. CASE q = c /\ ~valid
  <2>1. /\ result' = [result EXCEPT ![c] = Fail("validation", 0)]
        /\ UNCHANGED pc
    BY <1>4 DEF Start
  <2>2. QED
    BY <1>0, <1>1, <1>4, <2>1 DEF TypeOK, EAt, ExactAt, OutAt, Returned, Fail
<1>5. QED
  BY <1>2, <1>3, <1>4

\* The call returns: SetOutcome and RemoveOutcome say "ok" only for an
\* answer the store gave after carrying the request out, and "service" only
\* for a status the store never gives such a request.
LEMMA ReturnExact ==
    ASSUME TypeInv, SetOkCodes = {200}, NEW c \in Callers, EAt(c), EncryptionReturn(c)
    PROVE  EAt(c)'
<1>0. TypeOK
  BY DEF TypeInv
<1>1. /\ pc[c] = "wait" /\ resp[c] # Nil
      /\ result' = [result EXCEPT ![c] =
                      IF call[c].op = "Set" THEN SetOutcome(resp[c])
                      ELSE IF call[c].op = "Remove" THEN RemoveOutcome(resp[c])
                      ELSE GetOutcome(resp[c])]
      /\ pc' = [pc EXCEPT ![c] = "idle"]
      /\ UNCHANGED <<call, applied>>
  BY DEF EncryptionReturn
<1>2. call[c].op \in {"Set", "Remove"} =>
        (~resp[c].err => applied[c] /\ resp[c].status \in OkCodes(call[c].op))
  BY <1>1 DEF EAt, ExactAt
<1>3. /\ pc'[c] = "idle" /\ call'[c] = call[c] /\ applied'[c] = applied[c]
  BY <1>0, <1>1 DEF TypeOK
<1>4. CASE call[c].op = "Set"
  <2>1. result'[c] = SetOutcome(resp[c])
    BY <1>0, <1>1, <1>4 DEF TypeOK
  <2>2. ~resp[c].err => applied[c] /\ resp[c].status = 200
    BY <1>2, <1>4 DEF OkCodes
  <2>3. QED
    BY <1>3, <1>4, <2>1, <2>2 DEF SetOutcome, Fail, Ok, EAt, ExactAt, OutAt
<1>5. CASE call[c].op = "Remove"
  <2>1. result'[c] = RemoveOutcome(resp[c])
    BY <1>0, <1>1, <1>5 DEF TypeOK
  <2>2. OkCodes(call[c].op) = RemoveOkCodes /\ RemoveOkCodes \subseteq {200, 204}
    BY <1>5 DEF OkCodes, BucketEncryptionAssumption
  <2>4. ~resp[c].err => applied[c] /\ resp[c].status \in {200, 204}
    BY <1>2, <1>5, <2>2, Zenon
  <2>3. QED
    BY <1>3, <1>5, <2>1, <2>4 DEF RemoveOutcome, Fail, Ok, EAt, ExactAt, OutAt
<1>6. CASE call[c].op \notin {"Set", "Remove"}
  BY <1>3, <1>6 DEF EAt, ExactAt, OutAt
<1>7. QED
  BY <1>4, <1>5, <1>6

\* The store carries a PUT or DELETE out and answers it with one of the
\* codes it uses for that operation.
LEMMA ServeExact ==
    ASSUME TypeInv, NEW c \in Callers, NEW op \in {"Set", "Remove"},
           req[c] # Nil, req[c].method = Method(op),
           applied' = [applied EXCEPT ![c] = TRUE],
           \E st \in OkCodes(op) : Answer(c, st, Nil),
           UNCHANGED <<pc, call, result>>
    PROVE  EAt(c)'
<1>0. TypeOK
  BY DEF TypeInv
<1>1. pc[c] = "wait" /\ req[c].method = Method(call[c].op)
  BY DEF TypeInv, ReqInv
<1>2. call[c].op = op
  BY <1>1 DEF TypeInv, WaitInv, Call, Ops, Method
<1>3. PICK st \in OkCodes(op) : Answer(c, st, Nil)
  OBVIOUS
<1>4. /\ req' = [req EXCEPT ![c] = Nil]
      /\ resp' = [resp EXCEPT ![c] = [err |-> FALSE, status |-> st, body |-> Nil]]
  BY <1>3, Zenon DEF Answer
<1>6. /\ req'[c] = Nil
      /\ resp'[c] = [err |-> FALSE, status |-> st, body |-> Nil]
      /\ applied'[c] = TRUE
  BY <1>0, <1>4 DEF TypeOK
<1>5. QED
  BY <1>1, <1>2, <1>3, <1>6 DEF EAt, ExactAt, OutAt, Returned

\* What the other steps do to the caller they act for: ServeGet answers a
\* GetBucketEncryption; a lost request or response becomes a transport
\* error; a truncated body keeps the status.
LEMMA OtherExact ==
    ASSUME TypeInv, NEW c \in Callers, EAt(c),
           ServeGet(c) \/ DropRequest(c) \/ LoseResponse(c) \/ TruncateBody(c)
    PROVE  EAt(c)'
<1>0. TypeOK /\ ReqInv /\ RespInv /\ WaitInv
  BY DEF TypeInv
<1>1. CASE ServeGet(c)
  <2>1. /\ req[c] # Nil /\ req[c].method = "GET"
        /\ UNCHANGED <<pc, call, result, applied>>
    BY <1>1 DEF ServeGet
  <2>2. pc[c] = "wait" /\ call[c].op \notin {"Set", "Remove"}
    BY <1>0, <2>1 DEF ReqInv, Method
  <2>3. QED
    BY <2>1, <2>2 DEF EAt, ExactAt, OutAt, Returned
<1>2. CASE DropRequest(c) \/ LoseResponse(c)
  <2>1. /\ resp' = [resp EXCEPT ![c] = TransportError]
        /\ \/ req' = [req EXCEPT ![c] = Nil]
           \/ req' = req
        /\ pc[c] = "wait"
        /\ UNCHANGED <<pc, call, result, applied>>
    BY <1>0, <1>2 DEF DropRequest, LoseResponse, ReqInv, RespInv
  <2>2. /\ resp'[c] = TransportError
        /\ req'[c] = Nil \/ req'[c] = req[c]
    BY <1>0, <2>1 DEF TypeOK
  <2>3. QED
    BY <2>1, <2>2 DEF EAt, ExactAt, OutAt, Returned, TransportError
<1>3. CASE TruncateBody(c)
  <2>1. /\ resp[c] # Nil
        /\ resp' = [resp EXCEPT ![c].body = Truncated]
        /\ UNCHANGED <<pc, call, req, result, applied>>
    BY <1>3 DEF TruncateBody
  <2>2. /\ pc[c] = "wait" /\ resp[c] \in Response
        /\ resp'[c].err = resp[c].err /\ resp'[c].status = resp[c].status
    BY <1>0, <2>1 DEF TypeOK, RespInv, Response
  <2>3. QED
    BY <2>1, <2>2 DEF EAt, ExactAt, OutAt, Returned
<1>4. QED
  BY <1>1, <1>2, <1>3

LEMMA ExactNext ==
    ASSUME SetOkCodes = {200}
    PROVE  TypeInv /\ ExactAll /\ [Next]_vars => ExactAll'
<1> SUFFICES ASSUME TypeInv, ExactAll, [Next]_vars,
                    NEW q \in Callers
             PROVE  EAt(q)'
  BY DEF ExactAll
<1>0. TypeOK
  BY DEF TypeInv
<1>1. EAt(q)
  BY DEF ExactAll
<1>2. ASSUME NEW c \in Callers, NEW b \in Buckets, NEW cfg \in Configs \cup {Nil}, SetBucketEncryption(c, b, cfg)
      PROVE  EAt(q)'
  <2> DEFINE cl == [op |-> "Set", bucket |-> b, config |-> cfg]
             r == [method |-> "PUT", bucket |-> b, body |-> cfg]
  <2>1. CASE b \in ValidBuckets /\ cfg # Nil
    <3>1. Start(c, cl, TRUE, "validation", r)
      BY <2>1, <1>2 DEF SetBucketEncryption, Start
    <3>2. QED
      BY <1>1, <3>1, StartExact DEF Ops
  <2>2. CASE ~(b \in ValidBuckets /\ cfg # Nil)
    <3>1. Start(c, cl, FALSE, "validation", r)
      BY <2>2, <1>2 DEF SetBucketEncryption, Start
    <3>2. QED
      BY <1>1, <3>1, StartExact DEF Ops
  <2>3. QED
    BY <2>1, <2>2
<1>3. ASSUME NEW c \in Callers, NEW b \in Buckets, RemoveBucketEncryption(c, b)
      PROVE  EAt(q)'
  <2> DEFINE cl == [op |-> "Remove", bucket |-> b, config |-> Nil]
             r == [method |-> "DELETE", bucket |-> b, body |-> Nil]
  <2>1. CASE b \in ValidBuckets
    <3>1. Start(c, cl, TRUE, "validation", r)
      BY <2>1, <1>3 DEF RemoveBucketEncryption, Start
    <3>2. QED
      BY <1>1, <3>1, StartExact DEF Ops
  <2>2. CASE ~(b \in ValidBuckets)
    <3>1. Start(c, cl, FALSE, "validation", r)
      BY <2>2, <1>3 DEF RemoveBucketEncryption, Start
    <3>2. QED
      BY <1>1, <3>1, StartExact DEF Ops
  <2>3. QED
    BY <2>1, <2>2
<1>4. ASSUME NEW c \in Callers, NEW b \in Buckets, GetBucketEncryption(c, b)
      PROVE  EAt(q)'
  <2> DEFINE cl == [op |-> "Get", bucket |-> b, config |-> Nil]
             r == [method |-> "GET", bucket |-> b, body |-> Nil]
  <2>1. CASE b \in ValidBuckets
    <3>1. Start(c, cl, TRUE, "validation", r)
      BY <2>1, <1>4 DEF GetBucketEncryption, Start
    <3>2. QED
      BY <1>1, <3>1, StartExact DEF Ops
  <2>2. CASE ~(b \in ValidBuckets)
    <3>1. Start(c, cl, FALSE, "validation", r)
      BY <2>2, <1>4 DEF GetBucketEncryption, Start
    <3>2. QED
      BY <1>1, <3>1, StartExact DEF Ops
  <2>3. QED
    BY <2>1, <2>2
<1>5. ASSUME NEW c \in Callers, EncryptionReturn(c)
      PROVE  EAt(q)'
  <2>1. CASE c = q
    BY <1>1, <1>5, <2>1, ReturnExact
  <2>2. CASE c # q
    <3>1. /\ pc'[q] = pc[q] /\ call'[q] = call[q] /\ req'[q] = req[q]
          /\ resp'[q] = resp[q] /\ (applied'[q] <=> applied[q]) /\ result'[q] = result[q]
      BY <1>0, <1>5, <2>2 DEF EncryptionReturn, TypeOK
    <3>2. QED
      BY <1>1, <3>1, EAtFrame
  <2>3. QED
    BY <2>1, <2>2
<1>6. ASSUME NEW c \in Callers, ServeSet(c)
      PROVE  EAt(q)'
  <2>1. CASE c = q
    <3>1. /\ req[c] # Nil /\ req[c].method = Method("Set")
          /\ applied' = [applied EXCEPT ![c] = TRUE]
          /\ \E st \in OkCodes("Set") : Answer(c, st, Nil)
          /\ UNCHANGED <<pc, call, result>>
      BY <1>6 DEF ServeSet, Method, OkCodes
    <3>2. QED
      BY <2>1, <3>1, ServeExact, Zenon
  <2>2. CASE c # q
    <3>1. PICK st \in SetOkCodes : Answer(c, st, Nil)
      BY <1>6 DEF ServeSet
    <3>5. /\ UNCHANGED <<pc, call, result>>
          /\ applied' = [applied EXCEPT ![c] = TRUE]
      BY <1>6 DEF ServeSet
    <3>6. (applied'[q] <=> applied[q])
      BY <1>0, <2>2, <3>5 DEF TypeOK
    <3>2. /\ pc'[q] = pc[q] /\ call'[q] = call[q]
          /\ (applied'[q] <=> applied[q]) /\ result'[q] = result[q]
      BY <3>5, <3>6
    <3>3. req'[q] = req[q] /\ resp'[q] = resp[q]
      BY <1>0, <2>2, <3>1 DEF Answer, TypeOK
    <3>4. QED
      BY <1>1, <3>2, <3>3, EAtFrame
  <2>3. QED
    BY <2>1, <2>2
<1>7. ASSUME NEW c \in Callers, ServeRemove(c)
      PROVE  EAt(q)'
  <2>1. CASE c = q
    <3>1. /\ req[c] # Nil /\ req[c].method = Method("Remove")
          /\ applied' = [applied EXCEPT ![c] = TRUE]
          /\ \E st \in OkCodes("Remove") : Answer(c, st, Nil)
          /\ UNCHANGED <<pc, call, result>>
      BY <1>7 DEF ServeRemove, Method, OkCodes
    <3>2. QED
      BY <2>1, <3>1, ServeExact, ZenonT(30)
  <2>2. CASE c # q
    <3>1. PICK st \in RemoveOkCodes : Answer(c, st, Nil)
      BY <1>7 DEF ServeRemove
    <3>5. /\ UNCHANGED <<pc, call, result>>
          /\ applied' = [applied EXCEPT ![c] = TRUE]
      BY <1>7 DEF ServeRemove
    <3>6. (applied'[q] <=> applied[q])
      BY <1>0, <2>2, <3>5 DEF TypeOK
    <3>2. /\ pc'[q] = pc[q] /\ call'[q] = call[q]
          /\ (applied'[q] <=> applied[q]) /\ result'[q] = result[q]
      BY <3>5, <3>6
    <3>3. req'[q] = req[q] /\ resp'[q] = resp[q]
      BY <1>0, <2>2, <3>1 DEF Answer, TypeOK
    <3>4. QED
      BY <1>1, <3>2, <3>3, EAtFrame
  <2>3. QED
    BY <2>1, <2>2
<1>8. ASSUME NEW c \in Callers,
             ServeGet(c) \/ DropRequest(c) \/ LoseResponse(c) \/ TruncateBody(c)
      PROVE  EAt(q)'
  <2>1. CASE c = q
    BY <1>1, <1>8, <2>1, OtherExact
  <2>2. CASE c # q
    <3>1. /\ pc'[q] = pc[q] /\ call'[q] = call[q] /\ req'[q] = req[q]
          /\ resp'[q] = resp[q] /\ (applied'[q] <=> applied[q]) /\ result'[q] = result[q]
      BY <1>0, <1>8, <2>2 DEF ServeGet, Answer, DropRequest, LoseResponse, TruncateBody, TypeOK
    <3>2. QED
      BY <1>1, <3>1, EAtFrame
  <2>3. QED
    BY <2>1, <2>2
<1>9. CASE Finished \/ UNCHANGED vars
  <2>1. UNCHANGED vars
    BY <1>9 DEF Finished
  <2>2. QED
    BY <1>1, <2>1, EAtFrame DEF vars
<1>10. QED
  <2>1. CASE Next /\ ~Finished
    <3>1. PICK c \in Callers :
                \/ \E b \in Buckets :
                      \/ \E cfg \in Configs \cup {Nil} : SetBucketEncryption(c, b, cfg)
                      \/ RemoveBucketEncryption(c, b)
                      \/ GetBucketEncryption(c, b)
                \/ EncryptionReturn(c)
                \/ ServeSet(c)
                \/ ServeRemove(c)
                \/ ServeGet(c)
                \/ DropRequest(c)
                \/ LoseResponse(c)
                \/ TruncateBody(c)
      BY <2>1, Zenon DEF Next
    <3>2. CASE \E b \in Buckets :
                  \/ \E cfg \in Configs \cup {Nil} : SetBucketEncryption(c, b, cfg)
                  \/ RemoveBucketEncryption(c, b)
                  \/ GetBucketEncryption(c, b)
      BY <3>2, <1>2, <1>3, <1>4
    <3>3. CASE ServeGet(c) \/ DropRequest(c) \/ LoseResponse(c) \/ TruncateBody(c)
      BY <1>8, <3>3
    <3>4. QED
      BY <3>1, <3>2, <3>3, <1>5, <1>6, <1>7
  <2>2. QED
    BY <2>1, <1>9 DEF Next

\* When the store answers an accepted PUT ?encryption with 200 only,
\* SetBucketEncryption and RemoveBucketEncryption report success only for a
\* request the store carried out and a service error only for one it did
\* not, whatever the number of callers, buckets and calls.
THEOREM EncryptionOutcomeExactCorrect ==
    ASSUME SetOkCodes = {200}
    PROVE  Spec => []EncryptionOutcomeExact
<1>1. Init => EInv
  BY TypeInvInit, ExactInvInit DEF EInv, ExactAll, EAt, ExactInv, EncryptionOutcomeExact, OutAt
<1>2. EInv /\ [Next]_vars => EInv'
  BY TypeInvNext, ExactNext DEF EInv
<1>3. EInv => EncryptionOutcomeExact
  BY DEF EInv, ExactAll, EAt, OutAt, EncryptionOutcomeExact
<1>4. QED
  BY <1>1, <1>2, <1>3, PTL DEF Spec

=============================================================================
