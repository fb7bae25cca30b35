------------------------ MODULE BucketEncryptionProofs ------------------------
(***************************************************************************)
(* Proofs about BucketEncryption for every value of its constants: the     *)
(* type invariant, through the inductive TypeInv.  BucketEncryptionOutcome *)
(* proves EncryptionReadHeld and EncryptionOutcomeExact on top of it.      *)
(***************************************************************************)
EXTENDS BucketEncryption, TLAPS

USE BucketEncryptionAssumption

\* The request method each operation sends.
Method(op) == IF op = "Set" THEN "PUT" ELSE IF op = "Remove" THEN "DELETE" ELSE "GET"

\* A request in flight belongs to a waiting call: the method of its
\* operation, on the bucket it named.
ReqInv ==
    \A c \in Callers :
        req[c] # Nil =>
            /\ pc[c] = "wait"
            /\ req[c].method = Method(call[c].op)
            /\ req[c].bucket = call[c].bucket

\* A response belongs to a waiting call whose request was consumed.
RespInv ==
    \A c \in Callers : resp[c] # Nil => pc[c] = "wait" /\ req[c] = Nil

\* A call blocked in c.executeMethod passed the bucket check.
WaitInv ==
    \A c \in Callers : pc[c] = "wait" => call[c] \in Call /\ call[c].bucket \in ValidBuckets

TypeInv == TypeOK /\ ReqInv /\ RespInv /\ WaitInv

-----------------------------------------------------------------------------
(* Type correctness *)

\* What a call's start does: a well-typed call record, and on a valid
\* bucket a request of the operation's method on it.
LEMMA StartType ==
    ASSUME TypeInv, NEW c \in Callers, NEW op \in Ops, NEW b \in Buckets,
           NEW cfg \in Configs \cup {Nil}, NEW valid \in BOOLEAN,
           NEW m, m = Method(op), valid => b \in ValidBuckets,
           Start(c, [op |-> op, bucket |-> b, config |-> cfg], valid, "validation",
                 [method |-> m, bucket |-> b, body |-> cfg])
    PROVE  TypeInv'
<1> DEFINE cl == [op |-> op, bucket |-> b, config |-> cfg]
           r == [method |-> m, bucket |-> b, body |-> cfg]
<1>6. cl \in Call /\ r.method = Method(cl.op) /\ r.bucket = cl.bucket
  BY DEF Call
<1>0. TypeOK /\ ReqInv /\ RespInv /\ WaitInv
  BY DEF TypeInv
<1>1. pc[c] = "idle" /\ req[c] = Nil /\ resp[c] = Nil
  BY <1>0 DEF Start, ReqInv, RespInv
<1>2. /\ calls' \in 0..MaxCalls
      /\ call' = [call EXCEPT ![c] = cl]
      /\ applied' = [applied EXCEPT ![c] = FALSE]
      /\ UNCHANGED <<enc, resp>>
  BY <1>0 DEF Start, TypeOK
<1>3. CASE valid
  <2>1. /\ req' = [req EXCEPT ![c] = r]
        /\ pc' = [pc EXCEPT ![c] = "wait"]
        /\ result' = [result EXCEPT ![c] = Nil]
        /\ held' = [held EXCEPT ![c] = {enc[r.bucket]}]
    BY <1>3 DEF Start
  <2>2. r \in Request /\ enc[r.bucket] \in Configs \cup {Nil}
    BY <1>0, <1>3 DEF Request, Method, TypeOK
  <2>3. QED
    BY <1>6, <1>0, <1>1, <1>2, <1>3, <2>1, <2>2 DEF TypeInv, TypeOK, ReqInv, RespInv, WaitInv
<1>4. CASE ~valid
  <2>1. /\ result' = [result EXCEPT ![c] = Fail("validation", 0)]
        /\ UNCHANGED <<req, pc, held>>
    BY <1>4 DEF Start
  <2>2. Fail("validation", 0) \in Result
    BY DEF Fail, Result, Statuses, Kinds
  <2>3. QED
    BY <1>6, <1>0, <1>1, <1>2, <2>1, <2>2 DEF TypeInv, TypeOK, ReqInv, RespInv, WaitInv
<1>5. QED
  BY <1>3, <1>4

\* The outcome classifications return results.
LEMMA OutcomeTypes ==
    ASSUME NEW r \in Response
    PROVE  /\ SetOutcome(r) \in Result
           /\ RemoveOutcome(r) \in Result
           /\ GetOutcome(r) \in Result
BY DEF SetOutcome, RemoveOutcome, GetOutcome, Fail, Ok, Result, Response, Statuses, Kinds

LEMMA TypeInvInit == Init => TypeInv
BY DEF Init, TypeInv, TypeOK, ReqInv, RespInv, WaitInv

LEMMA TypeInvNext == TypeInv /\ [Next]_vars => TypeInv'
<1> SUFFICES ASSUME TypeInv, [Next]_vars PROVE TypeInv'
  OBVIOUS
<1>0. TypeOK /\ ReqInv /\ RespInv /\ WaitInv
  BY DEF TypeInv
<1>1. ASSUME NEW c \in Callers, NEW b \in Buckets, NEW cfg \in Configs \cup {Nil},
             SetBucketEncryption(c, b, cfg)
      PROVE  TypeInv'
  <2>1. "PUT" = Method("Set") /\ "Set" \in Ops
    BY DEF Method, Ops
  <2>2. QED
    BY <1>1, <2>1, StartType DEF SetBucketEncryption
<1>2. ASSUME NEW c \in Callers, NEW b \in Buckets, RemoveBucketEncryption(c, b)
      PROVE  TypeInv'
  <2>1. "DELETE" = Method("Remove") /\ "Remove" \in Ops /\ Nil \in Configs \cup {Nil}
    BY DEF Method, Ops
  <2>2. QED
    <3> DEFINE cl == [op |-> "Remove", bucket |-> b, config |-> Nil]
               r == [method |-> "DELETE", bucket |-> b, body |-> Nil]
    <3>1. Start(c, cl, b \in ValidBuckets, "validation", r)
      BY <1>2 DEF RemoveBucketEncryption
    <3>2. CASE b \in ValidBuckets
      <4>1. Start(c, cl, TRUE, "validation", r)
        BY <3>1, <3>2 DEF Start
      <4>2. QED
        BY <2>1, <3>2, <4>1, StartType
    <3>3. CASE b \notin ValidBuckets
      <4>1. Start(c, cl, FALSE, "validation", r)
        BY <3>1, <3>3 DEF Start
      <4>2. QED
        BY <2>1, <4>1, StartType
    <3>4. QED
      BY <3>2, <3>3
<1>3. ASSUME NEW c \in Callers, NEW b \in Buckets, GetBucketEncryption(c, b)
      PROVE  TypeInv'
  <2>1. "GET" = Method("Get") /\ "Get" \in Ops /\ Nil \in Configs \cup {Nil}
    BY DEF Method, Ops
  <2>2. QED
    <3> DEFINE cl == [op |-> "Get", bucket |-> b, config |-> Nil]
               r == [method |-> "GET", bucket |-> b, body |-> Nil]
    <3>1. Start(c, cl, b \in ValidBuckets, "validation", r)
      BY <1>3 DEF GetBucketEncryption
    <3>2. CASE b \in ValidBuckets
      <4>1. Start(c, cl, TRUE, "validation", r)
        BY <3>1, <3>2 DEF Start
      <4>2. QED
        BY <2>1, <3>2, <4>1, StartType
    <3>3. CASE b \notin ValidBuckets
      <4>1. Start(c, cl, FALSE, "validation", r)
        BY <3>1, <3>3 DEF Start
      <4>2. QED
        BY <2>1, <4>1, StartType
    <3>4. QED
      BY <3>2, <3>3
<1>4. ASSUME NEW c \in Callers, EncryptionReturn(c)
      PROVE  TypeInv'
  <2>1. resp[c] \in Response /\ req[c] = Nil
    BY <1>0, <1>4 DEF EncryptionReturn, TypeOK, RespInv
  <2>2. /\ result'[c] \in Result
        /\ result' = [result EXCEPT ![c] = result'[c]]
    BY <1>0, <1>4, <2>1, OutcomeTypes DEF EncryptionReturn, TypeOK
  <2>3. QED
    BY <1>0, <1>4, <2>1, <2>2 DEF EncryptionReturn, TypeInv, TypeOK, ReqInv, RespInv, WaitInv
<1>6. ASSUME NEW c \in Callers, ServeSet(c) PROVE TypeInv'
  <2>1. PICK st \in SetOkCodes : Answer(c, st, Nil)
    BY <1>6 DEF ServeSet
  <2>2. /\ req[c] # Nil /\ req[c] \in Request /\ Store(req[c].bucket, req[c].body)
        /\ applied' = [applied EXCEPT ![c] = TRUE]
        /\ UNCHANGED <<pc, call, result, calls>>
    BY <1>0, <1>6 DEF ServeSet, TypeOK
  <2>3. /\ enc' \in [ValidBuckets -> Configs \cup {Nil}]
        /\ held' \in [Callers -> SUBSET (Configs \cup {Nil})]
    BY <1>0, <2>2 DEF Store, TypeOK, Request
  <2>4. /\ req' = [req EXCEPT ![c] = Nil]
        /\ resp' = [resp EXCEPT ![c] = [err |-> FALSE, status |-> st, body |-> Nil]]
        /\ st \in {200, 204}
    BY <2>1 DEF Answer
  <2>5. QED
    BY <1>0, <2>2, <2>3, <2>4 DEF TypeInv, TypeOK, ReqInv, RespInv, WaitInv, Response,
       Statuses
<1>12. ASSUME NEW c \in Callers, ServeRemove(c) PROVE TypeInv'
  <2>1. PICK st \in RemoveOkCodes : Answer(c, st, Nil)
    BY <1>12 DEF ServeRemove
  <2>2. /\ req[c] # Nil /\ req[c] \in Request /\ Store(req[c].bucket, Nil)
        /\ applied' = [applied EXCEPT ![c] = TRUE]
        /\ UNCHANGED <<pc, call, result, calls>>
    BY <1>0, <1>12 DEF ServeRemove, TypeOK
  <2>3. /\ enc' \in [ValidBuckets -> Configs \cup {Nil}]
        /\ held' \in [Callers -> SUBSET (Configs \cup {Nil})]
    BY <1>0, <2>2 DEF Store, TypeOK, Request
  <2>4. /\ req' = [req EXCEPT ![c] = Nil]
        /\ resp' = [resp EXCEPT ![c] = [err |-> FALSE, status |-> st, body |-> Nil]]
        /\ st \in {200, 204}
    BY <2>1 DEF Answer
  <2>5. QED
    BY <1>0, <2>2, <2>3, <2>4 DEF TypeInv, TypeOK, ReqInv, RespInv, WaitInv, Response,
       Statuses
<1>7. ASSUME NEW c \in Callers, ServeGet(c)
      PROVE  TypeInv'
  <2> DEFINE cfg == enc[req[c].bucket]
  <2>1. /\ req[c] # Nil /\ req[c] \in Request
        /\ cfg \in Configs \cup {Nil}
        /\ UNCHANGED <<enc, pc, call, result, calls, applied, held>>
    BY <1>0, <1>7 DEF ServeGet, TypeOK, Request
  <2>2. \E st \in Statuses, bd \in Configs \cup {Nil} : Answer(c, st, bd)
    BY <1>7, <2>1 DEF ServeGet, Statuses
  <2>3. PICK st \in Statuses, bd \in Configs \cup {Nil} : Answer(c, st, bd)
    BY <2>2
  <2>4. /\ req' = [req EXCEPT ![c] = Nil]
        /\ resp' = [resp EXCEPT ![c] = [err |-> FALSE, status |-> st, body |-> bd]]
    BY <2>3 DEF Answer
  <2>5. QED
    BY <1>0, <2>1, <2>4 DEF TypeInv, TypeOK, ReqInv, RespInv, WaitInv, Response
<1>8. ASSUME NEW c \in Callers, DropRequest(c)
      PROVE  TypeInv'
  BY <1>0, <1>8 DEF DropRequest, TypeInv, TypeOK, ReqInv, RespInv, WaitInv,
     TransportError, Response
<1>9. ASSUME NEW c \in Callers, LoseResponse(c)
      PROVE  TypeInv'
  BY <1>0, <1>9 DEF LoseResponse, TypeInv, TypeOK, ReqInv, RespInv, WaitInv,
     TransportError, Response
<1>13. ASSUME NEW c \in Callers, TruncateBody(c)
      PROVE  TypeInv'
  <2>1. resp[c] \in Response /\ resp' = [resp EXCEPT ![c].body = Truncated]
    BY <1>0, <1>13 DEF TruncateBody, TypeOK
  <2>2. resp'[c] \in Response /\ resp' = [resp EXCEPT ![c] = resp'[c]]
    BY <1>0, <2>1 DEF TypeOK, Response
  <2>3. QED
    BY <1>0, <1>13, <2>2 DEF TruncateBody, TypeInv, TypeOK, ReqInv, RespInv, WaitInv
<1>10. CASE Finished \/ UNCHANGED vars
  BY <1>0, <1>10 DEF Finished, vars, TypeInv, TypeOK, ReqInv, RespInv, WaitInv
<1>11. QED
  <2>1. CASE Next /\ ~Finished
    <3>1. PICK c \in Callers :
                \/ \E b \in Buckets :
                      \/ \E cfg \in Configs \cup {Nil} : SetBucketEncryption(c, b, cfg)
                      \/ RemoveBucketEncryption(c, b)
                      \/ GetBucketEncryption(c, b)
                \/ EncryptionReturn(c)
                \/ ServeSet(c)
                \/ ServeRemove(c)
                \/ ServeGet(c)
                \/ DropRequest(c)
                \/ LoseResponse(c)
                \/ TruncateBody(c)
      BY <2>1, Zenon DEF Next
    <3>2. QED
      BY <3>1, <1>1, <1>2, <1>3, <1>4, <1>6, <1>7, <1>8, <1>9, <1>12, <1>13
  <2>2. QED
    BY <2>1, <1>10 DEF Next

\* Every reachable state of BucketEncryption is well typed, for every
\* value of the constants: the store maps valid buckets to configurations,
\* and every request, response and result a caller holds has its type.
THEOREM TypeCorrect == Spec => []TypeOK
<1>1. Init => TypeInv
  BY TypeInvInit
<1>2. TypeInv /\ [Next]_vars => TypeInv'
  BY TypeInvNext
<1>3. QED
  BY <1>1, <1>2, PTL DEF Spec, TypeInv

=============================================================================
