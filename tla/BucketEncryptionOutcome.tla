----------------------- MODULE BucketEncryptionOutcome -----------------------
(***************************************************************************)
(* Proof of EncryptionReadHeld for every value of the constants, through  *)
(* HeldInv, which follows a GetBucketEncryption from send to return and    *)
(* keeps the bucket's current configuration among those the call saw.     *)
(***************************************************************************)
EXTENDS BucketEncryptionProofs, TLAPS

USE BucketEncryptionAssumption

\* A waiting GetBucketEncryption has seen the bucket's current
\* configuration, and the answer the store gave it is one it has seen:
\* a 200 carries a held configuration (or broke off), a 404 means the
\* bucket had none at some moment.
HeldAt(c) ==
    pc[c] = "wait" /\ call[c].op = "Get" =>
        /\ enc[call[c].bucket] \in held[c]
        /\ resp[c] # Nil /\ ~resp[c].err =>
              /\ resp[c].status = 200 => resp[c].body \in held[c] \cup {Truncated}
              /\ resp[c].status = 404 => Nil \in held[c]

HeldInv == \A c \in Callers : HeldAt(c)

\* EncryptionReadHeld for one caller.
ReadAt(c) ==
    Returned(c) /\ call[c].op = "Get" =>
        /\ result[c].kind = "ok" => result[c].config \in held[c]
        /\ result[c].kind = "service" /\ result[c].status = 404 => Nil \in held[c]

HInv == TypeInv /\ HeldInv /\ EncryptionReadHeld

-----------------------------------------------------------------------------
(* EncryptionReadHeld *)

\* What GetBucketEncryption makes of an answer it has seen.
LEMMA GetOutcomeHeld ==
    ASSUME NEW r, NEW H,
           ~r.err => /\ r.status = 200 => r.body \in H \cup {Truncated}
                     /\ r.status = 404 => Nil \in H
    PROVE  /\ GetOutcome(r).kind = "ok" => GetOutcome(r).config \in H
           /\ GetOutcome(r).kind = "service" /\ GetOutcome(r).status = 404 => Nil \in H
BY DEF GetOutcome, Fail, Ok

\* The caller whose request the store serves has a Get in flight exactly
\* when the request is a GET.
LEMMA GetIffGET ==
    ASSUME TypeInv, NEW c \in Callers, req[c] # Nil
    PROVE  call[c].op = "Get" <=> req[c].method = "GET"
<1>1. req[c].method = Method(call[c].op) /\ call[c] \in Call
  BY DEF TypeInv, ReqInv, WaitInv
<1>2. QED
  BY <1>1 DEF Method, Call, Ops

LEMMA HeldInvInit == Init => HeldInv
BY DEF Init, HeldInv, HeldAt

\* A start of a call on a valid bucket: the caller has seen the bucket's
\* configuration; on an invalid one nothing but the caller's result changes.
LEMMA StartHeld ==
    ASSUME TypeInv, HeldInv, NEW c \in Callers, NEW op \in Ops, NEW b \in Buckets,
           NEW cfg \in Configs \cup {Nil}, NEW valid \in BOOLEAN, NEW m,
           valid => b \in ValidBuckets,
           Start(c, [op |-> op, bucket |-> b, config |-> cfg], valid, "validation",
                 [method |-> m, bucket |-> b, body |-> cfg])
    PROVE  HeldInv'
<1>0. TypeOK /\ RespInv /\ \A d \in Callers : HeldAt(d)
  BY DEF TypeInv, HeldInv
<1>1. /\ pc[c] = "idle" /\ resp[c] = Nil
      /\ call' = [call EXCEPT ![c] = [op |-> op, bucket |-> b, config |-> cfg]]
      /\ UNCHANGED <<enc, resp>>
  BY <1>0 DEF Start, RespInv
<1>2. CASE valid
  <2>1. /\ pc' = [pc EXCEPT ![c] = "wait"]
        /\ held' = [held EXCEPT ![c] = {enc[b]}]
    BY <1>2 DEF Start
  <2>2. QED
    BY <1>0, <1>1, <2>1 DEF HeldInv, HeldAt, TypeOK
<1>3. CASE ~valid
  <2>1. UNCHANGED <<pc, held>>
    BY <1>3 DEF Start
  <2>2. QED
    BY <1>0, <1>1, <2>1 DEF HeldInv, HeldAt, TypeOK
<1>4. QED
  BY <1>2, <1>3

LEMMA HeldInvNext == TypeInv /\ HeldInv /\ [Next]_vars => HeldInv'
<1> SUFFICES ASSUME TypeInv, HeldInv, [Next]_vars PROVE HeldInv'
  OBVIOUS
<1>0. /\ TypeOK /\ ReqInv /\ RespInv /\ WaitInv
      /\ \A d \in Callers : HeldAt(d)
  BY DEF TypeInv, HeldInv
<1>1. ASSUME NEW c \in Callers, NEW b \in Buckets, NEW cfg \in Configs \cup {Nil},
             SetBucketEncryption(c, b, cfg)
      PROVE  HeldInv'
  BY <1>1, StartHeld DEF SetBucketEncryption, Ops
<1>2. ASSUME NEW c \in Callers, NEW b \in Buckets, RemoveBucketEncryption(c, b)
      PROVE  HeldInv'
  <2> DEFINE cl == [op |-> "Remove", bucket |-> b, config |-> Nil]
             r == [method |-> "DELETE", bucket |-> b, body |-> Nil]
  <2>0. "Remove" \in Ops /\ Nil \in Configs \cup {Nil}
    BY DEF Ops
  <2>1. Start(c, cl, b \in ValidBuckets, "validation", r)
    BY <1>2 DEF RemoveBucketEncryption
  <2>2. CASE b \in ValidBuckets
    <3>1. Start(c, cl, TRUE, "validation", r)
      BY <2>1, <2>2 DEF Start
    <3>2. QED
      BY <2>0, <2>2, <3>1, StartHeld
  <2>3. CASE b \notin ValidBuckets
    <3>1. Start(c, cl, FALSE, "validation", r)
      BY <2>1, <2>3 DEF Start
    <3>2. QED
      BY <2>0, <3>1, StartHeld
  <2>4. QED
    BY <2>2, <2>3
<1>3. ASSUME NEW c \in Callers, NEW b \in Buckets, GetBucketEncryption(c, b)
      PROVE  HeldInv'
  <2> DEFINE cl == [op |-> "Get", bucket |-> b, config |-> Nil]
             r == [method |-> "GET", bucket |-> b, body |-> Nil]
  <2>0. "Get" \in Ops /\ Nil \in Configs \cup {Nil}
    BY DEF Ops
  <2>1. Start(c, cl, b \in ValidBuckets, "validation", r)
    BY <1>3 DEF GetBucketEncryption
  <2>2. CASE b \in ValidBuckets
    <3>1. Start(c, cl, TRUE, "validation", r)
      BY <2>1, <2>2 DEF Start
    <3>2. QED
      BY <2>0, <2>2, <3>1, StartHeld
  <2>3. CASE b \notin ValidBuckets
    <3>1. Start(c, cl, FALSE, "validation", r)
      BY <2>1, <2>3 DEF Start
    <3>2. QED
      BY <2>0, <3>1, StartHeld
  <2>4. QED
    BY <2>2, <2>3
<1>4. ASSUME NEW c \in Callers, EncryptionReturn(c)
      PROVE  HeldInv'
  <2>1. /\ pc' = [pc EXCEPT ![c] = "idle"]
        /\ \E x : resp' = [resp EXCEPT ![c] = x]
        /\ UNCHANGED <<enc, call, held>>
    BY <1>4 DEF EncryptionReturn
  <2>2. QED
    BY <1>0, <2>1 DEF HeldInv, HeldAt, TypeOK
\* The store replaces or deletes a bucket's configuration: every Get
\* waiting on that bucket sees the new one.
<1>5. ASSUME NEW c \in Callers, NEW new \in Configs \cup {Nil},
             req[c] # Nil, req[c].method # "GET",
             Store(req[c].bucket, new),
             \E st : Answer(c, st, Nil),
             UNCHANGED <<pc, call>>
      PROVE  HeldInv'
  <2> DEFINE b == req[c].bucket
  <2>0. b \in ValidBuckets
    BY <1>0, <1>5 DEF TypeOK, Request
  <2>1. /\ enc' = [enc EXCEPT ![b] = new]
        /\ held' = [d \in Callers |-> IF pc[d] = "wait" /\ call[d].bucket = b
                                      THEN held[d] \cup {new} ELSE held[d]]
    BY <1>5 DEF Store
  <2>6. \A d \in Callers \ {c} : resp'[d] = resp[d]
    <3>1. PICK st : Answer(c, st, Nil)
      BY <1>5
    <3>2. QED
      BY <1>0, <3>1 DEF Answer, TypeOK
  <2>2. call[c].op # "Get"
    BY <1>5, GetIffGET
  <2>3. SUFFICES ASSUME NEW q \in Callers PROVE HeldAt(q)'
    BY DEF HeldInv
  <2>4. CASE pc[q] = "wait" /\ call[q].op = "Get"
    <3>1. q # c /\ call[q].bucket \in ValidBuckets
      BY <2>2, <2>4, <1>0 DEF WaitInv
    <3>2. held[q] \subseteq held'[q] /\ resp'[q] = resp[q]
      BY <1>0, <2>1, <2>6, <3>1 DEF TypeOK
    <3>3. enc'[call[q].bucket] \in held'[q]
      BY <1>0, <2>0, <2>1, <2>4, <3>1 DEF TypeOK, HeldAt
    <3>4. QED
      BY <1>0, <1>5, <2>4, <3>2, <3>3 DEF HeldAt
  <2>5. QED
    BY <1>5, <2>4 DEF HeldAt
<1>6. ASSUME NEW c \in Callers, ServeSet(c)
      PROVE  HeldInv'
  <2>1. req[c].body \in Configs \cup {Nil}
    BY <1>0, <1>6 DEF ServeSet, TypeOK, Request
  <2>2. QED
    BY <1>5, <1>6, <2>1 DEF ServeSet
<1>7. ASSUME NEW c \in Callers, ServeRemove(c)
      PROVE  HeldInv'
  BY <1>5, <1>7 DEF ServeRemove
<1>8. ASSUME NEW c \in Callers, ServeGet(c)
      PROVE  HeldInv'
  <2> DEFINE cfg == enc[req[c].bucket]
  <2>1. /\ req[c] # Nil /\ req[c].method = "GET"
        /\ req[c].bucket = call[c].bucket
        /\ resp' = [resp EXCEPT ![c] =
                      IF cfg = Nil THEN [err |-> FALSE, status |-> 404, body |-> Nil]
                      ELSE [err |-> FALSE, status |-> 200, body |-> cfg]]
        /\ UNCHANGED <<enc, pc, call, held>>
    BY <1>0, <1>8 DEF ServeGet, Answer, ReqInv
  <2>2. call[c].op = "Get" /\ pc[c] = "wait"
    BY <1>0, <2>1, GetIffGET DEF ReqInv
  <2>3. cfg \in held[c]
    BY <1>0, <2>1, <2>2 DEF HeldAt
  <2>4. QED
    BY <1>0, <2>1, <2>3 DEF HeldInv, HeldAt, TypeOK
<1>9. ASSUME NEW c \in Callers, DropRequest(c) \/ LoseResponse(c)
      PROVE  HeldInv'
  <2>1. /\ resp' = [resp EXCEPT ![c] = TransportError]
        /\ UNCHANGED <<enc, pc, call, held>>
    BY <1>9 DEF DropRequest, LoseResponse
  <2>2. QED
    BY <1>0, <2>1 DEF HeldInv, HeldAt, TypeOK, TransportError
<1>10. ASSUME NEW c \in Callers, TruncateBody(c)
       PROVE  HeldInv'
  <2>1. /\ resp[c] # Nil /\ ~resp[c].err
        /\ resp' = [resp EXCEPT ![c].body = Truncated]
        /\ UNCHANGED <<enc, pc, call, held>>
    BY <1>10 DEF TruncateBody
  <2>2. /\ resp[c] \in Response
        /\ resp'[c].err = resp[c].err /\ resp'[c].status = resp[c].status
        /\ resp'[c].body = Truncated
    BY <1>0, <2>1 DEF TypeOK, Response
  <2>3. SUFFICES ASSUME NEW q \in Callers PROVE HeldAt(q)'
    BY DEF HeldInv
  <2>4. CASE q = c
    BY <1>0, <2>1, <2>2, <2>4 DEF HeldAt
  <2>5. CASE q # c
    BY <1>0, <2>1, <2>5 DEF HeldAt, TypeOK
  <2>6. QED
    BY <2>4, <2>5
<1>11. CASE Finished \/ UNCHANGED vars
  BY <1>0, <1>11 DEF Finished, vars, HeldInv, HeldAt
<1>12. QED
  <2>1. CASE Next /\ ~Finished
    <3>1. PICK c \in Callers :
                \/ \E b \in Buckets :
                      \/ \E cfg \in Configs \cup {Nil} : SetBucketEncryption(c, b, cfg)
                      \/ RemoveBucketEncryption(c, b)
                      \/ GetBucketEncryption(c, b)
                \/ EncryptionReturn(c)
                \/ ServeSet(c)
                \/ ServeRemove(c)
                \/ ServeGet(c)
                \/ DropRequest(c)
                \/ LoseResponse(c)
                \/ TruncateBody(c)
      BY <2>1, Zenon DEF Next
    <3>2. CASE DropRequest(c) \/ LoseResponse(c)
      BY <1>9, <3>2
    <3>3. QED
      BY <3>1, <3>2, <1>1, <1>2, <1>3, <1>4, <1>6, <1>7, <1>8, <1>10
  <2>2. QED
    BY <2>1, <1>11 DEF Next

\* A step that leaves every call and result alone and only lets the calls
\* see more configurations keeps EncryptionReadHeld.
LEMMA ReadFrame ==
    ASSUME TypeOK, EncryptionReadHeld,
           UNCHANGED <<pc, call, result>>,
           \A d \in Callers : held[d] \subseteq held'[d]
    PROVE  EncryptionReadHeld'
BY DEF EncryptionReadHeld, Returned

LEMMA StartRead ==
    ASSUME TypeInv, EncryptionReadHeld, NEW c \in Callers, NEW op \in Ops,
           NEW b \in Buckets, NEW cfg \in Configs \cup {Nil}, NEW valid \in BOOLEAN,
           NEW m, Start(c, [op |-> op, bucket |-> b, config |-> cfg], valid, "validation",
                        [method |-> m, bucket |-> b, body |-> cfg])
    PROVE  EncryptionReadHeld'
<1>0. TypeOK /\ \A d \in Callers : ReadAt(d)
  BY DEF TypeInv, EncryptionReadHeld, ReadAt
<1>1. SUFFICES ASSUME NEW q \in Callers PROVE ReadAt(q)'
  BY DEF EncryptionReadHeld, ReadAt
<1>5. \A d \in Callers \ {c} : call'[d] = call[d]
  BY <1>0 DEF Start, TypeOK
<1>2. CASE valid
  <2>1. /\ pc' = [pc EXCEPT ![c] = "wait"]
        /\ result' = [result EXCEPT ![c] = Nil]
        /\ held' = [held EXCEPT ![c] = {enc[b]}]
    BY <1>2 DEF Start
  <2>2. QED
    BY <1>0, <1>5, <2>1 DEF ReadAt, Returned, TypeOK
<1>3. CASE ~valid
  <2>1. /\ result' = [result EXCEPT ![c] = Fail("validation", 0)]
        /\ UNCHANGED <<pc, held>>
    BY <1>3 DEF Start
  <2>2. QED
    BY <1>0, <1>5, <2>1 DEF ReadAt, Returned, TypeOK, Fail
<1>4. QED
  BY <1>2, <1>3

LEMMA ReadNext ==
    TypeInv /\ HeldInv /\ EncryptionReadHeld /\ [Next]_vars => EncryptionReadHeld'
<1> SUFFICES ASSUME TypeInv, HeldInv, EncryptionReadHeld, [Next]_vars
             PROVE  EncryptionReadHeld'
  OBVIOUS
<1>0. TypeOK /\ \A d \in Callers : HeldAt(d)
  BY DEF TypeInv, HeldInv
<1>1. ASSUME NEW c \in Callers, NEW b \in Buckets, NEW cfg \in Configs \cup {Nil},
             SetBucketEncryption(c, b, cfg)
      PROVE  EncryptionReadHeld'
  <2> DEFINE cl == [op |-> "Set", bucket |-> b, config |-> cfg]
             r == [method |-> "PUT", bucket |-> b, body |-> cfg]
  <2>1. CASE b \in ValidBuckets /\ cfg # Nil
    <3>1. Start(c, cl, TRUE, "validation", r)
      BY <2>1, <1>1 DEF SetBucketEncryption, Start
    <3>2. QED
      BY <3>1, StartRead DEF Ops
  <2>2. CASE ~(b \in ValidBuckets /\ cfg # Nil)
    <3>1. Start(c, cl, FALSE, "validation", r)
      BY <2>2, <1>1 DEF SetBucketEncryption, Start
    <3>2. QED
      BY <3>1, StartRead DEF Ops
  <2>3. QED
    BY <2>1, <2>2
<1>2. ASSUME NEW c \in Callers, NEW b \in Buckets, RemoveBucketEncryption(c, b)
      PROVE  EncryptionReadHeld'
  <2> DEFINE cl == [op |-> "Remove", bucket |-> b, config |-> Nil]
             r == [method |-> "DELETE", bucket |-> b, body |-> Nil]
  <2>1. CASE b \in ValidBuckets
    <3>1. Start(c, cl, TRUE, "validation", r)
      BY <2>1, <1>2 DEF RemoveBucketEncryption, Start
    <3>2. QED
      BY <3>1, StartRead DEF Ops
  <2>2. CASE ~(b \in ValidBuckets)
    <3>1. Start(c, cl, FALSE, "validation", r)
      BY <2>2, <1>2 DEF RemoveBucketEncryption, Start
    <3>2. QED
      BY <3>1, StartRead DEF Ops
  <2>3. QED
    BY <2>1, <2>2
<1>3. ASSUME NEW c \in Callers, NEW b \in Buckets, GetBucketEncryption(c, b)
      PROVE  EncryptionReadHeld'
  <2> DEFINE cl == [op |-> "Get", bucket |-> b, config |-> Nil]
             r == [method |-> "GET", bucket |-> b, body |-> Nil]
  <2>1. CASE b \in ValidBuckets
    <3>1. Start(c, cl, TRUE, "validation", r)
      BY <2>1, <1>3 DEF GetBucketEncryption, Start
    <3>2. QED
      BY <3>1, StartRead DEF Ops
  <2>2. CASE ~(b \in ValidBuckets)
    <3>1. Start(c, cl, FALSE, "validation", r)
      BY <2>2, <1>3 DEF GetBucketEncryption, Start
    <3>2. QED
      BY <3>1, StartRead DEF Ops
  <2>3. QED
    BY <2>1, <2>2
<1>4. ASSUME NEW c \in Callers, EncryptionReturn(c)
      PROVE  EncryptionReadHeld'
  <2>1. /\ pc[c] = "wait" /\ resp[c] # Nil
        /\ result' = [result EXCEPT ![c] =
                        IF call[c].op = "Set" THEN SetOutcome(resp[c])
                        ELSE IF call[c].op = "Remove" THEN RemoveOutcome(resp[c])
                        ELSE GetOutcome(resp[c])]
        /\ pc' = [pc EXCEPT ![c] = "idle"]
        /\ UNCHANGED <<call, held>>
    BY <1>4 DEF EncryptionReturn
  <2>2. SUFFICES ASSUME NEW q \in Callers PROVE ReadAt(q)'
    BY DEF EncryptionReadHeld, ReadAt
  <2>3. CASE q = c /\ call[c].op = "Get"
    <3>1. result'[c] = GetOutcome(resp[c])
      BY <1>0, <2>1, <2>3 DEF TypeOK
    <3>2. ~resp[c].err => /\ resp[c].status = 200 => resp[c].body \in held[c] \cup {Truncated}
                          /\ resp[c].status = 404 => Nil \in held[c]
      BY <1>0, <2>1, <2>3 DEF HeldAt
    <3>3. /\ GetOutcome(resp[c]).kind = "ok" => GetOutcome(resp[c]).config \in held[c]
          /\ GetOutcome(resp[c]).kind = "service" /\ GetOutcome(resp[c]).status = 404
                => Nil \in held[c]
      BY <3>2, GetOutcomeHeld
    <3>4. QED
      BY <2>1, <2>3, <3>1, <3>3 DEF ReadAt
  <2>4. CASE q = c /\ call[c].op # "Get"
    BY <2>1, <2>4 DEF ReadAt
  <2>5. CASE q # c
    BY <1>0, <2>1, <2>5 DEF ReadAt, Returned, TypeOK, EncryptionReadHeld
  <2>6. QED
    BY <2>3, <2>4, <2>5
\* The store acts: only the held sets of the waiting calls grow.
<1>5. ASSUME NEW c \in Callers, ServeSet(c) \/ ServeRemove(c)
      PROVE  EncryptionReadHeld'
  <2>1. UNCHANGED <<pc, call, result>>
    BY <1>5 DEF ServeSet, ServeRemove
  <2>2. \A d \in Callers : held[d] \subseteq held'[d]
    <3>1. CASE ServeSet(c)
      BY <3>1 DEF ServeSet, Store
    <3>2. CASE ServeRemove(c)
      BY <3>2 DEF ServeRemove, Store
    <3>3. QED
      BY <1>5, <3>1, <3>2
  <2>3. QED
    BY <1>0, <2>1, <2>2, ReadFrame
<1>6. ASSUME NEW c \in Callers,
             ServeGet(c) \/ DropRequest(c) \/ LoseResponse(c) \/ TruncateBody(c)
      PROVE  EncryptionReadHeld'
  <2>1. UNCHANGED <<pc, call, result, held>>
    BY <1>6 DEF ServeGet, DropRequest, LoseResponse, TruncateBody
  <2>2. QED
    BY <1>0, <2>1, ReadFrame
<1>7. CASE Finished \/ UNCHANGED vars
  BY <1>7 DEF Finished, vars, EncryptionReadHeld, ReadAt, Returned
<1>8. QED
  <2>1. CASE Next /\ ~Finished
    <3>1. PICK c \in Callers :
                \/ \E b \in Buckets :
                      \/ \E cfg \in Configs \cup {Nil} : SetBucketEncryption(c, b, cfg)
                      \/ RemoveBucketEncryption(c, b)
                      \/ GetBucketEncryption(c, b)
                \/ EncryptionReturn(c)
                \/ ServeSet(c)
                \/ ServeRemove(c)
                \/ ServeGet(c)
                \/ DropRequest(c)
                \/ LoseResponse(c)
                \/ TruncateBody(c)
      BY <2>1, Zenon DEF Next
    <3>2. CASE ServeSet(c) \/ ServeRemove(c)
      BY <1>5, <3>2
    <3>3. CASE ServeGet(c) \/ DropRequest(c) \/ LoseResponse(c) \/ TruncateBody(c)
      BY <1>6, <3>3
    <3>4. QED
      BY <3>1, <3>2, <3>3, <1>1, <1>2, <1>3, <1>4
  <2>2. QED
    BY <2>1, <1>7 DEF Next

\* GetBucketEncryption returns only a configuration the bucket had during
\* the call, and reports "not found" only if the bucket had none at some
\* moment of the call, whatever the number of callers, buckets and calls.
THEOREM EncryptionReadHeldCorrect == Spec => []EncryptionReadHeld
<1>1. Init => HInv
  BY TypeInvInit, HeldInvInit DEF HInv, Init, EncryptionReadHeld, ReadAt, Returned
<1>2. HInv /\ [Next]_vars => HInv'
  BY TypeInvNext, HeldInvNext, ReadNext DEF HInv
<1>3. QED
  BY <1>1, <1>2, PTL DEF Spec, HInv

=============================================================================
