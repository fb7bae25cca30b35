-------------------------- MODULE BucketEncryption --------------------------
(***************************************************************************)
(* SetBucketEncryption, RemoveBucketEncryption and GetBucketEncryption     *)
(* (src/api-bucket-encryption.go) issued concurrently by goroutines that   *)
(* share one Client, against the store that holds the default encryption   *)
(* configuration of each bucket.                                           *)
(*                                                                         *)
(* As in ObjectRetention each call is split at c.executeMethod; the store  *)
(* and the transport are written from the spec (sections 4.4 and 6).  An   *)
(* sse.Configuration (pkg/sse, not under src/) is a member of the set      *)
(* Configs; EmptyConfig is &sse.Configuration{}, a configuration without   *)
(* rules.                                                                  *)
(***************************************************************************)
EXTENDS Naturals

CONSTANTS
    Callers,        \* goroutines calling the shared Client
    Buckets,        \* bucket names callers pass
    ValidBuckets,   \* those s3utils.CheckValidBucketName accepts
    Configs,        \* non-nil *sse.Configuration values callers pass
    EmptyConfig,    \* &sse.Configuration{}
    Nil,            \* nil, and "no configuration" at the store
    Truncated,      \* a response body that broke off while being read
    SetOkCodes,     \* statuses the store answers an accepted PUT with
    RemoveOkCodes,  \* statuses the store answers a DELETE with
    MaxCalls        \* bound on the number of calls in a behaviour

ASSUME BucketEncryptionAssumption ==
    /\ ValidBuckets \subseteq Buckets
    /\ EmptyConfig \in Configs
    /\ Nil \notin Configs
    /\ Truncated \notin Configs \cup {Nil}
    /\ SetOkCodes \subseteq {200, 204} /\ SetOkCodes # {}
    /\ RemoveOkCodes \subseteq {200, 204} /\ RemoveOkCodes # {}
    /\ MaxCalls \in Nat

Ops == {"Set", "Remove", "Get"}
Call == [op : Ops, bucket : Buckets, config : Configs \cup {Nil}]
\* The request: method, bucket and body (the marshalled configuration).
Request == [method : {"PUT", "DELETE", "GET"}, bucket : ValidBuckets,
            body : Configs \cup {Nil}]
Statuses == {200, 204, 404}
Response == [err : BOOLEAN, status : Statuses \cup {0}, body : Configs \cup {Nil, Truncated}]
TransportError == [err |-> TRUE, status |-> 0, body |-> Nil]
Kinds == {"ok", "validation", "transport", "service", "decode"}
Result == [kind : Kinds, status : Statuses \cup {0}, config : Configs \cup {Nil}]
Fail(kind, status) == [kind |-> kind, status |-> status, config |-> Nil]
Ok(status, cfg) == [kind |-> "ok", status |-> status, config |-> cfg]

VARIABLES
    enc,        \* store: default encryption configuration of each bucket
    pc,         \* "idle" or "wait" (blocked in c.executeMethod)
    call,       \* the caller's current or last call
    req,        \* request in flight for the caller, or Nil
    resp,       \* transport outcome awaiting the caller, or Nil
    result,     \* what the caller's last call returned, or Nil
    calls,      \* number of calls started
    applied,    \* history: the store carried out this call's PUT or DELETE
    held        \* history: configurations the bucket held during this call

vars == <<enc, pc, call, req, resp, result, calls, applied, held>>

TypeOK ==
    /\ enc \in [ValidBuckets -> Configs \cup {Nil}]
    /\ pc \in [Callers -> {"idle", "wait"}]
    /\ call \in [Callers -> Call \cup {Nil}]
    /\ req \in [Callers -> Request \cup {Nil}]
    /\ resp \in [Callers -> Response \cup {Nil}]
    /\ result \in [Callers -> Result \cup {Nil}]
    /\ calls \in 0..MaxCalls
    /\ applied \in [Callers -> BOOLEAN]
    /\ held \in [Callers -> SUBSET (Configs \cup {Nil})]

Init ==
    /\ enc = [b \in ValidBuckets |-> Nil]
    /\ pc = [c \in Callers |-> "idle"]
    /\ call = [c \in Callers |-> Nil]
    /\ req = [c \in Callers |-> Nil]
    /\ resp = [c \in Callers |-> Nil]
    /\ result = [c \in Callers |-> Nil]
    /\ calls = 0
    /\ applied = [c \in Callers |-> FALSE]
    /\ held = [c \in Callers |-> {}]

-----------------------------------------------------------------------------
(* The client: src/api-bucket-encryption.go *)

\* A call starts; on a valid bucket (and, for Set, a non-nil configuration)
\* it blocks in c.executeMethod with request r, else it returns kind at once.
Start(c, cl, valid, kind, r) ==
    /\ pc[c] = "idle"
    /\ calls < MaxCalls
    /\ calls' = calls + 1
    /\ call' = [call EXCEPT ![c] = cl]
    /\ applied' = [applied EXCEPT ![c] = FALSE]
    /\ IF valid
       THEN /\ req' = [req EXCEPT ![c] = r]
            /\ pc' = [pc EXCEPT ![c] = "wait"]
            /\ result' = [result EXCEPT ![c] = Nil]
            /\ held' = [held EXCEPT ![c] = {enc[r.bucket]}]
       ELSE /\ result' = [result EXCEPT ![c] = Fail(kind, 0)]
            /\ UNCHANGED <<req, pc, held>>
    /\ UNCHANGED <<enc, resp>>

\* SetBucketEncryption up to c.executeMethod: bucket name check, nil check,
\* xml.Marshal, PUT ?encryption with the body and its MD5.
SetBucketEncryption(c, b, cfg) ==
    Start(c, [op |-> "Set", bucket |-> b, config |-> cfg],
          b \in ValidBuckets /\ cfg # Nil, "validation",
          [method |-> "PUT", bucket |-> b, body |-> cfg])

\* RemoveBucketEncryption up to c.executeMethod: DELETE ?encryption.
RemoveBucketEncryption(c, b) ==
    Start(c, [op |-> "Remove", bucket |-> b, config |-> Nil],
          b \in ValidBuckets, "validation",
          [method |-> "DELETE", bucket |-> b, body |-> Nil])

\* GetBucketEncryption up to c.executeMethod: GET ?encryption.
GetBucketEncryption(c, b) ==
    Start(c, [op |-> "Get", bucket |-> b, config |-> Nil],
          b \in ValidBuckets, "validation",
          [method |-> "GET", bucket |-> b, body |-> Nil])

\* SetBucketEncryption's check of the outcome: only 200 is success.
SetOutcome(r) ==
    IF r.err THEN Fail("transport", 0)
    ELSE IF r.status # 200 THEN Fail("service", r.status)
    ELSE Ok(r.status, Nil)

\* Mutant: 204 No Content is taken for an error.
RemoveOutcomeOnly200(r) ==
    IF r.err THEN Fail("transport", 0)
    ELSE IF r.status # 200 THEN Fail("service", r.status)
    ELSE Ok(r.status, Nil)

\* RemoveBucketEncryption's check of the outcome: 200 or 204 is success.
RemoveOutcome(r) ==
    IF r.err THEN Fail("transport", 0)
    ELSE IF r.status \notin {200, 204} THEN Fail("service", r.status)
    ELSE Ok(r.status, Nil)

\* Mutant: an error of xmlDecoder is dropped and the empty configuration
\* the body was being decoded into is returned.
GetOutcomeDecodeIgnored(r) ==
    IF r.err THEN Fail("transport", 0)
    ELSE IF r.status # 200 THEN Fail("service", r.status)
    ELSE IF r.body = Truncated THEN Ok(200, EmptyConfig)
    ELSE Ok(200, r.body)

\* Mutant: the body is returned without checking that it decoded.
GetOutcomeUndecoded(r) ==
    IF r.err THEN Fail("transport", 0)
    ELSE IF r.status # 200 THEN Fail("service", r.status)
    ELSE Ok(200, r.body)

\* GetBucketEncryption's check of the outcome and decoding of the body.
GetOutcome(r) ==
    IF r.err THEN Fail("transport", 0)
    ELSE IF r.status # 200 THEN Fail("service", r.status)
    ELSE IF r.body = Truncated THEN Fail("decode", 0)
    ELSE Ok(200, r.body)

\* A call returns from c.executeMethod.
EncryptionReturn(c) ==
    LET op == call[c].op IN
    /\ pc[c] = "wait"
    /\ resp[c] # Nil
    /\ result' = [result EXCEPT ![c] =
                    IF op = "Set" THEN SetOutcome(resp[c])
                    ELSE IF op = "Remove" THEN RemoveOutcome(resp[c])
                    ELSE GetOutcome(resp[c])]
    /\ pc' = [pc EXCEPT ![c] = "idle"]
    /\ resp' = [resp EXCEPT ![c] = Nil]
    /\ UNCHANGED <<enc, call, req, calls, applied, held>>

-----------------------------------------------------------------------------
(* The store and the transport (spec sections 4.4 and 6) *)

\* The bucket's configuration becomes cfg; every call waiting on the bucket
\* records that it held cfg.
Store(b, cfg) ==
    /\ enc' = [enc EXCEPT ![b] = cfg]
    /\ held' = [d \in Callers |->
                  IF pc[d] = "wait" /\ call[d].bucket = b
                  THEN held[d] \cup {cfg} ELSE held[d]]

Answer(c, status, body) ==
    /\ req' = [req EXCEPT ![c] = Nil]
    /\ resp' = [resp EXCEPT ![c] = [err |-> FALSE, status |-> status, body |-> body]]

\* The store replaces the bucket's configuration.
ServeSet(c) ==
    /\ req[c] # Nil
    /\ req[c].method = "PUT"
    /\ Store(req[c].bucket, req[c].body)
    /\ applied' = [applied EXCEPT ![c] = TRUE]
    /\ \E s \in SetOkCodes : Answer(c, s, Nil)
    /\ UNCHANGED <<pc, call, result, calls>>

\* The store deletes the bucket's configuration.
ServeRemove(c) ==
    /\ req[c] # Nil
    /\ req[c].method = "DELETE"
    /\ Store(req[c].bucket, Nil)
    /\ applied' = [applied EXCEPT ![c] = TRUE]
    /\ \E s \in RemoveOkCodes : Answer(c, s, Nil)
    /\ UNCHANGED <<pc, call, result, calls>>

\* The store answers a GET: 404 ServerSideEncryptionConfigurationNotFoundError
\* when the bucket has none.
ServeGet(c) ==
    /\ req[c] # Nil
    /\ req[c].method = "GET"
    /\ LET cfg == enc[req[c].bucket] IN
       IF cfg = Nil THEN Answer(c, 404, Nil) ELSE Answer(c, 200, cfg)
    /\ UNCHANGED <<enc, pc, call, result, calls, applied, held>>

\* The request is lost, or the context cancelled, before the store sees it.
DropRequest(c) ==
    /\ req[c] # Nil
    /\ req' = [req EXCEPT ![c] = Nil]
    /\ resp' = [resp EXCEPT ![c] = TransportError]
    /\ UNCHANGED <<enc, pc, call, result, calls, applied, held>>

\* The response is lost, or the context cancelled, after the store served.
LoseResponse(c) ==
    /\ resp[c] # Nil
    /\ ~resp[c].err
    /\ resp' = [resp EXCEPT ![c] = TransportError]
    /\ UNCHANGED <<enc, pc, call, req, result, calls, applied, held>>

\* The body of a 200 response breaks off while it is read.
TruncateBody(c) ==
    /\ resp[c] # Nil
    /\ ~resp[c].err
    /\ resp[c].body \in Configs
    /\ resp' = [resp EXCEPT ![c].body = Truncated]
    /\ UNCHANGED <<enc, pc, call, req, result, calls, applied, held>>

\* Every call has been made and has returned.
Finished ==
    /\ calls = MaxCalls
    /\ \A c \in Callers : pc[c] = "idle"
    /\ UNCHANGED vars

Next ==
    \/ \E c \in Callers :
          \/ \E b \in Buckets :
                \/ \E cfg \in Configs \cup {Nil} : SetBucketEncryption(c, b, cfg)
                \/ RemoveBucketEncryption(c, b)
                \/ GetBucketEncryption(c, b)
          \/ EncryptionReturn(c)
          \/ ServeSet(c)
          \/ ServeRemove(c)
          \/ ServeGet(c)
          \/ DropRequest(c)
          \/ LoseResponse(c)
          \/ TruncateBody(c)
    \/ Finished

Spec == Init /\ [][Next]_vars

-----------------------------------------------------------------------------
(* Properties *)

Returned(c) == pc[c] = "idle" /\ result[c] # Nil

\* SetBucketEncryption and RemoveBucketEncryption report success only when
\* the store carried the request out, and a service error only when it did
\* not: a service error means the configuration is as it was.
EncryptionOutcomeExact ==
    \A c \in Callers :
        Returned(c) /\ call[c].op \in {"Set", "Remove"} =>
            /\ result[c].kind = "ok" => applied[c]
            /\ result[c].kind = "service" => ~applied[c]

\* GetBucketEncryption is a linearizable read that tells "no configuration"
\* from a failure: a configuration it returns was the bucket's at some
\* moment of the call, and it reports the store's not-found error only if
\* the bucket had no configuration at some moment of the call.
EncryptionReadHeld ==
    \A c \in Callers :
        Returned(c) /\ call[c].op = "Get" =>
            /\ result[c].kind = "ok" => result[c].config \in held[c]
            /\ result[c].kind = "service" /\ result[c].status = 404 => Nil \in held[c]
=============================================================================
