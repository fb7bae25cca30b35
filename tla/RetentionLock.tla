---------------------------- MODULE RetentionLock ----------------------------
(***************************************************************************)
(* What object retention promises a client, with no calls, requests or    *)
(* transport: each object version has a retention mode that changes       *)
(* atomically, COMPLIANCE is terminal (spec 4.4), and a client is told a   *)
(* COMPLIANCE lock is in place only when it is.                            *)
(*                                                                         *)
(* ObjectRetention implements this specification under the mapping        *)
(* mode <- ret, locked <- acked (see ObjectRetention's Lock).              *)
(***************************************************************************)
CONSTANT Targets    \* the object versions

VARIABLES
    mode,     \* retention mode of each version
    locked    \* versions a client was told are locked in COMPLIANCE mode

Modes == {"NONE", "GOVERNANCE", "COMPLIANCE"}

TypeOK ==
    /\ mode \in [Targets -> Modes]
    /\ locked \subseteq Targets

Init ==
    /\ mode = [t \in Targets |-> "NONE"]
    /\ locked = {}

\* The version's mode changes in one step; nothing leaves COMPLIANCE.
SetMode(t, m) ==
    /\ mode[t] = "COMPLIANCE" => m = "COMPLIANCE"
    /\ mode' = [mode EXCEPT ![t] = m]
    /\ UNCHANGED locked

\* A client is told that t is locked in COMPLIANCE mode.
Acknowledge(t) ==
    /\ mode[t] = "COMPLIANCE"
    /\ locked' = locked \cup {t}
    /\ UNCHANGED mode

Next == \E t \in Targets : \/ \E m \in Modes : SetMode(t, m)
                           \/ Acknowledge(t)

Spec == Init /\ [][Next]_<<mode, locked>>

\* Every version a client was told is locked is locked.
LockedHeld == \A t \in locked : mode[t] = "COMPLIANCE"
=============================================================================
