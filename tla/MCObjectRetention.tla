------------------------- MODULE MCObjectRetention -------------------------
(* Small instances of ObjectRetention for TLC. *)
EXTENDS ObjectRetention, TLC

\* Callers are interchangeable goroutines.
CallerSymmetry == Permutations(Callers)

\* Retain-until dates callers pass: none, an ordinary UTC instant, and one
\* beyond year 9999 that xml.Marshal rejects.
MCDateInputs == {Nil, [instant |-> "T1", zone |-> "UTC"],
                 [instant |-> "FarT", zone |-> "UTC"]}

\* Every kind of retain-until date a caller may pass: none, a UTC instant,
\* the same instant in a local zone, the zero time.Time, and one beyond
\* year 9999.
MCAllDateInputs == MCDateInputs \cup {[instant |-> "T1", zone |-> "local"],
                                      [instant |-> "ZeroT", zone |-> "UTC"]}

\* Only well-formed retain-until dates.
MCValidDateInputs == {Nil, [instant |-> "T1", zone |-> "UTC"]}
=============================================================================
