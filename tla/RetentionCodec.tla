--------------------------- MODULE RetentionCodec ---------------------------
(***************************************************************************)
(* The retention configuration of src/unnamed/part_000 and its wire        *)
(* document: the objectRetention struct, its construction by               *)
(* newObjectRetention, its encoding by xml.Marshal (with the omitempty     *)
(* tags of the struct) and its decoding by xml.Decoder.Decode as           *)
(* GetObjectRetention returns it.                                          *)
(*                                                                         *)
(* A time.Time is abstracted to an instant and a location.  Its text form  *)
(* (RFC 3339, what time.Time.MarshalText writes) keeps the instant and the *)
(* UTC offset but not the location; MarshalText fails for a year outside   *)
(* 0..9999, the instant FarTime stands for such a year; ZeroTime is the    *)
(* zero time.Time (IsZero).                                                *)
(***************************************************************************)
EXTENDS Naturals

CONSTANTS
    Nil,        \* a Go nil pointer, and an element absent from a document
    Instants,   \* instants a caller may pass as RetainUntilDate
    ZeroTime,   \* the instant of the zero time.Time
    FarTime,    \* an instant whose year is above 9999
    Empty       \* the empty Go string ""

ASSUME CodecAssumption ==
    /\ ZeroTime \in Instants
    /\ FarTime \in Instants
    /\ ZeroTime # FarTime
    /\ Empty \notin {"GOVERNANCE", "COMPLIANCE"}
    /\ Nil \notin {"GOVERNANCE", "COMPLIANCE", Empty}

\* RetentionMode constants and RetentionMode.IsValid (defined outside src/).
RetentionMode == {"GOVERNANCE", "COMPLIANCE"}
IsValid(m) == m \in RetentionMode

\* Locations a caller's time.Time may carry; "fixed" is the FixedZone
\* that time.Parse gives to a non-UTC offset.
Zones == {"UTC", "local", "fixed"}
Time == [instant : Instants, zone : Zones]
IsZero(t) == t.instant = ZeroTime

\* Mutant: the date is written with a numeric offset even in UTC (a layout
\* with "-07:00" where RFC 3339 has "Z07:00").
MarshalTimeNumericOffset(t) ==
    IF t.instant = FarTime
    THEN [err |-> TRUE, text |-> Nil]
    ELSE [err |-> FALSE, text |-> [instant |-> t.instant, offset |-> "+hh:mm"]]

\* time.Time.MarshalText: fails beyond year 9999, otherwise writes the
\* instant with "Z" for UTC and a numeric offset for any other location.
TimeText == [instant : Instants \ {FarTime}, offset : {"Z", "+hh:mm"}]
MarshalTime(t) ==
    IF t.instant = FarTime
    THEN [err |-> TRUE, text |-> Nil]
    ELSE [err |-> FALSE,
          text |-> [instant |-> t.instant,
                    offset  |-> IF t.zone = "UTC" THEN "Z" ELSE "+hh:mm"]]

\* time.Time.UnmarshalText: "Z" parses to UTC, a numeric offset to a
\* FixedZone location.
UnmarshalTime(x) ==
    [instant |-> x.instant, zone |-> IF x.offset = "Z" THEN "UTC" ELSE "fixed"]

\* The objectRetention struct: Mode is a string (Empty when unset),
\* RetainUntilDate a pointer.
ObjectRetention == [mode : RetentionMode \cup {Empty}, date : Time \cup {Nil}]

\* Mutant: the mode is not checked with IsValid.
NewObjectRetentionUnchecked(mode, date) ==
    [err |-> FALSE,
     val |-> [mode |-> IF mode = Nil THEN Empty ELSE mode,
              date |-> IF date # Nil /\ ~IsZero(date) THEN date ELSE Nil]]

\* newObjectRetention(mode, date): a zero date is dropped, a mode that is
\* not GOVERNANCE or COMPLIANCE is an error.
NewObjectRetention(mode, date) ==
    IF mode # Nil /\ ~IsValid(mode)
    THEN [err |-> TRUE, val |-> Nil]
    ELSE [err |-> FALSE,
          val |-> [mode |-> IF mode = Nil THEN Empty ELSE mode,
                   date |-> IF date # Nil /\ ~IsZero(date) THEN date ELSE Nil]]

\* A <Retention> document: each child element holds its text or is Nil
\* when absent.
Document == [Mode : RetentionMode \cup {Nil}, RetainUntilDate : TimeText \cup {Nil}]

\* xml.Marshal(retention): omitempty leaves out an empty Mode and a nil
\* RetainUntilDate; marshalling the date can fail.
MarshalRetention(r) ==
    IF r.date # Nil /\ MarshalTime(r.date).err
    THEN [err |-> TRUE, doc |-> Nil]
    ELSE [err |-> FALSE,
          doc |-> [Mode |-> IF r.mode = Empty THEN Nil ELSE r.mode,
                   RetainUntilDate |-> IF r.date = Nil THEN Nil
                                       ELSE MarshalTime(r.date).text]]

\* xml.NewDecoder(resp.Body).Decode(retention) on a well-formed document:
\* an absent element leaves the field at its zero value.
DecodeRetention(d) ==
    [mode |-> IF d.Mode = Nil THEN Empty ELSE d.Mode,
     date |-> IF d.RetainUntilDate = Nil THEN Nil
              ELSE UnmarshalTime(d.RetainUntilDate)]

\* What GetObjectRetention returns on success: &retention.Mode, a pointer
\* that is never nil (so its target string stands for it here, whereas a
\* caller's nil *RetentionMode is Nil), and retention.RetainUntilDate.
GetObjectRetentionResult(r) == [mode |-> r.mode, date |-> r.date]

\* The retention configurations spec section 8 calls constructible: mode
\* unset or valid, retain-until unset or a UTC instant.
ConstructibleDates ==
    {t \in Time : t.zone = "UTC" /\ ~IsZero(t) /\ t.instant # FarTime}

\* The configuration newObjectRetention builds from constructible options.
Constructed(mode, date) == NewObjectRetention(mode, date).val

=============================================================================
