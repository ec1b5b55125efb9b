--------------------------- MODULE TimelineRules ---------------------------
(***************************************************************************)
(* Timeline reconstruction (services/timeline_reconstruction.py): the      *)
(* event proposals that a record and its extraction artifact yield and how *)
(* they are marked against one another and against the timeline.  A time   *)
(* is an instant in UTC, a day is PerDay instants; NoTime when the text    *)
(* establishes none.  Files and records are numbers.                       *)
(***************************************************************************)
EXTENDS Integers, Sequences, FiniteSets, FiniteSetsExt, SequencesExt

CONSTANTS
  PerDay,
  MaxEvents,  \* events read from one artifact
  NoTime      \* a number that is no instant

Day(t) == t \div PerDay

Draft(origin, source, field, index, original, at, title) ==
  [ origin |-> origin, file |-> source.file, record |-> source.record, field |-> field,
    index |-> index, original |-> original, at |-> at, title |-> title ]

(* A field: its place among the fields of the record in sorted order, how  *)
(* much its name promises a time ("strong", "weak" or "none"), its kind    *)
(* ("scalar" or "other", which stands for empty too), what it says and the *)
(* instant that parses from it.  Titles spell field and text.              *)
drafts_from_record(source, fields) ==
  LET proposed == { f \in fields : /\ f.hint # "none" /\ f.kind = "scalar"
                                   /\ f.at # NoTime \/ f.hint = "strong" }
  IN {Draft("record", source, f.name, 0, f.says, f.at, <<f.name, f.says>>) : f \in proposed}

(* The validated dates, and the first statements with whatever date each   *)
(* carries; an empty statement does not count.                             *)
drafts_from_artifact(source, dates, events) ==
  LET written == {j \in DOMAIN events : events[j].says # 0}
      read == {j \in written : Cardinality({h \in written : h < j}) < MaxEvents}
  IN { Draft("artifact", source, 101, j, dates[j].says, dates[j].at, <<101, dates[j].says>>) :
         j \in {h \in DOMAIN dates : dates[h].says # 0} }
     \cup { Draft("artifact", source, 102, j, events[j].says, events[j].at, <<102, events[j].says>>) :
              j \in read }

(* sort_key: file, record, field, index.                                   *)
Key(d) == <<d.file, d.record, d.field, d.index>>
Earlier(d, e) ==
  \E j \in 1..4 : Key(d)[j] < Key(e)[j] /\ \A h \in 1..(j - 1) : Key(d)[h] = Key(e)[h]

-----------------------------------------------------------------------------
(* The marks of one draft among all.                                       *)

Timed(drafts) == {d \in drafts : d.at # NoTime}
DuplicateOf(d, drafts) ==
  { e \in Timed(drafts) : /\ e.file = d.file /\ e.at = d.at /\ e.title = d.title
                          /\ Earlier(e, d) }

(* The two sources of one record disagree when they share no day.          *)
Disagreeing(d, drafts) ==
  LET of(origin) == {e \in Timed(drafts) : e.record = d.record /\ e.origin = origin}
      days(origin) == {Day(e.at) : e \in of(origin)}
  IN IF days("record") \cap days("artifact") = {}
     THEN of(IF d.origin = "record" THEN "artifact" ELSE "record") ELSE {}

Overlapping(d, existing) == {x \in existing : x.file = d.file /\ Day(x.at) = Day(d.at)}

annotate_drafts(drafts, existing) ==
  [ d \in drafts |->
      IF d.at = NoTime THEN [flags |-> {}, with |-> {}]
      ELSE [ flags |-> {f \in {"duplicate_proposal"} : DuplicateOf(d, drafts) # {}}
                       \cup {f \in {"conflicting_timestamp"} : Disagreeing(d, drafts) # {}}
                       \cup {f \in {"overlaps_existing_timeline"} : Overlapping(d, existing) # {}},
             with |-> Disagreeing(d, drafts) ] ]

-----------------------------------------------------------------------------
(* Proposals disagree mutually, never on one day, and always about one     *)
(* record; of proposals that repeat one another exactly one stays clean;   *)
(* a proposal without a time is marked with nothing.                       *)
MarksAreMutual(drafts, marks) ==
  /\ \A d \in drafts : \A e \in marks[d].with :
       d \in marks[e].with /\ Day(d.at) # Day(e.at) /\ d.record = e.record
  /\ \A d \in Timed(drafts) :
       \E one \in Timed(drafts) :
         { e \in Timed(drafts) : /\ e.file = d.file /\ e.at = d.at /\ e.title = d.title
                                 /\ "duplicate_proposal" \notin marks[e].flags } = {one}
  /\ \A d \in drafts : d.at = NoTime => marks[d].flags = {}

=============================================================================
