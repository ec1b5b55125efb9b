---------------------------- MODULE TriageRules ----------------------------
(***************************************************************************)
(* Forensic triage of one evidence file (services/forensic_triage.py): the *)
(* structure found in its records, the observations the rules make of it   *)
(* and the verdicts on a hash manifest.  Domains, URLs, hosts, names and   *)
(* digests are numbers, 0 stands for none; times count seconds.  Lists are *)
(* sets whose members have a place: where in the evidence they were found. *)
(***************************************************************************)
EXTENDS Integers, Sequences, FiniteSets

CONSTANTS
  UrlFlags(_),      \* what analyze_url says of a URL: a set of rule names
  Host(_), Scheme(_),
  MaxObservations,  \* _MAX_OBSERVATIONS
  MaxUrls,          \* TRIAGE_MAX_URLS
  MaxEntries,       \* TRIAGE_MANIFEST_MAX_ENTRIES
  MaxLines,         \* _MAX_LOG_LINES
  Burst, Window     \* failures, and the seconds they lie within

UrlRules == <<"userinfo", "ip_host", "punycode", "nonstandard_port">>
Observation(rule, record, place) == [rule |-> rule, record |-> record, place |-> place]

(* Places are four numbers each, in the order of a dictionary.             *)
Before(p, q) == \E i \in 1..4 : p[i] < q[i] /\ \A h \in 1..(i - 1) : p[h] = q[h]
Ahead(x, S) == {y \in S : Before(y.place, x.place)}
First(n, S) == {x \in S : Cardinality(Ahead(x, S)) < n}

-----------------------------------------------------------------------------
(* The records, by number.  A record: its number, e-mail headers (or none),*)
(* URLs in the order of the text, the URL of a history row, a manifest     *)
(* entry and its log lines.                                                *)
HeaderObservations(records) ==
  LET mails == {r \in records : r.email.present}
  IN { Observation("missing_message_id", r.no, <<1, r.no, 1, 0>>) :
         r \in {q \in mails : ~ q.email.message_id} }
     \cup { Observation("return_path_mismatch", r.no, <<1, r.no, 2, 0>>) :
              r \in {q \in mails : /\ q.email.return_path # 0 /\ q.email.from # 0
                                   /\ q.email.return_path # q.email.from} }

(* Each URL once, where it was found first.                                *)
seen_urls(records) ==
  LET found == UNION { { [url |-> r.urls[i], record |-> r.no, place |-> <<2, r.no, i, 0>>] :
                           i \in {h \in DOMAIN r.urls : h <= MaxUrls} } : r \in records }
  IN First(MaxUrls, {u \in found : \A v \in found : v.url = u.url => ~ Before(v.place, u.place)})
UrlObservations(records) ==
  UNION { { Observation(UrlRules[k], u.record, [u.place EXCEPT ![4] = k]) :
              k \in {i \in DOMAIN UrlRules : UrlRules[i] \in UrlFlags(u.url)} } : u \in seen_urls(records) }

(* Hosts visited under both schemes, at the record that first visits them. *)
summarize_history(records) ==
  LET visits == {r \in records : r.visit # 0}
      to(h) == {r \in visits : Host(r.visit) = h}
      crossed == {h \in {Host(r.visit) : r \in visits} : {"http", "https"} \subseteq {Scheme(r.visit) : r \in to(h)}}
      first(h) == {r \in to(h) : \A q \in to(h) : r.no <= q.no}
  IN UNION {{Observation("cross_scheme", r.no, <<3, h, 0, 0>>) : r \in first(h)} : h \in crossed}

manifest_entries(records) ==
  First(MaxEntries, { [no |-> r.no, name |-> r.entry.name, digest |-> r.entry.digest, place |-> <<4, r.no, 0, 0>>] :
                        r \in {q \in records : q.entry.digest # 0} })

(* The first log lines, and those of them that report a failed login.      *)
log_lines(records) ==
  First(MaxLines, UNION { { [time |-> r.log[i].time, failed |-> r.log[i].failed, no |-> r.no, place |-> <<5, r.no, i, 0>>] :
                              i \in DOMAIN r.log } : r \in records })
auth_events(records) == {l \in log_lines(records) : l.failed}

(* The first window, in the order of time, with enough failed logins.      *)
auth_failure_burst(events) ==
  LET earlier(e, f) == e.time < f.time \/ (e.time = f.time /\ Before(e.place, f.place))
      window(e) == {f \in events : ~ earlier(f, e) /\ f.time - e.time <= Window}
      starts == {e \in events : Cardinality(window(e)) >= Burst}
  IN {e.no : e \in {s \in starts : \A r \in starts : ~ earlier(r, s)}}

(* There is some structure to look at, else the run is "unsupported".      *)
Supported(records) ==
  \E r \in records :
    r.email.present \/ r.urls # <<>> \/ r.visit # 0 \/ r.entry.digest # 0 \/ r.log # <<>>

(* What the records do not say: of the e-mails what no one of them says.   *)
missing_information(records) ==
  LET mails == {r.email : r \in {q \in records : q.email.present}}
  IN {m \in {"message_id"} : mails # {} /\ \A e \in mails : ~ e.message_id}
     \cup {m \in {"return_path"} : mails # {} /\ \A e \in mails : e.return_path = 0}
     \cup {m \in {"burst"} : log_lines(records) # {} /\ Cardinality(auth_events(records)) < Burst}
     \cup {m \in {"unlisted_files"} : manifest_entries(records) # {}}

Observed(records) ==
  HeaderObservations(records) \cup UrlObservations(records) \cup summarize_history(records)
  \cup { Observation("auth_failure_burst", no, <<5, 0, 0, 0>>) :
           no \in auth_failure_burst(auth_events(records)) }
triage_contents(records) ==
  LET all == Observed(records)
  IN [ supported |-> Supported(records), missing_information |-> missing_information(records),
       observations |-> First(MaxObservations, all), truncated |-> Cardinality(all) > MaxObservations,
       entries |-> manifest_entries(records) ]

-----------------------------------------------------------------------------
(* The manifest.  The other live files of the case: a name, the digest of  *)
(* the stored bytes or 0 when they are gone.  Of files with one name any   *)
(* may be taken: the query that reads them has no order.                   *)
Readings(files) ==
  LET names == {f.name : f \in files}
      candidates == {g \in [names -> files] : \A n \in names : g[n].name = n}
  IN {[n \in names |-> g[n].digest] : g \in candidates}

Verdict(e, available) ==
  LET listed == e.name # 0 /\ e.name \in DOMAIN available
      stored == listed /\ available[e.name] # 0
  IN CASE ~ listed                                 -> "missing"
       [] listed /\ ~ stored                       -> "object_unavailable"
       [] stored /\ available[e.name] = e.digest   -> "match"
       [] stored /\ available[e.name] # e.digest   -> "mismatch"
manifest_verdicts(entries, available) == {[entry |-> e, verdict |-> Verdict(e, available)] : e \in entries}

_record_manifest_observations(analysis, verdicts) ==
  LET new == { Observation(IF v.verdict = "mismatch" THEN "hash_mismatch" ELSE "entry_missing",
                           v.entry.no, <<6, v.entry.no, 0, 0>>) : v \in {w \in verdicts : w.verdict # "match"} }
  IN First(MaxObservations, analysis.observations \cup new)

-----------------------------------------------------------------------------
(* A burst is reported exactly when enough of the failed logins that were  *)
(* read lie within one window, wherever it starts and in whatever order    *)
(* the lines are, unless the bound on observations cut it, and then the    *)
(* cut is reported; nothing is reported as missing that was found.         *)
BurstIsFound(records, analysis) ==
  LET events == auth_events(records)
      together == \E from \in {e.time : e \in events} :
                    Cardinality({e \in events : e.time >= from /\ e.time <= from + Window}) >= Burst
      reported == \E o \in analysis.observations : o.rule = "auth_failure_burst"
  IN /\ reported => together
     /\ together => reported \/ analysis.truncated
     /\ together => "burst" \notin analysis.missing_information

(* Bytes are called different only when bytes of that name were read and   *)
(* differ; every entry that does not match is observed or cut by the bound.*)
VerdictsCiteBytes(files, verdicts, observed) ==
  /\ \A v \in verdicts : v.verdict \in {"match", "mismatch"} =>
       \E f \in files : /\ f.name = v.entry.name /\ f.digest # 0
                        /\ (f.digest = v.entry.digest) <=> v.verdict = "match"
  /\ Cardinality(observed) < MaxObservations =>
       \A v \in verdicts : v.verdict # "match" =>
         \E o \in observed : o.record = v.entry.no /\ o.rule \in {"hash_mismatch", "entry_missing"}

=============================================================================
