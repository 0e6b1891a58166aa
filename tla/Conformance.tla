---------------------------- MODULE Conformance -----------------------------
(***************************************************************************)
(* What the conformance scripts conclude: conformance/payload_check.py and *)
(* conformance/pin_freshness.py.  A check is the set of complaints it      *)
(* prints as FAIL; a script exits with an error when it has any.           *)
(*                                                                         *)
(* A document is a contract's file at one upstream commit: the words it    *)
(* carries, each with the place it stands in ("enum", "key", "prose"), and *)
(* the payloads its schema rejects.  An entry of a frozen subtree, and the *)
(* anchor that names one, is a sequence of words.  A date is a number.     *)
(*                                                                         *)
(* Abstracted: one contract declares a carried_check, and its items are    *)
(* all different; the wording of a complaint.  Not here: the checks of the *)
(* scenario's jobs (they are in Flows), the shape of the manifests, and    *)
(* the fields and schemas of decisions.  Those can only add complaints.    *)
(*                                                                         *)
(* An operator named ..._slip is the next definition with a mistake in it, *)
(* kept to show that a property can fail; nothing here uses one.           *)
(***************************************************************************)
EXTENDS Naturals, Sequences, SequencesExt, FiniteSets

CONSTANTS
  NONE,    \* a key left out of a manifest
  Leaves   \* the scenario's text: [path, in_metadata, system], system NONE if ours

-----------------------------------------------------------------------------
\* Every item of the contract that the declaration says it compares: contract
\* gives each key its items, and frozen names the keys that are frozen.
covered_entries(declared) ==
  UNION {declared.contract[key] : key \in declared.covers \intersect DOMAIN declared.contract}

\* The entries an anchor may mean: the one it spells out beats those it begins.
matched(declared, anchor) ==
  LET entries == covered_entries(declared)
  IN IF anchor = <<>> THEN {}
     ELSE IF anchor \in entries THEN {anchor}
     ELSE {e \in entries : IsPrefix(anchor, e)}

\* The markers that are about an entry; when there are several the last is used.
markers_of(declared, entry) ==
  SelectSeq(declared.markers, LAMBDA m : matched(declared, m.anchor) = {entry})

anchored(declared, entry) ==
  IF markers_of(declared, entry) = <<>> THEN NONE ELSE Last(markers_of(declared, entry))

\* A value and a field name are looked for where they belong, prose anywhere.
marker_present(marker, document) ==
  \E place \in {"enum", "key", "prose"} :
    /\ marker.how \in {"enum", "key"} => place = marker.how
    /\ <<place, marker.carried_as>> \in document.words

\* A waiver that outlived its cause is let be.
marker_failures_slip(marker, document, today) ==
  LET gap == marker.not_carried_yet
  IN IF marker.how = "ours_only" \/ marker_present(marker, document) THEN {}
     ELSE IF gap = NONE THEN {"not_carried"}
     ELSE IF gap.issue = NONE \/ gap.expires = NONE THEN {"open_ended"}
     ELSE IF gap.expires < today THEN {"expired"}
     ELSE {}

marker_failures(marker, document, today) ==
  LET gap == marker.not_carried_yet
  IN IF marker.how = "ours_only" THEN {}
     ELSE IF marker_present(marker, document)
       THEN (IF gap = NONE THEN {} ELSE {"left_behind"})
     ELSE IF gap = NONE THEN {"not_carried"}
     ELSE IF gap.issue = NONE \/ gap.expires = NONE THEN {"open_ended"}
     ELSE IF gap.expires < today THEN {"expired"}
     ELSE {}

\* check_carried: each complaint but those about a marker ends the comparison.
check_carried(declared, document, today) ==
  LET entries == covered_entries(declared)
  IN IF declared.covers = {} THEN {"covers_nothing"}
     ELSE IF declared.frozen \ declared.covers # {} /\ ~declared.excused
       THEN {"partial_in_silence"}
     ELSE IF \E m \in Range(declared.markers) : Cardinality(matched(declared, m.anchor)) # 1
       THEN {"bad_anchor"}
     ELSE IF \E e \in entries : anchored(declared, e) = NONE THEN {"unmarked"}
     ELSE UNION {marker_failures(anchored(declared, e), document, today) : e \in entries}

-----------------------------------------------------------------------------
is_known_gap(gap, error) == gap.json_path = error.json_path /\ gap.source_kind = error.source_kind

check_payloads(gaps, document) ==
  IF \A error \in document.rejects : \E gap \in gaps : is_known_gap(gap, error)
    THEN {} ELSE {"payload"}

\* A gap is good on the day it ends, as a marker's waiver is.
check_gap_expiry_slip(gaps, today) ==
  IF \E gap \in gaps : gap.expires = NONE \/ gap.expires < today THEN {"gap"} ELSE {}

check_gap_expiry(gaps, today) ==
  IF \E gap \in gaps : gap.expires = NONE \/ gap.expires <= today THEN {"gap"} ELSE {}

-----------------------------------------------------------------------------
\* Text we wrote: our own records, and the metadata of an inbound record whose
\* producer entry says that we are its author.
ours_slip(producers, leaf) == leaf.system = NONE

ours(producers, leaf) ==
  \/ leaf.system = NONE
  \/ leaf.system \in DOMAIN producers /\ producers[leaf.system].metadata_authored_by = "us"

\* text is the declaration: the leaves declared, those of them whose retention
\* is answered for, and the pointers.
check_text_fields(text, producers) ==
  IF text.declared = {} /\ text.pointers = {} THEN {"no_declaration"}
  ELSE LET stray == {leaf \in Leaves : leaf.path \notin text.declared \union text.pointers}
       IN (IF \E leaf \in stray : ours(producers, leaf) THEN {"undeclared"} ELSE {})
            \union (IF \E leaf \in stray : ~ours(producers, leaf) /\ ~leaf.in_metadata
                    THEN {"structural"} ELSE {})
            \union (IF text.declared \subseteq text.layered THEN {} ELSE {"no_layer"})

systems == {leaf.system : leaf \in Leaves} \ {NONE}

incomplete(entry) ==
  entry.declaration = NONE \/ entry.retention_layer = NONE \/ entry.review_by = NONE

\* An entry is asked who wrote the metadata, whether it is whole, and, if it is,
\* whether its review is still ahead.
producer_failures(entry, today) ==
  (IF entry.metadata_authored_by = NONE THEN {"unauthored"} ELSE {})
    \union (IF incomplete(entry) THEN {"incomplete"}
            ELSE IF entry.review_by < today THEN {"overdue"} ELSE {})

check_external_producers(producers, today) ==
  (UNION {producer_failures(producers[s], today) : s \in systems \intersect DOMAIN producers})
    \union (IF systems \subseteq DOMAIN producers THEN {} ELSE {"unknown_producer"})

\* main: the complaints of a whole run, of the checks modelled.
payload_check(manifest, document, today) ==
  check_carried(manifest.carried, document, today)
    \union check_payloads(manifest.gaps, document)
    \union check_text_fields(manifest.text, manifest.producers)
    \union check_external_producers(manifest.producers, today)
    \union check_gap_expiry(manifest.gaps, today)

-----------------------------------------------------------------------------
\* The warning is looked for first.
assess_slip(rules, behind, age) ==
  IF behind = 0 THEN "ok"
  ELSE IF age >= rules.warn_after THEN "WARN"
  ELSE IF age >= rules.fail_after THEN "FAIL"
  ELSE "ok"

\* pin_freshness: behind alone never fails, being left there does.
assess(rules, behind, age) ==
  IF behind = 0 THEN "ok"
  ELSE IF age >= rules.fail_after THEN "FAIL"
  ELSE IF age >= rules.warn_after THEN "WARN"
  ELSE "ok"

=============================================================================
