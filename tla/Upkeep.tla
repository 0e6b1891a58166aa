------------------------------- MODULE Upkeep -------------------------------
(***************************************************************************)
(* Keeping the contracts pinned: the platform publishes, the maintainers   *)
(* move the pin and edit the manifests, and two scripts watch.             *)
(* payload_check runs when somebody pushes or asks for it (test.yml), from *)
(* a cache of the pinned files; pin_freshness also runs every night        *)
(* (pin-freshness.yml) and asks GitHub, which may not answer.              *)
(*                                                                         *)
(* Bounds: the calendar stops at MaxDay, which every waiver ends before,   *)
(* and an age stops at MaxAge, which is past both thresholds; the nights   *)
(* go on.  Published is all the platform ever publishes.  A maintainer     *)
(* writes one of the values in Declarations, Gaps, Producers and Texts.    *)
(*                                                                         *)
(* vouched and touched are history: the entries the last green             *)
(* payload_check found in the document, and those of them whose marker has *)
(* been edited since.                                                      *)
(***************************************************************************)
EXTENDS Conformance, Integers

CONSTANTS
  Published,     \* the platform's documents, in the order of its commits
  ShortSha,      \* each commit's name as the cache spells it: commit[:8]
  Rules,         \* the freshness block: warn_after and fail_after
  Declarations, Gaps, Producers, Texts,
  MaxDay, MaxAge

Commits == 1..Len(Published)
Manifests == [carried : Declarations, gaps : Gaps, producers : Producers, text : Texts]

ASSUME BoundsAreNumbers == MaxDay \in Nat /\ MaxAge \in Nat

\* pin_freshness reads both thresholds with int().
ASSUME ThresholdsAreNumbers == Rules.warn_after \in Int /\ Rules.fail_after \in Int

ASSUME OneAtLeast == Published \in Seq(Range(Published)) /\ Published # <<>>

\* Two commits of the platform are not told apart by less than eight digits.
ASSUME ShaTellsApart ==
  /\ ShortSha \in [Commits -> Range(ShortSha)]
  /\ \A c, d \in Commits : ShortSha[c] = ShortSha[d] => c = d

\* The calendar is long enough: a waiver has no date or one that passes on it.
dates(last) == {date \in Int : date <= last} \union {NONE}
ASSUME WaiversEnd ==
  /\ \A declared \in Declarations : \A e \in covered_entries(declared) :
       anchored(declared, e) # NONE =>
         LET waiver == anchored(declared, e).not_carried_yet
         IN waiver # NONE => waiver.expires \in dates(MaxDay - 1)
  /\ \A gaps \in Gaps : \A gap \in gaps : gap.expires \in dates(MaxDay)

VARIABLES
  day,       \* today's date, as payload_check reads it
  main,      \* the newest commit of the platform's main
  pin,       \* pinned.yaml: commit
  age,       \* the days since pinned.yaml's pinned_at
  manifest,  \* contract-semantics.yaml and the known_gaps of pinned.yaml
  cache,     \* conformance/.schema_cache: the files held, by short name
  freshness, \* what pin_freshness last said of this pin, as dated
  vouched,
  touched

vars == <<day, main, pin, age, manifest, cache, freshness, vouched, touched>>
watched == <<vouched, touched>>

capped(n, most) == IF n < most THEN n ELSE most

-----------------------------------------------------------------------------
\* The file is named after the contract only.
cache_key_slip(c) == ShortSha[1]

cache_key(c) == ShortSha[c]

\* What the check reads: the file in the cache, fetched when it is not there.
fetch_schemas(c) ==
  IF cache_key(c) \in DOMAIN cache THEN cache
  ELSE [key \in DOMAIN cache \union {cache_key(c)} |->
          IF key = cache_key(c) THEN Published[c] ELSE cache[key]]

\* The entries a document is relied on to carry, and does.
carried_entries(declared, document) ==
  {e \in covered_entries(declared) :
     /\ anchored(declared, e).how # "ours_only"
     /\ marker_present(anchored(declared, e), document)}

\* The entries two declarations do not say the same of.
reworded(old, new) ==
  {e \in covered_entries(old) :
     e \notin covered_entries(new) \/ anchored(old, e) # anchored(new, e)}

older(days) == capped(days + 1, MaxAge)

-----------------------------------------------------------------------------
Init ==
  /\ day = 0 /\ age = 0
  /\ main = 1 /\ pin = 1
  /\ manifest \in Manifests
  /\ cache = <<>>
  /\ freshness = "none"
  /\ vouched = {} /\ touched = {}

\* The platform merges to its main; nothing moves here.
UpstreamCommits ==
  /\ main < Len(Published)
  /\ main' = main + 1
  /\ UNCHANGED <<day, pin, age, manifest, cache, freshness, watched>>

\* A maintainer pins another commit, and dates it.
Bump(c) ==
  /\ c \in 1..main /\ c # pin
  /\ pin' = c /\ age' = 0 /\ freshness' = "none"
  /\ UNCHANGED <<day, main, manifest, cache, watched>>

\* The pin is dated anew and not moved: pinned_at is a line of its own.
Redate ==
  /\ age # 0
  /\ age' = 0 /\ freshness' = "none"
  /\ UNCHANGED <<day, main, pin, manifest, cache, watched>>

EditDeclaration(declared) ==
  /\ manifest' = [manifest EXCEPT !.carried = declared]
  /\ touched' = touched \union (vouched \intersect reworded(manifest.carried, declared))
  /\ UNCHANGED <<day, main, pin, age, cache, freshness, vouched>>

EditGaps(gaps) ==
  /\ manifest' = [manifest EXCEPT !.gaps = gaps]
  /\ UNCHANGED <<day, main, pin, age, cache, freshness, watched>>

EditProducers(producers) ==
  /\ manifest' = [manifest EXCEPT !.producers = producers]
  /\ UNCHANGED <<day, main, pin, age, cache, freshness, watched>>

EditTexts(text) ==
  /\ manifest' = [manifest EXCEPT !.text = text]
  /\ UNCHANGED <<day, main, pin, age, cache, freshness, watched>>

\* payload_check, from a push or by hand.  --offline stops without a verdict
\* when the file is not in the cache.  The checks that are not modelled pass or
\* do not.
PayloadCheck(offline, others_pass) ==
  LET document == fetch_schemas(pin)[cache_key(pin)]
      green == others_pass /\ payload_check(manifest, document, day) = {}
  IN /\ offline => cache_key(pin) \in DOMAIN cache
     /\ cache' = fetch_schemas(pin)
     /\ vouched' = IF green THEN carried_entries(manifest.carried, document) ELSE vouched
     /\ touched' = IF green THEN {} ELSE touched
     /\ UNCHANGED <<day, main, pin, age, manifest, freshness>>

\* A runner starts from a checkout, which holds no cache.
Checkout ==
  /\ cache' = <<>>
  /\ UNCHANGED <<day, main, pin, age, manifest, freshness, watched>>

\* pin_freshness, by hand or because pinned.yaml was pushed.  Unanswered it gives
\* no verdict and changes nothing, whether it then ends green (an error of urllib,
\* which is caught) or red (a timeout while it reads, or no JSON: nothing catches
\* those).
PinFreshness ==
  /\ freshness' = assess(Rules, main - pin, age)
  /\ UNCHANGED <<day, main, pin, age, manifest, cache, watched>>

\* An upstream that did not answer counts as nothing new there.
Night_slip(answered) ==
  /\ day' = capped(day + 1, MaxDay)
  /\ age' = older(age)
  /\ freshness' = assess(Rules, IF answered THEN main - pin ELSE 0, age')
  /\ UNCHANGED <<main, pin, manifest, cache, watched>>

\* A day goes by, and the scheduled run asks GitHub.
Night(answered) ==
  /\ day' = capped(day + 1, MaxDay)
  /\ age' = older(age)
  /\ freshness' = IF answered THEN assess(Rules, main - pin, age') ELSE freshness
  /\ UNCHANGED <<main, pin, manifest, cache, watched>>

Next ==
  \/ UpstreamCommits
  \/ \E c \in Commits : Bump(c)
  \/ Redate
  \/ \E declared \in Declarations : EditDeclaration(declared)
  \/ \E gaps \in Gaps : EditGaps(gaps)
  \/ \E producers \in Producers : EditProducers(producers)
  \/ \E text \in Texts : EditTexts(text)
  \/ \E offline, others_pass \in BOOLEAN : PayloadCheck(offline, others_pass)
  \/ Checkout
  \/ PinFreshness
  \/ \E answered \in BOOLEAN : Night(answered)

\* The schedule runs every day, and GitHub is not away every night for ever.
Fairness == WF_vars(Night(TRUE))

Spec == Init /\ [][Next]_vars /\ Fairness

-----------------------------------------------------------------------------
\* No check that is modelled complains; every green run is one of these.
Green == payload_check(manifest, Published[pin], day) = {}

\* Every variable keeps the shape its file has.
TypeOK ==
  /\ day \in 0..MaxDay /\ age \in 0..MaxAge
  /\ main \in Commits /\ pin \in 1..main
  /\ manifest \in Manifests
  /\ DOMAIN cache \subseteq Range(ShortSha)
  /\ freshness \in {"none", "ok", "WARN", "FAIL"}
  /\ touched \subseteq vouched

\* The document judged is the one of the commit now pinned, whichever commits
\* were pinned, fetched and pinned again before (fetch_schemas: bumping the pin
\* cannot silently reuse the previous contract's files).
JudgedAgainstThePin ==
  cache_key(pin) \in DOMAIN cache => cache[cache_key(pin)] = Published[pin]

\* A rule the contract was seen to carry never goes missing behind a green run:
\* unless somebody edits its marker, the bump to a document without it is red.
\* A waiver left in place after its cause is what would break this
\* (check_carried: it would swallow the next loss).
NoSilentLoss ==
  Green => \A e \in vouched \ touched :
             marker_present(anchored(manifest.carried, e), Published[pin])

\* What a green run forgives it forgives under a date, and not past it: each
\* payload the document rejects is excused by a gap that has not yet reached its
\* day, and each item compared that the document lacks is kept here on purpose or
\* waived up to today or later, whichever of the two ends the day itself falls to
\* (ADR-0006, as is_known_gap and check_gap_expiry between them and check_carried
\* apply it).
NothingForgivenPastItsDate ==
  Green =>
    /\ \A error \in Published[pin].rejects : \E gap \in manifest.gaps :
         is_known_gap(gap, error) /\ gap.expires # NONE /\ day < gap.expires
    /\ \A e \in covered_entries(manifest.carried) :
         LET marker == anchored(manifest.carried, e)
             waiver == marker.not_carried_yet
         IN \/ marker.how = "ours_only" \/ marker_present(marker, Published[pin])
            \/ waiver # NONE /\ waiver.expires # NONE /\ day <= waiver.expires

\* Green means that somebody answers for each piece of text: it is declared or
\* a pointer, or it is metadata of a producer whose entry is whole, says that
\* it is not ours and is still in its review (RFC-0013 and RFC-0015: the two
\* checks leave no text between them).
EveryTextAnswered ==
  Green => \A leaf \in Leaves :
    \/ leaf.path \in manifest.text.declared \union manifest.text.pointers
    \/ /\ leaf.in_metadata /\ leaf.system \in DOMAIN manifest.producers
       /\ LET entry == manifest.producers[leaf.system]
          IN /\ entry.metadata_authored_by \notin {NONE, "us"}
             /\ ~incomplete(entry) /\ ~(entry.review_by < day)

\* A pin told of is not taken back: whatever upstream merges, nights that go
\* unanswered and runs by hand, what was last said stays red until somebody moves
\* the pin or dates it anew (main: an upstream that cannot be asked is no verdict).
RedIsNotTakenBack ==
  [][freshness = "FAIL" /\ pin' = pin /\ age' >= age => freshness' = "FAIL"]_vars

\* A pin that upstream has left behind is not left there in silence: it is
\* moved, or the nightly run ends red (pin_freshness: behind and left there),
\* unless it is dated anew for ever, which no verdict on its age can find out.
StaleIsTold ==
  <>[][pin' = pin => age' >= age]_vars =>
    \A c \in Commits : (pin = c /\ main > c) ~> (pin # c \/ freshness = "FAIL")

=============================================================================
