---------------------------- MODULE UpkeepProofs ----------------------------
(***************************************************************************)
(* What a green payload_check is worth, for any documents the platform     *)
(* publishes, any manifests maintainers write and any dates.               *)
(***************************************************************************)
EXTENDS Upkeep, TLAPS

-----------------------------------------------------------------------------
(* What green means, one check at a time.                                  *)

\* A green run is one in which each check found nothing.
LEMMA GreenChecks ==
  ASSUME NEW m, NEW document, NEW today, payload_check(m, document, today) = {}
  PROVE  /\ check_carried(m.carried, document, today) = {}
         /\ check_payloads(m.gaps, document) = {}
         /\ check_text_fields(m.text, m.producers) = {}
         /\ check_external_producers(m.producers, today) = {}
         /\ check_gap_expiry(m.gaps, today) = {}
  BY DEF payload_check

\* A comparison that finds nothing wrong found nothing wrong of any item.
LEMMA GreenMarkers ==
  ASSUME NEW declared, NEW document, NEW today,
         check_carried(declared, document, today) = {},
         NEW e \in covered_entries(declared)
  PROVE  marker_failures(anchored(declared, e), document, today) = {}
<1> DEFINE failures == {marker_failures(anchored(declared, x), document, today) :
                          x \in covered_entries(declared)}
<1>1. UNION failures = {}
  BY DEF check_carried
<1>2. marker_failures(anchored(declared, e), document, today) \in failures
  OBVIOUS
<1>3. QED BY <1>1, <1>2

\* An item with no waiver, and not kept here, is in the document.
LEMMA NoWaiverNoExcuse ==
  ASSUME NEW marker, NEW document, NEW today,
         marker_failures(marker, document, today) = {},
         marker.how # "ours_only", marker.not_carried_yet = NONE
  PROVE  marker_present(marker, document)
  BY DEF marker_failures

\* An item that is in the document keeps no waiver.
LEMMA PresentIsUnwaived ==
  ASSUME NEW marker, NEW document, NEW today,
         marker_failures(marker, document, today) = {},
         marker.how # "ours_only", marker_present(marker, document)
  PROVE  marker.not_carried_yet = NONE
  BY DEF marker_failures

\* A producer whose entry draws no complaint has said whose metadata it is, is
\* whole, and is in its review.
LEMMA GreenProducer ==
  ASSUME NEW producers, NEW today, check_external_producers(producers, today) = {},
         NEW s \in systems
  PROVE  /\ s \in DOMAIN producers
         /\ producers[s].metadata_authored_by # NONE
         /\ ~incomplete(producers[s])
         /\ ~(producers[s].review_by < today)
<1> DEFINE failures == {producer_failures(producers[x], today) :
                          x \in systems \intersect DOMAIN producers}
<1>0. check_external_producers(producers, today)
        = (UNION failures)
            \union (IF systems \subseteq DOMAIN producers THEN {} ELSE {"unknown_producer"})
  BY DEF check_external_producers
<1> HIDE DEF failures
<1>1. UNION failures = {} /\ systems \subseteq DOMAIN producers
  BY <1>0
<1> USE DEF failures
<1>2. s \in DOMAIN producers
  BY <1>1
<1>3. producer_failures(producers[s], today) \in failures
  BY <1>2
<1>4. producer_failures(producers[s], today) = {}
  BY <1>1, <1>3
<1>5. QED
  BY <1>2, <1>4 DEF producer_failures

-----------------------------------------------------------------------------
(* The pin, the cache and the calendar.                                    *)

\* There is a first commit.
LEMMA CommitsInOrder == Len(Published) \in Nat /\ Len(Published) >= 1
  BY OneAtLeast

\* A name is one of the cache's names.
LEMMA KeysAreShas == ASSUME NEW c \in Commits PROVE cache_key(c) \in Range(ShortSha)
  BY ShaTellsApart DEF cache_key, Range

\* The verdicts of a night are four.
LEMMA VerdictsOfFreshness ==
  ASSUME NEW behind, NEW days
  PROVE  assess(Rules, behind, days) \in {"none", "ok", "WARN", "FAIL"}
  BY DEF assess

\* What is fetched is added under its own name.
LEMMA FetchAdds ==
  ASSUME NEW c
  PROVE  /\ DOMAIN fetch_schemas(c) = DOMAIN cache \union {cache_key(c)}
         /\ \A key \in DOMAIN cache : fetch_schemas(c)[key] = cache[key]
         /\ cache_key(c) \notin DOMAIN cache =>
              fetch_schemas(c)[cache_key(c)] = Published[c]
<1>1. CASE cache_key(c) \in DOMAIN cache
  BY <1>1 DEF fetch_schemas
<1>2. CASE cache_key(c) \notin DOMAIN cache
  BY <1>2 DEF fetch_schemas
<1>3. QED BY <1>1, <1>2

\* Every file in the cache is the file of the commit it is named after.
CacheIsHonest ==
  \A c \in Commits : cache_key(c) \in DOMAIN cache => cache[cache_key(c)] = Published[c]

\* What the check reads is the pinned document.
LEMMA ReadsThePin ==
  ASSUME CacheIsHonest, NEW c \in Commits
  PROVE  fetch_schemas(c)[cache_key(c)] = Published[c]
  BY FetchAdds DEF CacheIsHonest

\* An item vouched for, and not touched since, is still compared, and neither
\* kept here nor waived: only its presence can make the check green.
StillHeldTo ==
  \A e \in vouched \ touched :
    /\ e \in covered_entries(manifest.carried)
    /\ anchored(manifest.carried, e).how # "ours_only"
    /\ anchored(manifest.carried, e).not_carried_yet = NONE

UpkeepInv == TypeOK /\ CacheIsHonest /\ StillHeldTo

\* An empty cache and nothing vouched for.
LEMMA InitUpkeep == Init => UpkeepInv
  BY CommitsInOrder, BoundsAreNumbers
  DEF Init, UpkeepInv, TypeOK, CacheIsHonest, StillHeldTo, Commits

\* A counter that is capped stays in its range.
LEMMA CappedInRange ==
  ASSUME NEW most \in Nat, NEW n \in 0..most
  PROVE  capped(n + 1, most) \in 0..most
  BY DEF capped

\* The steps that leave the cache, the pin and every manifest alone.
LEMMA QuietSteps ==
  ASSUME UpkeepInv,
         \/ UpstreamCommits \/ Redate \/ PinFreshness
         \/ \E answered \in BOOLEAN : Night(answered)
  PROVE  UpkeepInv'
<1>1. /\ cache' = cache /\ manifest' = manifest
      /\ pin' = pin /\ vouched' = vouched /\ touched' = touched
  BY DEF UpstreamCommits, Redate, PinFreshness, Night, watched
<1>2. day' \in 0..MaxDay /\ age' \in 0..MaxAge /\ main' \in Commits /\ main' \in main..main + 1
  <2>1. CASE UpstreamCommits
    BY <2>1, CommitsInOrder DEF UpstreamCommits, UpkeepInv, TypeOK, Commits
  <2>2. CASE PinFreshness
    BY <2>2, CommitsInOrder DEF PinFreshness, UpkeepInv, TypeOK, Commits
  <2>3. ASSUME NEW answered \in BOOLEAN, Night(answered)
        PROVE  /\ day' \in 0..MaxDay /\ age' \in 0..MaxAge
               /\ main' \in Commits /\ main' \in main..main + 1
    <3>1. day' \in 0..MaxDay /\ age' \in 0..MaxAge
      BY <2>3, CappedInRange, BoundsAreNumbers DEF Night, older, UpkeepInv, TypeOK
    <3>2. main' = main
      BY <2>3 DEF Night
    <3>3. QED BY <3>1, <3>2, CommitsInOrder DEF UpkeepInv, TypeOK, Commits
  <2>4. CASE Redate
    BY <2>4, CommitsInOrder, BoundsAreNumbers DEF Redate, UpkeepInv, TypeOK, Commits
  <2>5. QED BY <2>1, <2>2, <2>3, <2>4
<1>3. freshness' \in {"none", "ok", "WARN", "FAIL"}
  BY VerdictsOfFreshness DEF UpstreamCommits, Redate, PinFreshness, Night, UpkeepInv, TypeOK
<1>4. pin' \in 1..main'
  BY <1>1, <1>2, CommitsInOrder DEF UpkeepInv, TypeOK, Commits
<1>5. TypeOK'
  BY <1>1, <1>2, <1>3, <1>4 DEF UpkeepInv, TypeOK
<1>6. CacheIsHonest' /\ StillHeldTo'
  BY <1>1 DEF UpkeepInv, CacheIsHonest, StillHeldTo, cache_key
<1>7. QED BY <1>5, <1>6 DEF UpkeepInv

\* Moving the pin asks for another name, and changes no marker.
LEMMA BumpKeeps ==
  ASSUME UpkeepInv, NEW c \in Commits, Bump(c)
  PROVE  UpkeepInv'
<1>1. /\ cache' = cache /\ manifest' = manifest /\ vouched' = vouched
      /\ touched' = touched /\ pin' = c /\ main' = main /\ c \in 1..main
      /\ day' = day /\ age' = 0 /\ freshness' = "none"
  BY DEF Bump, watched
<1>2. TypeOK'
  BY <1>1, BoundsAreNumbers DEF UpkeepInv, TypeOK
<1>3. CacheIsHonest' /\ StillHeldTo'
  BY <1>1 DEF UpkeepInv, CacheIsHonest, StillHeldTo, cache_key
<1>4. QED BY <1>2, <1>3 DEF UpkeepInv

\* An edit of a marker lets go of its item, and no other edit is about markers.
LEMMA EditsKeep ==
  ASSUME UpkeepInv,
         \/ \E declared \in Declarations : EditDeclaration(declared)
         \/ \E gaps \in Gaps : EditGaps(gaps)
         \/ \E producers \in Producers : EditProducers(producers)
         \/ \E text \in Texts : EditTexts(text)
  PROVE  UpkeepInv'
<1>1. /\ day' = day /\ main' = main /\ pin' = pin /\ age' = age
      /\ cache' = cache /\ freshness' = freshness /\ vouched' = vouched
  BY DEF EditDeclaration, EditGaps, EditProducers, EditTexts, watched
<1>2. manifest \in Manifests
  BY DEF UpkeepInv, TypeOK
<1> DEFINE Kept ==
      /\ manifest' \in Manifests
      /\ touched' \subseteq vouched' /\ touched \subseteq touched'
      /\ \A e \in vouched \ touched' :
           e \in covered_entries(manifest.carried) =>
             /\ e \in covered_entries(manifest'.carried)
             /\ anchored(manifest'.carried, e) = anchored(manifest.carried, e)
<1>3. ASSUME NEW declared \in Declarations, EditDeclaration(declared)
      PROVE  Kept
  <2>1. /\ manifest' = [manifest EXCEPT !.carried = declared]
        /\ touched' = touched \union (vouched \intersect reworded(manifest.carried, declared))
    BY <1>3 DEF EditDeclaration
  <2>2. manifest' \in Manifests /\ manifest'.carried = declared
    BY <1>2, <2>1 DEF Manifests
  <2>3. QED
    BY <1>1, <2>1, <2>2 DEF reworded, UpkeepInv, TypeOK
<1>4. ASSUME \/ \E gaps \in Gaps : EditGaps(gaps)
             \/ \E producers \in Producers : EditProducers(producers)
             \/ \E text \in Texts : EditTexts(text)
      PROVE  Kept
  <2>1. touched' = touched /\ vouched' = vouched
    BY <1>4 DEF EditGaps, EditProducers, EditTexts, watched
  <2>2. manifest' \in Manifests /\ manifest'.carried = manifest.carried
    BY <1>2, <1>4 DEF EditGaps, EditProducers, EditTexts, Manifests
  <2>3. QED
    BY <2>1, <2>2 DEF UpkeepInv, TypeOK
<1>5. Kept
  BY <1>3, <1>4
<1>6. TypeOK'
  BY <1>1, <1>5 DEF UpkeepInv, TypeOK
<1>7. CacheIsHonest'
  BY <1>1 DEF UpkeepInv, CacheIsHonest, cache_key
<1>8. StillHeldTo'
  <2> SUFFICES ASSUME NEW e \in vouched' \ touched'
               PROVE  /\ e \in covered_entries(manifest'.carried)
                      /\ anchored(manifest'.carried, e).how # "ours_only"
                      /\ anchored(manifest'.carried, e).not_carried_yet = NONE
    BY DEF StillHeldTo
  <2>1. e \in vouched \ touched
    BY <1>1, <1>5
  <2>2. /\ e \in covered_entries(manifest.carried)
        /\ anchored(manifest.carried, e).how # "ours_only"
        /\ anchored(manifest.carried, e).not_carried_yet = NONE
    BY <2>1 DEF UpkeepInv, StillHeldTo
  <2>3. QED BY <1>1, <1>5, <2>2
<1>9. QED BY <1>6, <1>7, <1>8 DEF UpkeepInv

\* A green run vouches for what it found, which no marker waives.
LEMMA CheckKeeps ==
  ASSUME UpkeepInv, NEW offline \in BOOLEAN, NEW others_pass \in BOOLEAN,
         PayloadCheck(offline, others_pass)
  PROVE  UpkeepInv'
<1> DEFINE document == fetch_schemas(pin)[cache_key(pin)]
<1>1. /\ cache' = fetch_schemas(pin)
      /\ day' = day /\ main' = main /\ pin' = pin /\ age' = age
      /\ manifest' = manifest /\ freshness' = freshness
  BY DEF PayloadCheck
<1>2. pin \in Commits
  BY CommitsInOrder DEF UpkeepInv, TypeOK, Commits
<1>3. DOMAIN cache' \subseteq Range(ShortSha)
  BY <1>1, <1>2, FetchAdds, KeysAreShas DEF UpkeepInv, TypeOK
<1>4. touched' \subseteq vouched'
  BY DEF PayloadCheck, UpkeepInv, TypeOK
<1>5. TypeOK'
  BY <1>1, <1>3, <1>4 DEF UpkeepInv, TypeOK
<1>6. CacheIsHonest'
  <2> SUFFICES ASSUME NEW c \in Commits, cache_key(c) \in DOMAIN cache'
               PROVE  cache'[cache_key(c)] = Published[c]
    BY DEF CacheIsHonest, cache_key
  <2>1. CASE cache_key(c) \in DOMAIN cache
    BY <1>1, <2>1, FetchAdds DEF UpkeepInv, CacheIsHonest
  <2>2. CASE cache_key(c) \notin DOMAIN cache
    <3>1. cache_key(c) = cache_key(pin)
      BY <1>1, <1>2, <2>2, FetchAdds
    <3>2. c = pin
      BY <1>2, <3>1, ShaTellsApart DEF cache_key
    <3>3. QED BY <1>1, <2>2, <3>2, FetchAdds
  <2>3. QED BY <2>1, <2>2
<1>7. StillHeldTo'
  <2>1. CASE others_pass /\ payload_check(manifest, document, day) = {}
    <3>1. vouched' = carried_entries(manifest.carried, document)
      BY <2>1 DEF PayloadCheck
    <3>2. check_carried(manifest.carried, document, day) = {}
      BY <2>1, GreenChecks
    <3> HIDE DEF document
    <3>3. ASSUME NEW e \in vouched'
          PROVE  /\ e \in covered_entries(manifest.carried)
                 /\ anchored(manifest.carried, e).how # "ours_only"
                 /\ anchored(manifest.carried, e).not_carried_yet = NONE
      <4>1. /\ e \in covered_entries(manifest.carried)
            /\ anchored(manifest.carried, e).how # "ours_only"
            /\ marker_present(anchored(manifest.carried, e), document)
        BY <3>1, <3>3 DEF carried_entries
      <4>2. marker_failures(anchored(manifest.carried, e), document, day) = {}
        BY <3>2, <4>1, GreenMarkers
      <4>3. QED BY <4>1, <4>2, PresentIsUnwaived
    <3>4. QED BY <1>1, <3>3 DEF StillHeldTo
  <2>2. CASE ~(others_pass /\ payload_check(manifest, document, day) = {})
    <3>1. vouched' = vouched /\ touched' = touched
      BY <2>2 DEF PayloadCheck
    <3>2. QED BY <1>1, <3>1 DEF UpkeepInv, StillHeldTo
  <2>3. QED BY <2>1, <2>2
<1>8. QED BY <1>5, <1>6, <1>7 DEF UpkeepInv

\* A fresh checkout holds no file at all.
LEMMA CheckoutKeeps ==
  ASSUME UpkeepInv, Checkout
  PROVE  UpkeepInv'
<1>1. /\ cache' = <<>> /\ day' = day /\ main' = main /\ pin' = pin /\ age' = age
      /\ manifest' = manifest /\ freshness' = freshness
      /\ vouched' = vouched /\ touched' = touched
  BY DEF Checkout, watched
<1>2. DOMAIN cache' = {}
  BY <1>1
<1>3. QED
  BY <1>1, <1>2 DEF UpkeepInv, TypeOK, CacheIsHonest, StillHeldTo, cache_key

\* Every step keeps the invariant.
LEMMA NextUpkeep ==
  ASSUME UpkeepInv, [Next]_vars
  PROVE  UpkeepInv'
<1>1. CASE UNCHANGED vars
  BY <1>1 DEF vars, UpkeepInv, TypeOK, CacheIsHonest, StillHeldTo, cache_key
<1>2. CASE Next
  BY <1>2, QuietSteps, BumpKeeps, EditsKeep, CheckKeeps, CheckoutKeeps DEF Next
<1>3. QED BY <1>1, <1>2

\* So it holds throughout.
LEMMA UpkeepInvariant == Spec => []UpkeepInv
  BY InitUpkeep, NextUpkeep, PTL DEF Spec

\* The files keep their shape and the pin stays on the platform's main.
THEOREM UpkeepTyped == Spec => []TypeOK
<1>1. UpkeepInv => TypeOK
  BY DEF UpkeepInv
<1>2. QED BY <1>1, UpkeepInvariant, PTL

\* Whatever was pinned and fetched before, the document judged is the pinned one.
THEOREM PinIsWhatIsJudged == Spec => []JudgedAgainstThePin
<1>1. UpkeepInv => JudgedAgainstThePin
  BY CommitsInOrder DEF UpkeepInv, TypeOK, CacheIsHonest, JudgedAgainstThePin, Commits
<1>2. QED BY <1>1, UpkeepInvariant, PTL

\* No rule once seen in the contract is lost behind a green run, unless its
\* marker was edited in between.
THEOREM NothingLostInSilence == Spec => []NoSilentLoss
<1>1. ASSUME UpkeepInv PROVE NoSilentLoss
  <2> SUFFICES ASSUME Green, NEW e \in vouched \ touched
               PROVE  marker_present(anchored(manifest.carried, e), Published[pin])
    BY DEF NoSilentLoss
  <2>1. check_carried(manifest.carried, Published[pin], day) = {}
    BY GreenChecks DEF Green
  <2>2. /\ e \in covered_entries(manifest.carried)
        /\ anchored(manifest.carried, e).how # "ours_only"
        /\ anchored(manifest.carried, e).not_carried_yet = NONE
    BY <1>1 DEF UpkeepInv, StillHeldTo
  <2>3. marker_failures(anchored(manifest.carried, e), Published[pin], day) = {}
    BY <2>1, <2>2, GreenMarkers
  <2>4. QED BY <2>2, <2>3, NoWaiverNoExcuse
<1>2. QED BY <1>1, UpkeepInvariant, PTL

\* Every item compared by a green run has a marker.
LEMMA GreenIsMarked ==
  ASSUME NEW declared, NEW document, NEW today,
         check_carried(declared, document, today) = {},
         NEW e \in covered_entries(declared)
  PROVE  anchored(declared, e) # NONE
  BY DEF check_carried

\* What a green run forgives it forgives under a date that is not over.
THEOREM ForgivenessEnds == Spec => []NothingForgivenPastItsDate
<1>1. ASSUME UpkeepInv PROVE NothingForgivenPastItsDate
  <2> SUFFICES ASSUME Green
               PROVE  /\ \A error \in Published[pin].rejects : \E gap \in manifest.gaps :
                           is_known_gap(gap, error) /\ gap.expires # NONE /\ day < gap.expires
                      /\ \A e \in covered_entries(manifest.carried) :
                           LET marker == anchored(manifest.carried, e)
                               waiver == marker.not_carried_yet
                           IN \/ marker.how = "ours_only"
                              \/ marker_present(marker, Published[pin])
                              \/ waiver # NONE /\ waiver.expires # NONE /\ day <= waiver.expires
    BY DEF NothingForgivenPastItsDate
  <2>1. /\ check_carried(manifest.carried, Published[pin], day) = {}
        /\ check_payloads(manifest.gaps, Published[pin]) = {}
        /\ check_gap_expiry(manifest.gaps, day) = {}
    BY GreenChecks DEF Green
  <2>2. manifest.carried \in Declarations /\ manifest.gaps \in Gaps /\ day \in Int
    BY <1>1, BoundsAreNumbers DEF UpkeepInv, TypeOK, Manifests
  <2>3. \A gap \in manifest.gaps : gap.expires # NONE /\ day < gap.expires
    <3>1. \A gap \in manifest.gaps : gap.expires # NONE /\ ~(gap.expires <= day)
      BY <2>1 DEF check_gap_expiry
    <3>2. \A gap \in manifest.gaps : gap.expires \in Int \union {NONE}
      BY <2>2, WaiversEnd DEF dates
    <3>3. QED BY <2>2, <3>1, <3>2
  <2>4. \A error \in Published[pin].rejects : \E gap \in manifest.gaps : is_known_gap(gap, error)
    BY <2>1 DEF check_payloads
  <2>5. ASSUME NEW e \in covered_entries(manifest.carried), NEW marker,
               marker = anchored(manifest.carried, e),
               marker.how # "ours_only", ~marker_present(marker, Published[pin])
        PROVE  LET waiver == marker.not_carried_yet
               IN waiver # NONE /\ waiver.expires # NONE /\ day <= waiver.expires
    <3> DEFINE waiver == marker.not_carried_yet
    <3>1. marker_failures(marker, Published[pin], day) = {}
      BY <2>1, <2>5, GreenMarkers
    <3>2. marker # NONE
      BY <2>1, <2>5, GreenIsMarked
    <3>3. waiver # NONE /\ waiver.expires # NONE /\ ~(waiver.expires < day)
      BY <2>5, <3>1 DEF marker_failures
    <3>4. waiver.expires \in Int
      BY <2>2, <2>5, <3>2, <3>3, WaiversEnd DEF dates
    <3>5. QED BY <2>2, <3>3, <3>4
  <2>6. QED BY <2>3, <2>4, <2>5
<1>2. QED BY <1>1, UpkeepInvariant, PTL

\* Green leaves no text unanswered for: what one of the two checks lets by, the
\* other asks about.
THEOREM NoTextBetweenTheChecks == Spec => []EveryTextAnswered
<1>1. EveryTextAnswered
  <2> DEFINE text == manifest.text
             producers == manifest.producers
  <2> SUFFICES ASSUME Green, NEW leaf \in Leaves,
                      leaf.path \notin text.declared \union text.pointers
               PROVE  /\ leaf.in_metadata /\ leaf.system \in DOMAIN producers
                      /\ producers[leaf.system].metadata_authored_by \notin {NONE, "us"}
                      /\ ~incomplete(producers[leaf.system])
                      /\ ~(producers[leaf.system].review_by < day)
    BY DEF EveryTextAnswered
  <2>1. /\ check_text_fields(text, producers) = {}
        /\ check_external_producers(producers, day) = {}
    BY GreenChecks DEF Green
  <2>2. ~ours(producers, leaf) /\ leaf.in_metadata
    BY <2>1 DEF check_text_fields
  <2>3. leaf.system \in systems
    BY <2>2 DEF ours, systems
  <2>4. QED
    BY <2>1, <2>2, <2>3, GreenProducer DEF ours
<1>2. QED BY <1>1, PTL

-----------------------------------------------------------------------------
(* Nights and verdicts.                                                    *)

\* Red was said of a pin that is behind and old enough, and until it is
\* moved or dated anew both only grow.
RedWithReason ==
  freshness = "FAIL" => pin # main /\ age \in Nat /\ age >= Rules.fail_after

\* When red is said.
LEMMA WhenRed ==
  ASSUME NEW behind, NEW days
  PROVE  assess(Rules, behind, days) = "FAIL" <=> behind # 0 /\ days >= Rules.fail_after
  BY DEF assess

\* An age that is capped does not go back.
LEMMA OnlyOlder ==
  ASSUME NEW days \in 0..MaxAge
  PROVE  older(days) \in 0..MaxAge /\ older(days) >= days
  BY BoundsAreNumbers DEF older, capped

\* What each step does to a verdict that is red.
LEMMA StepsKeepRed ==
  ASSUME TypeOK, RedWithReason, [Next]_vars
  PROVE  /\ RedWithReason'
         /\ freshness = "FAIL" /\ pin' = pin /\ age' >= age => freshness' = "FAIL"
<1>1. main \in Nat /\ pin \in Nat /\ pin <= main /\ age \in 0..MaxAge /\ age \in Nat
  BY CommitsInOrder, BoundsAreNumbers DEF TypeOK, Commits
<1>2. CASE UNCHANGED <<freshness, pin, main, age>>
  BY <1>2 DEF RedWithReason
<1>3. CASE UpstreamCommits
  BY <1>1, <1>3 DEF UpstreamCommits, RedWithReason
<1>4. ASSUME NEW c \in Commits, Bump(c) PROVE freshness' = "none" /\ pin' # pin
  BY <1>4 DEF Bump
<1>5. CASE PinFreshness
  <2>1. /\ pin' = pin /\ main' = main /\ age' = age
        /\ freshness' = assess(Rules, main - pin, age)
    BY <1>5 DEF PinFreshness
  <2>2. freshness' = "FAIL" <=> pin # main /\ age >= Rules.fail_after
    BY <1>1, <2>1, WhenRed
  <2>3. QED BY <1>1, <2>1, <2>2 DEF RedWithReason
<1>6. ASSUME NEW answered \in BOOLEAN, Night(answered)
      PROVE  /\ RedWithReason'
             /\ freshness = "FAIL" /\ pin' = pin /\ age' >= age => freshness' = "FAIL"
  <2>1. /\ pin' = pin /\ main' = main /\ age' = older(age)
        /\ freshness' = IF answered THEN assess(Rules, main - pin, age') ELSE freshness
    BY <1>6 DEF Night
  <2>2. age' \in Nat /\ age' >= age
    BY <1>1, <2>1, OnlyOlder, BoundsAreNumbers
  <2>3. assess(Rules, main - pin, age') = "FAIL" <=> pin # main /\ age' >= Rules.fail_after
    BY <1>1, WhenRed
  <2>4. freshness = "FAIL" => pin # main /\ age' >= Rules.fail_after
    BY <1>1, <2>2, ThresholdsAreNumbers DEF RedWithReason
  <2>5. QED BY <2>1, <2>2, <2>3, <2>4 DEF RedWithReason
<1>7. CASE Redate
  <2>1. age' = 0 /\ age # 0 /\ freshness' = "none"
    BY <1>7 DEF Redate
  <2>2. ~(age' >= age)
    BY <1>1, <2>1
  <2>3. QED BY <2>1, <2>2 DEF RedWithReason
<1>8. QED
  BY <1>2, <1>3, <1>4, <1>5, <1>6, <1>7
  DEF Next, EditDeclaration, EditGaps, EditProducers, EditTexts, PayloadCheck, Checkout,
      RedWithReason, vars

\* A red verdict on a pin is not taken back by anything but moving it or dating it anew,
\* whatever thresholds are written and however long upstream is away.
THEOREM RedStays == Spec => RedIsNotTakenBack
<1>1. Init => RedWithReason
  BY DEF Init, RedWithReason
<1>2. TypeOK /\ RedWithReason /\ [Next]_vars => RedWithReason'
  BY StepsKeepRed
<1>3. TypeOK /\ RedWithReason /\ [Next]_vars =>
        [freshness = "FAIL" /\ pin' = pin /\ age' >= age => freshness' = "FAIL"]_vars
  BY StepsKeepRed
<1>4. QED BY <1>1, <1>2, <1>3, UpkeepTyped, PTL DEF Spec, RedIsNotTakenBack

=============================================================================
