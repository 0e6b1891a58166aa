------------------------------ MODULE MCUpkeep ------------------------------
(***************************************************************************)
(* Two commits of the platform: the second drops a rule and rejects a      *)
(* payload.  One frozen item begins another.                               *)
(***************************************************************************)
EXTENDS Upkeep

Changes == <<"REQUIRE_CHANGES">>
NotReject == <<"REQUIRE_CHANGES", "is not REJECT">>

MCPublished ==
  <<[words |-> {<<"enum", "REQUIRE_CHANGES">>, <<"prose", "is not REJECT">>},
     rejects |-> {}],
    [words |-> {<<"enum", "REQUIRE_CHANGES">>},
     rejects |-> {[json_path |-> "event_type", source_kind |-> "external"]}]>>
MCShortSha == <<"ba0a35e3", "4c1d9f07">>
MCRules == [warn_after |-> 1, fail_after |-> 2]

marker(anchor, how, word, gap) ==
  [anchor |-> anchor, how |-> how, carried_as |-> word, not_carried_yet |-> gap]
waived(expires) == [issue |-> "#17", expires |-> expires]

value == marker(Changes, "enum", "REQUIRE_CHANGES", NONE)
rule(gap) == marker(NotReject, "prose", "is not REJECT", gap)

declaration(covers, excused, markers) ==
  [contract |-> [outcomes |-> {Changes}, invariants |-> {NotReject}],
   frozen |-> {"outcomes", "invariants"},
   covers |-> covers, excused |-> excused, markers |-> markers]
whole(markers) == declaration({"outcomes", "invariants"}, FALSE, markers)

\* As it should be; waived, for a while and for ever; kept here; marked twice;
\* an item said to be left out.
MCDeclarations ==
  {whole(<<value, rule(NONE)>>),
   whole(<<value, rule(waived(1))>>),
   whole(<<value, rule(waived(NONE))>>),
   whole(<<value, marker(NotReject, "ours_only", NONE, NONE)>>),
   whole(<<value, rule(NONE), rule(waived(0))>>),
   declaration({"outcomes"}, TRUE, <<value>>)}

gap(path, expires) == [json_path |-> path, source_kind |-> "external", expires |-> expires]
MCGaps == {{}, {gap("event_type", 1)}, {gap("event_type", NONE)}}

MCLeaves ==
  {[path |-> "reason", in_metadata |-> FALSE, system |-> NONE],
   [path |-> "metadata.note", in_metadata |-> TRUE, system |-> "gateway"]}

producer(author, review) ==
  [gateway |-> [declaration |-> "none yet", metadata_authored_by |-> author,
                retention_layer |-> "theirs", review_by |-> review]]
MCProducers == {producer("producer", 2), producer("producer", 0), producer("us", 2), <<>>}

text(declared) == [declared |-> declared, layered |-> {"reason"}, pointers |-> {}]
MCTexts == {text({"reason"}), text({"reason", "metadata.note"})}

=============================================================================
