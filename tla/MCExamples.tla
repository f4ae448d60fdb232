---------------------------- MODULE MCExamples -----------------------------
(***************************************************************************)
(* Examples on small instances.                                            *)
(***************************************************************************)
EXTENDS Examples

\* Several words, none that counts, one twice, an empty line that can be read.
MCContents == {<<"min", "other", "sec">>, <<"", "hour", "hour">>}

MCClientLists == {{<<"user", -1>>, <<"sys", -1>>},
                  {<<"color", 1>>} \cup ({"now"} \X (0..2))}
MCStoreIds == {<<"numfetch", -1>>, <<"color", 1>>}
MCValues   == {-1, 0, 3}

MCColumns == {7, 10}
=============================================================================
