---------------------------- MODULE MCLineReader ----------------------------
EXTENDS LineReader

MCName == {<<"s", "t">>, <<"s">>}
=============================================================================
