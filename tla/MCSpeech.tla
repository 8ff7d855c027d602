----------------------------- MODULE MCSpeech ------------------------------
(* Small instances of Speech: texts with a sentence, a long word, wide        *)
(* characters and a wide full stop.                                           *)
EXTENDS Speech

MCTexts == {<<"a", ".", "s", "a", "a">>, <<"a", "a", "a", "a", "a", "a">>, <<"a", "s", "s", "a", "a", "l", "c">>,
            <<"a", "a", "a", "l", "c", "s">>, <<"a", "w", "c", "c", "a">>, <<"s", "a", "w", "c", "c", "a">>,
            <<"a", "a", "w", "c", "c", "a">>}
=============================================================================
