----------------------------- MODULE MCUpdater -----------------------------
(* Small instances of Updater: an older of many revisions, the same and two newer releases.    *)
EXTENDS Updater

MCCurrent == <<2024, 5, 17, 1>>
MCReleases == {<<2023, 12, 31, 70000>>, MCCurrent, <<2024, 5, 17, 2>>, <<2024, 6, 1, 0>>}
=============================================================================
