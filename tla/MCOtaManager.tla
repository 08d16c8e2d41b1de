--------------------------- MODULE MCOtaManager ---------------------------
(* Instances of OtaManager for TLC.                                        *)
EXTENDS OtaManager

CONSTANTS fw1, fw2, bytecode

MCFirmware == {fw1, fw2}
MCOther == {bytecode}

Row(h, i) == [hash |-> h, image |-> i]

\* Two releases, one that is no application image, a hash that was updated
\* without the image, and no project.
MCReleases == {Row(fw1, fw1), Row(fw2, fw2), Row(bytecode, bytecode), Row(fw1, fw2), None}

MCGoodReleases == {Row(fw1, fw1), Row(fw2, fw2)}
===========================================================================
