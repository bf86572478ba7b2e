--------------------------- MODULE MCRsyncTransport ---------------------------
(* Two shards of one file each, one of which may be spelled in another way,    *)
(* and the whole mirror.                                                       *)
EXTENDS RsyncTransport, TLC

CONSTANTS f, g, a, b

Under == Whole :> {f, g} @@ a :> {f} @@ b :> {g}
=============================================================================
