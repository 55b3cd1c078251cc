--------------------------- MODULE MCHealthCheck ---------------------------
(* Constant definitions for model-checking HealthCheck.                     *)
EXTENDS HealthCheck

CONSTANTS
    given1,                 \* the path in a --pt argument
    obfs, vanilla, exotic,  \* an obfs4 bridge, a vanilla one, one whose
                            \* transport is unknown to discovery
    garbled                 \* a malformed line

Pt(split, protocol, path) == [split |-> split, protocol |-> protocol, path |-> path]

MCSpecs == {Pt(TRUE, "other", given1), Pt(TRUE, InvalidName, given1),
            Pt(FALSE, "other", given1), Pt(TRUE, "obfs4", Empty)}

MCTransport == [l \in {obfs, vanilla, exotic, garbled} |->
                  CASE l = obfs -> "obfs4" [] l = exotic -> "other"
                    [] OTHER -> NoTransport]

MCBridgeLists == {<<>>, <<garbled>>, <<vanilla, garbled>>, <<exotic>>,
                  <<obfs, vanilla>>, <<vanilla, exotic>>,
                  <<obfs, vanilla, obfs>>}

MCPathDirs == <<"home", "usr">>
MCExtraDirs == <<"usr">>
=============================================================================
