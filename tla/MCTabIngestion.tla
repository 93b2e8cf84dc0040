--------------------------- MODULE MCTabIngestion ---------------------------
(***************************************************************************)
(* Small instances of TabIngestion: documents of two runners whose race is *)
(* open, or finished without placings, with one, with two, or with one     *)
(* revoked; and documents with and without start times.                    *)
(***************************************************************************)
EXTENDS TabIngestion, TLC

CONSTANTS a, b

Doc(s, place, times) == [status |-> s, place |-> place @@ NoPlace, times |-> times]

Nowhere == <<>>

MCDocs == {Doc("open", Nowhere, {"advertised"}),
           Doc("final", a :> 1, {"advertised"}),
           Doc("final", b :> 1 @@ a :> 0, {"advertised"})}

MCTimedDocs == {Doc("open", Nowhere, {"advertised"}),
                Doc("final", Nowhere, {}),
                Doc("final", a :> 1 @@ b :> 0, {"actual"})}
=============================================================================
