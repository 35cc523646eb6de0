----------------------------- MODULE MCDelivery -----------------------------
(***************************************************************************)
(* Small feeds for Delivery: three items, of which the second version      *)
(* changes two and the third version drops one.                            *)
(***************************************************************************)
EXTENDS Delivery, TLC

CONSTANTS i1, i2, i3, a, b, m, n

\* The third version restores the first item's content.
MCFeed == << (i1 :> a @@ i2 :> a), (i1 :> b @@ i2 :> b @@ i3 :> a),
             (i1 :> a @@ i3 :> b) >>

\* Two items have enclosures, of which one changes under its URL.
MCMedia == << i1 :> m, (i1 :> n @@ i3 :> m), (i1 :> n @@ i3 :> n) >>

\* The second version is served without an ETag.
MCValidator == << "v1", NULL, "v3" >>
=============================================================================
