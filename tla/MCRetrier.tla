------------------------------ MODULE MCRetrier ------------------------------
(* The policy of DefaultRetryPolicy with four attempts, in units of a        *)
(* quarter of a second, and a cap that the third pause reaches.              *)
EXTENDS Retrier

MCErrors ==
    [cause : {"429", "400", "net"}, wrapped : {FALSE}] \cup [cause : {"net"}, wrapped : {TRUE}]
=============================================================================
