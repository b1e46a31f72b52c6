---------------------- MODULE MCClassificationRegistry ----------------------
(***************************************************************************)
(* Values for ClassificationRegistry: three listings, of which x may leave *)
(* the exchange, y may change its symbol and has the page that fails or is *)
(* refused, and z may come later.  The seed knows x alone.                 *)
(***************************************************************************)
EXTENDS ClassificationRegistry

MCListing == {"x", "y", "z"}
MCPlace == [x |-> 1, y |-> 2, z |-> 3]
MCClass == {"banks", "steel"}
MCSector == [c \in MCClass |-> c]
MCSeed == [i \in MCListing |-> IF i = "x" THEN "banks" ELSE None]
MCPage == [i \in MCListing |-> IF i = "z" THEN "steel" ELSE "banks"]
MCLate == {"z"}
MCLeaves == {"x"}
MCRenames == {"y"}
MCUnreadable == {"y"}
MCRetryDelays == <<1>>
=============================================================================
