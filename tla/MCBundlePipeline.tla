-------------------------- MODULE MCBundlePipeline --------------------------
(* Model-checking instances of BundlePipeline: the refinement of the       *)
(* abstract HourDelivery, and liveness within the bounds of the clock.     *)
EXTENDS BundlePipeline

Fate(h) == IF row[h].up # 0 THEN "delivered"
           ELSE IF row[h].gave THEN "given_up"
           ELSE IF HasRow(h) THEN "bundled" ELSE "unbundled"

Delivery == INSTANCE HourDelivery WITH fate <- [h \in Hours |-> Fate(h)]

\* The automation alone implements HourDelivery: it bundles each closed hour
\* once and whole, and both "delivered" and "given up" are final.
ImplementsHourDelivery == Delivery!Spec

\* Every closed hour with scans is eventually uploaded or given up, whether or
\* not any upload ever works.  Only hours that leave the clock room to age a
\* bundle past the give-up limit before it stops can be asked about.
HourSettles ==
    \A h \in {g \in Hours : g + MaxFaults + GiveUpAge + 2 <= MaxHour} :
        (h < hour /\ scans[h] > 0) ~> (row[h].up # 0 \/ row[h].gave)
=============================================================================
