----------------------------- MODULE MCDetector -----------------------------
(***************************************************************************)
(* Detector with two categories and windows of real sizes: a calm hour, an *)
(* outage that one category dominates, an hour too small for the shares,   *)
(* and the onset of an outage, in which the twentieth failure arrives      *)
(* between the two queries.  The code's probability is computed            *)
(* numerically; Posterior says only whether it reaches the threshold, and  *)
(* agrees with it on every baseline and count that occurs here.            *)
(***************************************************************************)
EXTENDS Detector

Seen(captured, bank, funds) == [captured |-> captured, failed |-> [bank |-> bank, funds |-> funds]]

TwoCategories == <<"bank", "funds">>

TwoSightings == {<<Seen(80, 10, 10), Seen(80, 10, 10)>>, <<Seen(30, 60, 10), Seen(30, 60, 10)>>,
                 <<Seen(15, 3, 2), Seen(15, 3, 2)>>, <<Seen(0, 18, 1), Seen(0, 19, 1)>>}

SurelyAbove(baseline_rate, observed, total) ==
  IF 1000 * observed >= total * (baseline_rate + 150) + 2500 THEN 990 ELSE 500
=============================================================================
