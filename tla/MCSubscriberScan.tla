--------------------------- MODULE MCSubscriberScan ---------------------------
(* Two scans of one creator by one device, and two maintenance workers.    *)
EXTENDS SubscriberScan

CONSTANTS d1, w1, w2

MCJobs == 1..Gens
=============================================================================
