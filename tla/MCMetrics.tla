------------------------------ MODULE MCMetrics ------------------------------
(* Instances of Metrics for TLC.                                           *)
EXTENDS Metrics, TLC

ScraperSymmetry == Permutations(Scrapers)
============================================================================
