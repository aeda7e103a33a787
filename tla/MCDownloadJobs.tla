---- MODULE MCDownloadJobs ----
(* DownloadJobs for TLC: one URL that sessions may want in different places. *)
EXTENDS DownloadJobs

OneSource == [f \in Paths |-> CHOOSE k \in Keys : TRUE]
====
