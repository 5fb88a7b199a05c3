-------------------------- MODULE MCFirmwareBuild --------------------------
(***************************************************************************)
(* An instance of FirmwareBuild: two files for each tool whose files are   *)
(* written one after the other and checked together, one for the others;   *)
(* an ISO whose root directory continues into an area of its own and leads *)
(* to a directory that continues there too.                                *)
(***************************************************************************)
EXTENDS FirmwareBuild

CONSTANTS k1, k2

MCKernel == <<k1, k2, k1>>

MCLeadsTo == [a \in Areas |->
  CASE a = "root" -> {"rootCE", "ota"} [] a = "ota" -> {"otaCE"}
    [] a = "otaCE" -> {"otaCE2"} [] OTHER -> {}]

\* The instance's own images survive the container.
ASSUME RoundTripsAssumption == RoundTrips

=============================================================================
