---------------------------- MODULE MCUsageRows ----------------------------
(***************************************************************************)
(* Rows for UsageRows: for each provider one of every way a row can take,  *)
(* of two services, with lists that overlap where their order decides.     *)
(***************************************************************************)
EXTENDS UsageRows

RowOf(p, s, u, l, z, b) ==
  [provider |-> p, service |-> s, unit |-> u, lists |-> l, size |-> z, base |-> b]

AwsRows == {
  RowOf("AWS", "s1", "hours", {}, "listed", 1),
  RowOf("AWS", "s2", "hours", {}, "burstable", 2),
  RowOf("AWS", "s1", "hours", {}, "unsized", 0),
  RowOf("AWS", "s2", "hours", {}, "missing", 1),
  RowOf("AWS", "s2", "hours", {}, "family", 1),
  RowOf("AWS", "s1", "hours", {"unknown"}, "none", 1),
  RowOf("AWS", "s1", "lambda", {}, "none", 1),
  RowOf("AWS", "s1", "lambda", {"unknown"}, "none", 2),
  RowOf("AWS", "s1", "storage", {"ssd"}, "none", 0),
  RowOf("AWS", "s2", "storage", {}, "none", 1),
  RowOf("AWS", "s2", "storage", {"hdd", "unknown"}, "none", 1),
  RowOf("AWS", "s2", "network", {"networking"}, "none", 1),
  RowOf("AWS", "s1", "network", {}, "none", 1),
  RowOf("AWS", "s1", "other", {}, "none", 1),
  RowOf("AWS", "s2", "hours", {"unsupported", "unknown"}, "listed", 1)}

GcpRows == {
  RowOf("GCP", "s1", "hours", {"compute"}, "listed", 1),
  RowOf("GCP", "s2", "hours", {"compute", "memory"}, "none", 2),
  RowOf("GCP", "s1", "hours", {}, "none", 1),
  RowOf("GCP", "s2", "hours", {"unknown", "compute"}, "none", 2),
  RowOf("GCP", "s1", "storage", {"memory"}, "none", 1),
  RowOf("GCP", "s2", "storage", {"memory", "compute"}, "none", 1),
  RowOf("GCP", "s1", "storage", {"unknown"}, "none", 1),
  RowOf("GCP", "s2", "network", {"networking"}, "none", 1),
  RowOf("GCP", "s1", "network", {}, "none", 2),
  RowOf("GCP", "s1", "alike", {}, "none", 1),
  RowOf("GCP", "s1", "other", {"compute"}, "none", 1),
  RowOf("GCP", "s1", "hours", {"unsupported", "compute"}, "listed", 1)}

AzureRows == {
  RowOf("AZURE", "s1", "hours", {}, "listed", 1),
  RowOf("AZURE", "s2", "hours", {}, "constrained", 2),
  RowOf("AZURE", "s1", "hours", {"memory"}, "none", 1),
  RowOf("AZURE", "s1", "hours", {"unknown"}, "none", 1),
  RowOf("AZURE", "s1", "storage", {"ssd"}, "none", 1),
  RowOf("AZURE", "s2", "storage", {"hdd"}, "missing", 1),
  RowOf("AZURE", "s2", "storage", {"ssd", "hdd"}, "none", 1),
  RowOf("AZURE", "s1", "storage", {}, "none", 1),
  RowOf("AZURE", "s1", "storage", {"unknown"}, "none", 2),
  RowOf("AZURE", "s2", "network", {"networking"}, "none", 1),
  RowOf("AZURE", "s1", "network", {}, "none", 1),
  RowOf("AZURE", "s2", "memory", {"memory"}, "none", 1),
  RowOf("AZURE", "s1", "alike", {}, "none", 1),
  RowOf("AZURE", "s1", "other", {}, "none", 1),
  RowOf("AZURE", "s1", "network", {"unsupported", "networking"}, "none", 1)}

MCRows == AwsRows \cup GcpRows \cup AzureRows
=============================================================================
