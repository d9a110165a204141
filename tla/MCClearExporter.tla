--------------------------- MODULE MCClearExporter ---------------------------
(* Streams for checking ClearExporter: a factory f that announces a reserve  *)
(* r, the reserve with its IOU token i, and a Curve factory c with a pool p. *)
EXTENDS ClearExporter

CONSTANTS f, r, i, c, p

Log(a, n, e, s, k) ==
  [addr |-> a, name |-> n, event |-> e, subject |-> s, subjectKind |-> k]

NoConfig == [a \in Addr |-> Unknown]

\* One kind per contract in names, announcements and configuration; a name may
\* also be unknown.  The second log is the one a handler refuses.
Records == {
  Log(f, {"reserve", "factory"}, "NewClearReserve", r, "base_reserve"),
  Log(f, {"reserve", "factory"}, "NewClearReserve", r, Unknown),
  Log(r, {"base", "reserve"}, "AssetAdded", i, Unknown),
  Log(r, {}, "other", NoAddr, Unknown),
  Log(i, {"iou"}, "other", NoAddr, Unknown),
  Log(i, {}, "other", NoAddr, Unknown),
  Log(c, {"curve", "stableswap", "factory"}, "CurvePoolDeployed", p, Unknown),
  Log(c, {}, "CurvePoolDeployed", p, Unknown),
  Log(p, {}, "other", NoAddr, Unknown)}

Configs == {NoConfig,
            [NoConfig EXCEPT ![r] = "base_reserve", ![c] = "curve_factory"]}

\* The configuration and the announcement of i disagree.
DisagreeingConfigs == {[NoConfig EXCEPT ![i] = "curve"]}
=============================================================================
