------------------------------ MODULE MCGateway ------------------------------
EXTENDS Gateway

Entry(n, enabled, m, eps) ==
  [name |-> n, enabled |-> enabled, model |-> m, endpoints |-> eps]

\* The default proxy alone; two proxies with a malformed endpoint between good
\* ones; a disabled and an empty one; one name twice with two models.
MCConfigs == {
  <<Entry("default", TRUE, "minConn", <<TRUE, TRUE>>)>>,
  <<Entry("pa", TRUE, "randomWeight", <<TRUE>>),
    Entry("pb", TRUE, "minConn", <<TRUE, FALSE, TRUE>>)>>,
  <<Entry("pa", FALSE, "minConn", <<TRUE>>), Entry("pb", TRUE, "minConn", <<FALSE>>)>>,
  <<Entry("pa", TRUE, "randomWeight", <<TRUE>>), Entry("pa", TRUE, "minConn", <<TRUE>>)>>}
==============================================================================
