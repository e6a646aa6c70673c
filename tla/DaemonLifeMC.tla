------------------------------ MODULE DaemonLifeMC ------------------------------
\* Two daemons, one of them strict, and two hook calls; no proxy, Reqable's own,
\* a third party's and one without a host.
EXTENDS DaemonLife

MCProxy(h, t, s) == [http |-> h, https |-> t, socks |-> s]
MCProxies ==
  {MCProxy("off", "off", "off"), MCProxy("loopback", "loopback", "off"),
   MCProxy("loopback", "off", "remote"), MCProxy("hostless", "off", "off")}
MCStrict == [d \in Daemons |-> d = "strict"]
===============================================================================
