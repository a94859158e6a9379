------------------------------ MODULE MCInventory -------------------------------
(* One host that tools report and that listens on one port over tcp and over udp. *)
EXTENDS Inventory

CONSTANT h1          \* the host that tools report

\* A fuzz that names one page twice and has a row without url, and a probe of a bare host and
\* of a port of it.
Seen(scheme, port) == [scheme |-> scheme, host |-> h1, port |-> port]
NoUrl == [scheme |-> "", host |-> Nothing, port |-> Nothing]
MCBatch ==
    {[tool |-> "ffuf", items |-> <<Seen("https", Nothing), Seen("https", Nothing), NoUrl>>],
     [tool |-> "httpx", items |-> <<Seen("", Nothing), Seen("https", 8443)>>]}
MCListening == {[host |-> h1, port |-> 443, protocol |-> p] : p \in {"tcp", "udp"}}
=================================================================================
