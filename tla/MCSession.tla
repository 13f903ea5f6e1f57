----------------------------- MODULE MCSession -----------------------------
EXTENDS Session

CONSTANTS d1, d2, d3

MCClients == {"c1", "c2"}
MCFiles == [empty |-> <<>>, one |-> <<d1>>, two |-> <<d2, d3>>]

Deploy(run, a1, a2, f1, f2, faults) ==
  [run |-> run, addr |-> [c1 |-> a1, c2 |-> a2],
   wants |-> [c1 |-> f1, c2 |-> f2], faults |-> faults]

Alone1(file, faults) == Deploy({"c1"}, "a", "b", file, file, faults)

Errors == {"socketError", "interrupt", "kill"}
Losses == {"requestLoss", "ackLoss"}

\* Two clients for the same file, at one address and at two; one alone, for a
\* longer file and for one that is not there.  A behaviour in which a request
\* or an acknowledgement is never read is one in which it is lost.
MCDeployments == {
  Deploy(MCClients, "a", "a", "one", "one", {}),
  Deploy(MCClients, "a", "b", "empty", "one", {}),
  Alone1("two", Errors),
  Alone1("none", Errors)}

MCLiveDeployments == {Alone1("two", Losses), Alone1("none", Losses)}

\* At one address for different files; only acknowledgements are lost.
MCMixDeployments == {Deploy(MCClients, "a", "a", "empty", "two", {"ackLoss"})}
=============================================================================
