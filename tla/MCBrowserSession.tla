-------------------------- MODULE MCBrowserSession --------------------------
(* Instances of BrowserSession for TLC. *)
EXTENDS BrowserSession

Address(scheme, host) ==
  [scheme |-> scheme, host |-> host, fragment |-> FALSE, spelling |-> "raw"]

Home == Address("wss:", "home")
Other == Address("wss:", "other")
Chef == [username |-> "chef", password |-> "secret"]

\* Another broker with credentials, the same without, and refused entries.
SomeDrafts ==
  {[url |-> Other, credentials |-> Chef],
   [url |-> Home, credentials |-> NoCredentials],
   [url |-> Address("ws:", "other"), credentials |-> NoCredentials],
   [url |-> Other, credentials |-> [Chef EXCEPT !.password = ""]]}

\* Everything goes wrong once.
FewFaults == [kind \in Faults |-> 1]
=============================================================================
