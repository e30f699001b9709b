------------------------------ MODULE MCRemote ------------------------------
(* Instances of Remote: messages, its workers and its two MTAs, which have one *)
(* deploy_order, on two machines.                                              *)
EXTENDS Remote

Name(b, s) == [base |-> b, sep |-> s]
Messages ==
  [core    |-> [app_name |-> Name("messages", ""), files |-> "core", order |-> 40],
   workers |-> [app_name |-> Name("workers", "-"), files |-> "core", order |-> 50],
   pymta   |-> [app_name |-> Name("pymta", ""), files |-> "pymta", order |-> 10],
   mta     |-> [app_name |-> Name("mta", "-"), files |-> "mta", order |-> 10]]

AllServices == {"core", "workers", "pymta", "mta"} \X {"m1", "m2"}

Layout(core, workers, pymta, mta, old, units, deployed) ==
  LET own == [core |-> core, workers |-> workers, pymta |-> pymta, mta |-> mta]
      written == [core |-> old, workers |-> old, pymta |-> old, mta |-> old]
  IN  [own |-> own, old |-> written, hosts |-> hosts_files(own, written),
       units |-> units, deployed |-> deployed]

\* Workers on the core's host and both MTAs; an external pymta, workers of their own and
\* a second core that is not deployed yet, in a file of st-cli 0.4.
MessagesLayouts == {
  Layout(<<"m1">>, <<>>, <<"m2">>, <<"m2">>, FALSE,
         [core |-> "managed", workers |-> "managed", pymta |-> "managed", mta |-> "managed"],
         {<<"core", "m1">>, <<"workers", "m1">>, <<"pymta", "m2">>, <<"mta", "m2">>}),
  Layout(<<"m1", "m2">>, <<"m2">>, <<>>, <<>>, TRUE,
         [core |-> "managed", workers |-> "managed", pymta |-> "external"],
         {<<"core", "m1">>, <<"workers", "m2">>})}

Request(op, cs, host, parallel, tty) ==
  [op |-> op, components |-> cs, place |-> [core |-> 1, workers |-> 2, pymta |-> 4, mta |-> 3],
   host |-> host, parallel |-> parallel, tty |-> tty, yes |-> ~tty, ip |-> "none"]

AllRequests == {
  Request("restart", {"core", "workers"}, <<>>, TRUE, TRUE),
  Request("restart", {"pymta", "mta"}, <<>>, FALSE, FALSE),
  Request("restart", {}, <<Name("workers", "-"), 1>>, TRUE, TRUE),
  Request("reset", {"core"}, <<>>, FALSE, TRUE),
  Request("reset", {"pymta"}, <<Name("pymta", ""), 1>>, FALSE, FALSE)}
=============================================================================
