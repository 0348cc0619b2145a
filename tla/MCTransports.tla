---------------------------- MODULE MCTransports -----------------------------
(* The transports.  A behaviour is about one of them.                      *)
(* Serial: a reader, a writer and a closer; a device and a pipe take two   *)
(* of three descriptor numbers, so that a reopened port may reuse the old  *)
(* ones, as they were or the other way round, or take a new one.           *)
(* TCP: plain and TLS, cancellable or not, a time-out longer than the      *)
(* default budget, and a read time-out for TLS as the supervisor sets it.  *)
EXTENDS PosixSerialTransport, TcpClientTransport

CONSTANTS t1, t2, t3, d1, d2, d3

MCThreads == {t1, t2, t3}
MCDescriptors == {d1, d2, d3}

Setup(tls, nonblocking, timeout, cancellable, readTimeout) ==
  [tls |-> tls, nonblocking |-> nonblocking, timeout |-> timeout,
   cancellable |-> cancellable, readTimeout |-> readTimeout]

MCConfigs ==
  {Setup(FALSE, FALSE, 0, FALSE, 0), Setup(FALSE, TRUE, 1, FALSE, 0),
   Setup(TRUE, FALSE, 0, TRUE, 1), Setup(TRUE, FALSE, 3, FALSE, 1),
   Setup(TRUE, FALSE, 3, TRUE, 0), Setup(TRUE, TRUE, 0, FALSE, 0)}

VARIABLE part

allVars == <<vars, tcpVars, part>>

TransportsInit == Init /\ TcpInit /\ part \in {"serial", "tcp"}

TransportsNext ==
  \/ part = "serial" /\ Next /\ UNCHANGED <<tcpVars, part>>
  \/ part = "tcp" /\ TcpNext /\ UNCHANGED <<vars, part>>

\* Fairness is that of the serial port; nothing of it is enabled in the other
\* behaviours.
TransportsSpec == TransportsInit /\ [][TransportsNext]_allVars /\ Fairness
=============================================================================
