------------------------------- MODULE DwMC --------------------------------
(* Instances of Dw for TLC. *)
EXTENDS Dw, TLC

CONSTANTS t1, t2, s1, s2, v1, v2

OneServer == <<v1>>
TwoServers == <<v1, v2>>

\* A packet of one message; a hello; one that is answered and may hang the worker.
Plain == [replies |-> 1, ends |-> TRUE]
Silent == [replies |-> 0, ends |-> TRUE]
Endless == [replies |-> 1, ends |-> FALSE]
NoRequests == {}
AllRequests == {Plain, Silent, Endless}

\* One server is busy while the other has nothing to do.
OneBusy == (v1 :> 0) @@ (v2 :> 2)
NoneBusy == [v \in Servers |-> 0]

AllFunctions == Hooked
StreamFunctions == {"send", "recv", "connect", "closesocket"}

\* A bound: the worker is not started, which has nothing to do without requests.
NoWorker == worker = "off"

\* For the run that checks invariants only.
Symmetric == Permutations(Threads) \cup Permutations(Sockets)
=============================================================================
