----------------------------- MODULE SVFClient -----------------------------
(***************************************************************************)
(* The callers of one SparseVirtualFile: Client.run of src/cpy/simulator.py *)
(* in several threads that share the object, against the server that holds  *)
(* the remote file, and a thread that keeps the cache small with lru_punt.  *)
(* The remote file is long enough for every greedy read: like Server.get,   *)
(* it has no end.                                                           *)
(* Every call on the file is atomic: the guard pc = "idle" is its lock, and *)
(* the loops a call has entered run on before any other call starts.        *)
(***************************************************************************)
EXTENDS SVFNeed

CONSTANTS
    Client,         \* the threads that run Client.run
    GreedyLengths,  \* the greedy_length they may pass to need()
    MaxDemands,     \* bound: demands of one client
    Setups          \* the programs looked at: which clients they run, the
                    \* <<file position, length>> these demand, and the bounds a
                    \* punting thread passes to lru_punt, if there is one

ASSUME SetupsAssumption ==
    /\ GreedyLengths \subseteq 0 .. MaxPos /\ GreedyLengths # {} /\ MaxDemands \in Nat
    /\ \A x \in Setups :
            /\ DOMAIN x = {"clients", "demands", "punting"}
            /\ x.clients \subseteq Client
            /\ x.demands \subseteq Pos \X (1 .. MaxPos)
            /\ \A d \in x.demands, g \in GreedyLengths : d[1] + d[2] + g <= MaxPos
            /\ x.punting \subseteq 0 .. MaxBound

VARIABLES
    setup,      \* the program
    client      \* each client's step, its demand, what need() answered and
                \* how much of that it still has to fetch

NoDemand == <<0, 0>>

clientVars == <<vars, setup, client>>

\* Server.get: as many bytes as were asked for.
get(f, seek) == Fetch(f, seek[1], seek[2])

\* Client c goes to step at, with todo left to fetch.
Go(c, at, todo) ==
    client' = [client EXCEPT ![c] = [@ EXCEPT !.at = at, !.todo = todo]]

At(c, at) == client[c].at = at /\ pc = "idle"

\* The next demand of the list, lines 126 to 135: has_data decides.
Demand(c, d) ==
    /\ At(c, "ready")
    /\ client[c].served < MaxDemands
    /\ c \in setup.clients
    /\ client' = [client EXCEPT ![c] =
            [@ EXCEPT !.demand = d, !.at = IF has(d[1], d[2]) THEN "read" ELSE "need"]]
    /\ UNCHANGED vars

Need(c, greedy) ==
    /\ At(c, "need")
    /\ LET answer == need(client[c].demand[1], client[c].demand[2], greedy)
       IN client' = [client EXCEPT ![c] =
                [@ EXCEPT !.at = "fetch", !.missed = answer, !.todo = answer]]
    /\ UNCHANGED vars

\* One GET and the write of what it returned.
GetAndWrite(c, f) ==
    /\ At(c, "fetch") /\ client[c].todo # <<>>
    /\ write(Head(client[c].todo)[1], get(f, Head(client[c].todo)))
    /\ Go(c, "fetch", Tail(client[c].todo))

\* Everything is fetched: lines 154 to 161, has_data must be true now.
CheckHas(c) ==
    /\ At(c, "fetch") /\ client[c].todo = <<>>
    /\ Go(c, IF has(client[c].demand[1], client[c].demand[2]) THEN "read" ELSE "failed", <<>>)
    /\ UNCHANGED vars

\* The read succeeds and the demand is served.
Read(c) ==
    /\ At(c, "read")
    /\ read(client[c].demand[1], client[c].demand[2])
    /\ client' = [client EXCEPT ![c] =
            [at |-> "ready", demand |-> NoDemand, missed |-> <<>>, todo |-> <<>>,
             served |-> @.served + 1]]

\* The read raises an exception: the data has gone since has_data.
ReadFails(c) ==
    /\ At(c, "read")
    /\ readThrows(client[c].demand[1], client[c].demand[2])
    /\ Go(c, "failed", <<>>)

\* The punting thread.
Punt == \E bound \in setup.punting : lru_punt(bound) /\ UNCHANGED client

\* The call in progress goes on.
Continue == Loop /\ UNCHANGED client

ClientStep(c) ==
    \/ \E d \in setup.demands : Demand(c, d)
    \/ \E greedy \in GreedyLengths : Need(c, greedy)
    \/ \E f \in Files : GetAndWrite(c, f)
    \/ CheckHas(c)
    \/ Read(c)
    \/ ReadFails(c)

ClientInit ==
    /\ Init
    /\ setup \in Setups
    /\ client = [c \in Client |->
                    [at |-> "ready", demand |-> NoDemand, missed |-> <<>>,
                     todo |-> <<>>, served |-> 0]]

ClientNext == ((\E c \in Client : ClientStep(c)) \/ Punt \/ Continue) /\ UNCHANGED setup

\* The threads are scheduled fairly and a call in progress returns.  Nothing
\* makes the punting thread run.
ClientSpec ==
    /\ ClientInit /\ [][ClientNext]_clientVars
    /\ WF_clientVars(Continue /\ UNCHANGED setup)
    /\ \A c \in Client : WF_clientVars(ClientStep(c) /\ UNCHANGED setup)

(***************************************************************************)
(* Properties                                                               *)
(***************************************************************************)
Failed(c) == client[c].at = "failed"

\* The sequence has(), need(), write(), read() always succeeds, whatever the
\* other threads fetch meanwhile ("This sequence is expected to always succeed").
SequenceSucceeds == \A c \in Client : ~Failed(c)

\* Punting at any moment does not harm a demand none of which was held, of the
\* only client there is: the block it is written to is the one touched last, and
\* that one is never punted.
PuntSparesFreshData ==
    \A c \in Client :
        setup.clients = {c} /\ Failed(c) => client[c].missed # <<client[c].demand>>

\* Clients that read a file in pages: nothing is fetched beyond a demand, and two
\* demands are equal or have no byte in common.
Paged ==
    /\ GreedyLengths = {0}
    /\ \A d, e \in setup.demands : d = e \/ EndOf(d) <= e[1] \/ EndOf(e) <= d[1]

\* Every page demanded is served in the end, as long as nobody punts, although pages
\* are written from inside a gap up to a block and stay side by side: no page is split
\* over two blocks, whatever other clients coalesce (svf.cpp:478).
EveryPageServed ==
    \A c \in Client :
        setup.punting = {} /\ Paged /\ client[c].demand # NoDemand ~> client[c].demand = NoDemand

=============================================================================
