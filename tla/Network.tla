------------------------------- MODULE Network -------------------------------
(***************************************************************************)
(* LSMTree::network_thread_routine: the thread that accepts connections,   *)
(* prepares a recv for each and is to collect what they send in batches.   *)
(*                                                                         *)
(* The thread is a loop: submit what is prepared and wait for              *)
(* BATCH_NUM_REQUESTS completions, then look at every completion that is   *)
(* there and release BATCH_NUM_REQUESTS of them.  A turn of the loop takes *)
(* one submission entry, sqe, which every completion it looks at prepares  *)
(* anew, so that the last one wins.                                        *)
(*                                                                         *)
(* The user data of a recv is the first eight bytes of its                 *)
(* ConnectionRequest and not its address (line 1358), and the user data of *)
(* an entry that no completion has prepared is zero.  The thread reads the *)
(* request type through either, which ends the process: fault.  What it    *)
(* would do after a recv is therefore not modelled.                        *)
(*                                                                         *)
(* The thread stores the server socket in element NUM_FILE_FDS - 1 of      *)
(* fixed_file_fds and registers another element, which nobody has written, *)
(* as the file the accept is for (lines 1282-1284).  Only if that element  *)
(* happens to hold the descriptor of the server socket does the accept     *)
(* listen; otherwise it fails at once.  The messages to the workers go to  *)
(* elements that hold no ring either (line 1318), unless by chance.        *)
(*                                                                         *)
(* The kernel is modelled by what the thread expects of it: accepted       *)
(* connections get direct descriptors, a multishot accept may end with any *)
(* completion and ends when no descriptor is left.                         *)
(***************************************************************************)
EXTENDS Integers, Sequences, FiniteSets

CONSTANTS
  MAX_SIMULTANEOUS_CONNECTIONS,
  BATCH_NUM_REQUESTS,
  NUM_SSTABLE_WORKER_THREADS,
  MaxTurns   \* bound: turns of the loop; fewer than the submission ring has entries

ASSUME NetworkAssumption ==
  /\ MAX_SIMULTANEOUS_CONNECTIONS \in Nat
  /\ BATCH_NUM_REQUESTS \in Nat \ {0}
  /\ NUM_SSTABLE_WORKER_THREADS \in Nat
  /\ MaxTurns \in Nat

VARIABLES
  cq,           \* the completion queue
  sqe,          \* the entry of this turn: descriptor of the recv, Zero, or Nothing
  accepts,      \* accepts in the submission queue
  net_pc,       \* "submit" or "wait"
  accepting,    \* a multishot accept listens on the server socket
  open,         \* descriptors of the clients that have connected
  connections,  \* descriptors with an entry in the connection pool
  recvs,        \* per descriptor, its recvs the kernel performs
  served,       \* descriptors for which a recv was submitted (history)
  turns,
  fault

queueVars == <<sqe, accepts>>
networkVars == <<cq, queueVars, net_pc, accepting, open, connections, recvs, served, turns, fault>>

Fd == 1 .. MAX_SIMULTANEOUS_CONNECTIONS
None == 0      \* the result of a failed accept, an error number in the code
Zero == 0      \* an entry that holds zeros: IORING_OP_NOP without user data
Nothing == -1  \* no entry was taken yet
Accepted(fd, more) == [type |-> "ACCEPT", res |-> fd, more |-> more]
Received(fd) == [type |-> "RECV", res |-> fd, more |-> FALSE]
Unset == [type |-> "UNSET", res |-> None, more |-> FALSE]  \* its user data is zero
Completion == [type : {"ACCEPT", "RECV", "UNSET"}, res : Fd \cup {None}, more : BOOLEAN]

NetworkTypeOK ==
  /\ cq \in Seq(Completion)
  /\ sqe \in Fd \cup {Zero, Nothing}
  /\ accepts \in 0 .. 1
  /\ net_pc \in {"submit", "wait"}
  /\ accepting \in BOOLEAN
  /\ open \in SUBSET Fd
  /\ connections \in SUBSET Fd
  /\ recvs \in [Fd -> 0 .. MaxTurns]
  /\ served \in SUBSET Fd
  /\ turns \in 0 .. MaxTurns
  /\ fault \in BOOLEAN

\* The accept is submitted together with the messages to the workers.  What fails is in
\* the completion queue; a message has no user data.
NetworkInit ==
  /\ accepting \in BOOLEAN
  /\ \E failing \in 0 .. NUM_SSTABLE_WORKER_THREADS :
       cq = (IF accepting THEN <<>> ELSE <<Accepted(None, FALSE)>>) \o [n \in 1 .. failing |-> Unset]
  /\ sqe = Nothing
  /\ accepts = 0
  /\ net_pc = "submit"
  /\ open = {}
  /\ connections = {}
  /\ recvs = [fd \in Fd |-> 0]
  /\ served = {}
  /\ turns = 0
  /\ fault = FALSE

-----------------------------------------------------------------------------
(***************************************************************************)
(* The kernel.                                                             *)
(***************************************************************************)
Connect(fd, more) ==
  /\ ~fault
  /\ accepting
  /\ fd \notin open
  /\ open' = open \cup {fd}
  /\ accepting' = more
  /\ cq' = Append(cq, Accepted(fd, more))
  /\ UNCHANGED <<queueVars, net_pc, connections, recvs, served, turns, fault>>

AcceptFails ==
  /\ ~fault
  /\ accepting
  /\ open = Fd
  /\ accepting' = FALSE
  /\ cq' = Append(cq, Accepted(None, FALSE))
  /\ UNCHANGED <<queueVars, net_pc, open, connections, recvs, served, turns, fault>>

RecvDone(fd) ==
  /\ ~fault
  /\ recvs[fd] > 0
  /\ recvs' = [recvs EXCEPT ![fd] = @ - 1]
  /\ cq' = Append(cq, Received(fd))
  /\ UNCHANGED <<queueVars, net_pc, accepting, open, connections, served, turns, fault>>

-----------------------------------------------------------------------------
(***************************************************************************)
(* The network thread.                                                     *)
(***************************************************************************)

\* The first half of io_uring_submit_and_wait.  The accept that is submitted again has
\* not got the flag IOSQE_FIXED_FILE, which line 1368 sets in the entry of the recv: it
\* is an accept on descriptor 0 of the process, which fails.
Submit ==
  /\ ~fault
  /\ net_pc = "submit"
  /\ turns < MaxTurns
  /\ recvs' = [fd \in Fd |-> recvs[fd] + (IF fd = sqe THEN 1 ELSE 0)]
  /\ served' = served \cup ({sqe} \cap Fd)
  /\ cq' = cq \o (IF sqe = Zero THEN <<Unset>> ELSE <<>>)
              \o [n \in 1 .. accepts |-> Accepted(None, FALSE)]
  /\ sqe' = Nothing
  /\ accepts' = 0
  /\ net_pc' = "wait"
  /\ turns' = turns + 1
  /\ UNCHANGED <<accepting, open, connections, fault>>

\* The completions of connections, and the descriptor of the last of them.
Fresh == {n \in 1 .. Len(cq) : cq[n].type = "ACCEPT" /\ cq[n].res # None}
LastAccepted == IF Fresh = {} THEN Zero
                ELSE cq[CHOOSE n \in Fresh : \A k \in Fresh : k <= n].res

\* The thread reads the type of a request through the user data of each completion.
BadUserData == \E n \in 1 .. Len(cq) : cq[n].type # "ACCEPT"

\* A variant that waits for one completion more.
EnoughAndOne == Len(cq) > BATCH_NUM_REQUESTS

Enough == Len(cq) >= BATCH_NUM_REQUESTS

\* ConnectionPool::insert for every connection, and a variant that looks at one completion
\* less than it releases.
InsertedButOne == {cq[n].res : n \in Fresh \ {BATCH_NUM_REQUESTS}}
Inserted == {cq[n].res : n \in Fresh}

\* The completions that tell that the multishot accept has ended.
DeadAccepts == {n \in Fresh : ~cq[n].more}

\* One turn: every completion there is, from the oldest to the newest.
Turn ==
  /\ ~fault
  /\ net_pc = "wait"
  /\ Enough
  /\ fault' = BadUserData
  /\ connections' = connections \cup Inserted
  /\ sqe' = LastAccepted
  /\ accepts' = Cardinality(DeadAccepts)
  /\ cq' = SubSeq(cq, BATCH_NUM_REQUESTS + 1, Len(cq))
  /\ net_pc' = "submit"
  /\ UNCHANGED <<accepting, open, recvs, served, turns>>

NetworkNext ==
  \/ \E fd \in Fd, more \in BOOLEAN : Connect(fd, more)
  \/ AcceptFails
  \/ \E fd \in Fd : RecvDone(fd)
  \/ Submit
  \/ Turn

NetworkSpec == NetworkInit /\ [][NetworkNext]_networkVars

\* The thread runs; clients need not connect nor send anything.
NetworkFairSpec == NetworkSpec /\ WF_networkVars(Submit \/ Turn)

-----------------------------------------------------------------------------
(***************************************************************************)
(* Properties.                                                             *)
(***************************************************************************)

\* Releasing BATCH_NUM_REQUESTS completions at the end of a turn (line 1492) never
\* releases one that the loop has not looked at: a client that has connected is in the
\* connection pool or its completion is still in the queue.
NoCompletionLost ==
  fault \/ \A fd \in open :
    fd \in connections \/ \E n \in 1 .. Len(cq) : cq[n] \in {Accepted(fd, TRUE), Accepted(fd, FALSE)}

\* No client is left waiting once there is a batch of completions (line 1333): whoever has
\* connected by then gets into the connection pool, also a client whose completion is
\* behind the batch and is not released with it.
BatchTaken ==
  \A fd \in Fd :
    (fd \in open /\ Len(cq) >= BATCH_NUM_REQUESTS /\ turns < MaxTurns) ~> (fd \in connections \/ fault)

\* "now start receiving and processing incoming connections" (lsm_tree.hpp:1301): when the
\* thread starts its loop, an accept listens or clients have connected.
AcceptsFromStart == turns = 0 => accepting \/ open # {}

\* "prepare recv request" (lsm_tree.hpp:1352): each client that gets into the connection
\* pool has a recv when the thread submits the next time.
EveryConnectionServed == [][Submit => connections \subseteq served']_networkVars

\* "old multishot accept request is dead due to no new connection requests coming in
\* recently, so need to insert a new multishot accept request" (lsm_tree.hpp:1360): a
\* client that connects again finds an accept that listens.
ListensAgain == (open # {} /\ ~accepting) ~> (accepting \/ fault)
=============================================================================
