--------------------------- MODULE ServerRegistry ---------------------------
(***************************************************************************)
(* The server's registry of executors: a task for each connection, which   *)
(* enters it under the id its executor gives and removes that id at the    *)
(* connection's end, and commands sent through the entry, all under one    *)
(* lock, which a command keeps while its frame is being sent.              *)
(*                                                                         *)
(* An executor connects once and ends with its connection; started again   *)
(* it connects anew, maybe before the server has noticed the old one's     *)
(* end.  A peer may be stalled: its connection is up, but nothing more     *)
(* goes out until it reads again or is gone.  The events executors send    *)
(* are not followed.                                                       *)
(***************************************************************************)
EXTENDS Integers

CONSTANTS Executors, \* executor ids
          N,         \* connections, numbered as they come
          Requests,  \* commands of callers
          NoConn     \* no connection

Conns == 1 .. N

ASSUME RegistryAssumption ==
  N \in Nat /\ NoConn \notin Conns /\ "free" \notin Requests

VARIABLES
  task,    \* task[k]: where handle_connection is
  peer,    \* peer[k]: "none", "up", "stalled", "down"
  owner,   \* owner[k]: the id its executor has given
  conns,   \* conns[e]: the connection in the map, or NoConn
  lock,    \* the request that holds the map's lock, or "free"
  request, \* request[r]: "idle", "asked", "sending", or the outcome
  target,  \* target[r]: the executor it is for
  via,     \* via[r]: the connection it is sent over
  newest,  \* history: newest[e] is the connection last entered for e, or NoConn
  clean    \* history: those that no older one of their executor outlived

vars == <<task, peer, owner, conns, lock, request, target, via, newest, clean>>

connections == <<task, peer, owner>>
requests    == <<request, target, via>>
history     == <<newest, clean>>

Init ==
  /\ task = [k \in Conns |-> "none"] /\ peer = [k \in Conns |-> "none"]
  /\ owner \in [Conns -> Executors]
  /\ conns = [e \in Executors |-> NoConn] /\ lock = "free"
  /\ request = [r \in Requests |-> "idle"]
  /\ target \in [Requests -> Executors] /\ via = [r \in Requests |-> NoConn]
  /\ newest = [e \in Executors |-> NoConn] /\ clean = {}

-----------------------------------------------------------------------------
(* Connections.                                                            *)

(* An executor connects; the server has accepted and waits for its id.     *)
Connect(k) ==
  /\ task[k] = "none" /\ \A j \in 1 .. k - 1 : task[j] # "none"
  /\ task' = [task EXCEPT ![k] = "handshake"]
  /\ peer' = [peer EXCEPT ![k] = "up"]
  /\ UNCHANGED <<owner, conns, lock, requests, history>>

(* Its first message gives the id; a connection that ends before that is   *)
(* forgotten.                                                              *)
Handshake(k) ==
  /\ task[k] = "handshake"
  /\ \/ peer[k] # "down" /\ task' = [task EXCEPT ![k] = "register"]
     \/ peer[k] = "down" /\ task' = [task EXCEPT ![k] = "gone"]
  /\ UNCHANGED <<peer, owner, conns, lock, requests, history>>

Open(k) == task[k] \in {"serving", "remove"}
EnteredBefore(k) == {j \in Conns : Open(j) /\ owner[j] = owner[k]}

(* Mutant: the entry that is there stays.                                  *)
RegisterIfAbsent(k) ==
  /\ task[k] = "register" /\ lock = "free"
  /\ conns' = [conns EXCEPT ![owner[k]] = IF @ = NoConn THEN k ELSE @]
  /\ task' = [task EXCEPT ![k] = "serving"]
  /\ newest' = [newest EXCEPT ![owner[k]] = k]
  /\ clean' = IF EnteredBefore(k) = {} THEN clean \cup {k} ELSE clean
  /\ UNCHANGED <<peer, owner, lock, requests>>

(* The connection is entered in place of any other of the executor.        *)
Register(k) ==
  /\ task[k] = "register" /\ lock = "free"
  /\ conns' = [conns EXCEPT ![owner[k]] = k]
  /\ task' = [task EXCEPT ![k] = "serving"]
  /\ newest' = [newest EXCEPT ![owner[k]] = k]
  /\ clean' = IF EnteredBefore(k) = {} THEN clean \cup {k} ELSE clean
  /\ UNCHANGED <<peer, owner, lock, requests>>

(* The reader sees the end of the connection ...                           *)
ReaderEnds(k) ==
  /\ task[k] = "serving" /\ peer[k] = "down"
  /\ task' = [task EXCEPT ![k] = "remove"]
  /\ UNCHANGED <<peer, owner, conns, lock, requests, history>>

(* Mutant: all that has ended is swept.                                    *)
RemoveAll(k) ==
  /\ task[k] = "remove" /\ lock = "free"
  /\ conns' = [e \in Executors |-> NoConn]
  /\ task' = [task EXCEPT ![k] = "gone"]
  /\ UNCHANGED <<peer, owner, lock, requests, history>>

(* ... and the executor's entry is removed, whichever connection it is.    *)
RemoveEntry(k) ==
  /\ task[k] = "remove" /\ lock = "free"
  /\ conns' = [conns EXCEPT ![owner[k]] = NoConn]
  /\ task' = [task EXCEPT ![k] = "gone"]
  /\ UNCHANGED <<peer, owner, lock, requests, history>>

Task(k) == Handshake(k) \/ Register(k) \/ ReaderEnds(k) \/ RemoveEntry(k)

(* The peer stops reading, reads again, or is gone.                        *)
PeerStalls(k) ==
  /\ peer[k] = "up" /\ task[k] = "serving"
  /\ peer' = [peer EXCEPT ![k] = "stalled"]
  /\ UNCHANGED <<task, owner, conns, lock, requests, history>>

PeerReads(k) ==
  /\ peer[k] = "stalled" /\ peer' = [peer EXCEPT ![k] = "up"]
  /\ UNCHANGED <<task, owner, conns, lock, requests, history>>

PeerGone(k) ==
  /\ peer[k] \in {"up", "stalled"} /\ peer' = [peer EXCEPT ![k] = "down"]
  /\ UNCHANGED <<task, owner, conns, lock, requests, history>>

-----------------------------------------------------------------------------
(* Commands.                                                               *)

Ask(r) ==
  /\ request[r] = "idle"
  /\ request' = [request EXCEPT ![r] = "asked"]
  /\ UNCHANGED <<connections, conns, lock, target, via, history>>

(* The lock is taken and the executor looked up ...                        *)
LookUp(r) ==
  /\ request[r] = "asked" /\ lock = "free"
  /\ LET k == conns[target[r]] IN
     IF k = NoConn
     THEN request' = [request EXCEPT ![r] = "ExecutorNotFound"] /\ UNCHANGED <<lock, via>>
     ELSE /\ request' = [request EXCEPT ![r] = "sending"]
          /\ via' = [via EXCEPT ![r] = k]
          /\ lock' = r
  /\ UNCHANGED <<connections, conns, target, history>>

(* Mutant: the lock is not let go when the send fails.                     *)
SendLocked(r) ==
  /\ request[r] = "sending" /\ peer[via[r]] # "stalled"
  /\ \/ request' = [request EXCEPT ![r] = "Ok"] /\ lock' = "free"
     \/ /\ peer[via[r]] = "down" /\ request' = [request EXCEPT ![r] = "SendFailed"]
        /\ UNCHANGED lock
  /\ UNCHANGED <<connections, conns, target, via, history>>

(* ... and kept until the frame is out or refused.                         *)
Send(r) ==
  /\ request[r] = "sending" /\ peer[via[r]] # "stalled"
  /\ \/ request' = [request EXCEPT ![r] = "Ok"]
     \/ peer[via[r]] = "down" /\ request' = [request EXCEPT ![r] = "SendFailed"]
  /\ lock' = "free"
  /\ UNCHANGED <<connections, conns, target, via, history>>

Command(r) == LookUp(r) \/ Send(r)

-----------------------------------------------------------------------------
Next ==
  \/ \E k \in Conns :
       Connect(k) \/ Task(k) \/ PeerStalls(k) \/ PeerReads(k) \/ PeerGone(k)
  \/ \E r \in Requests : Ask(r) \/ Command(r)

Spec == Init /\ [][Next]_vars

(* Tasks run; the lock is granted in turn.                                 *)
FairSpec ==
  /\ Spec
  /\ \A k \in Conns : SF_vars(Task(k))
  /\ \A r \in Requests : SF_vars(Command(r))

-----------------------------------------------------------------------------
(* Properties.                                                             *)

Outcomes == {"Ok", "SendFailed", "ExecutorNotFound"}

TypeOK ==
  /\ task \in [Conns -> {"none", "handshake", "register", "serving", "remove", "gone"}]
  /\ peer \in [Conns -> {"none", "up", "stalled", "down"}]
  /\ owner \in [Conns -> Executors] /\ target \in [Requests -> Executors]
  /\ via \in [Requests -> Conns \cup {NoConn}]
  /\ conns \in [Executors -> Conns \cup {NoConn}]
  /\ newest \in [Executors -> Conns \cup {NoConn}] /\ clean \subseteq Conns
  /\ request \in [Requests -> {"idle", "asked", "sending"} \cup Outcomes]
  /\ lock \in Requests \cup {"free"}
  /\ \A r \in Requests : (lock = r) = (request[r] = "sending")

(* A command goes to the executor it is for, over the newest connection it *)
(* has made: neither an older connection's entry nor another executor's    *)
(* comes back.                                                             *)
SentToNewest ==
  [][\A r \in Requests :
       via'[r] # via[r] => via'[r] = newest[target[r]]]_vars

(* An executor whose newest connection is being served is listed, if none  *)
(* of its earlier connections was still open when that one was entered.    *)
CleanIsListed ==
  \A e \in Executors :
    LET k == newest[e] IN
    k # NoConn /\ k \in clean /\ task[k] = "serving" => conns[e] = k

(* No entry outlives its connection's task.                                *)
ListedIsOpen ==
  \A e \in Executors : conns[e] # NoConn => Open(conns[e]) /\ owner[conns[e]] = e

(* What the two rest on: the map holds the newest connection or none; a    *)
(* connection is entered once, under its own id; and beside one that was   *)
(* entered after all older ones had ended no other is open.                *)
ListedIsNewest == \A e \in Executors : conns[e] \in {NoConn, newest[e]}
NewestIsOwned  == \A e \in Executors : newest[e] # NoConn => owner[newest[e]] = e
EnteredOnce    == \A k \in clean : Open(k) \/ task[k] = "gone"
CleanIsAlone ==
  \A e \in Executors : newest[e] \in clean =>
    \A j \in Conns : Open(j) /\ owner[j] = e => j = newest[e]

(* The state invariant, inductive with all its parts: list, connections    *)
(* and lock agree.                                                         *)
Inv ==
  /\ TypeOK /\ CleanIsListed /\ ListedIsOpen
  /\ ListedIsNewest /\ NewestIsOwned /\ EnteredOnce /\ CleanIsAlone

(* A command has an outcome, unless one peer is stalled for ever and the   *)
(* lock is kept for ever by a command that is being sent to it: a stall    *)
(* that ends, by reading or by the connection's end, holds up nobody for   *)
(* good, nor does one that nobody is sending to.                           *)
KeptBy(k)    == lock # "free" /\ via[lock] = k /\ peer[k] = "stalled"
StuckForEver == \E k \in Conns : <>[]KeptBy(k)

CommandsEnd ==
  \A r \in Requests : (request[r] = "asked" ~> request[r] \in Outcomes) \/ StuckForEver

-----------------------------------------------------------------------------
(* Refuted.                                                                *)

(* An executor that is connected is listed: the end of the connection it   *)
(* had before takes the new one's entry with it.                           *)
ConnectedIsListed ==
  \A e \in Executors :
    LET k == newest[e] IN k # NoConn /\ task[k] = "serving" => conns[e] = k

(* A stalled executor keeps only its own commands waiting: they all wait   *)
(* for the lock.                                                           *)
OthersAreServed ==
  \A r \in Requests :
    request[r] = "asked" ~>
      (request[r] \in Outcomes \/ \E k \in Conns : peer[k] = "stalled" /\ owner[k] = target[r])
=============================================================================
