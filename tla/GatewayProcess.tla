---------------------------- MODULE GatewayProcess ----------------------------
(***************************************************************************)
(* Gateway processes of one Bot on one host, from start to exit: the owner *)
(* lock, the life cycle of the application, and the control socket.        *)
(*                                                                         *)
(* The lock is a directory with a record in it; a process that finds a     *)
(* lock without a living owner removes it under a second directory, the    *)
(* reaper.  Every action is one call to the file system: between two calls *)
(* the others go on.  Each process runs once, a restart is another one.    *)
(***************************************************************************)
EXTENDS Naturals, FiniteSets

CONSTANTS
  Proc,       \* processes; the record of a lock holds the pid of one
  NoOne,
  MaxCrashes  \* bound: processes that are killed

ASSUME ProcessAssumption == NoOne \notin Proc /\ MaxCrashes \in Nat

VARIABLES
  dir,       \* the lock directory exists
  record,    \* its owner record, NoOne if there is none
  aged,      \* it has not been touched for staleAfterMs
  reaper,    \* the reaper directory exists
  socket,    \* the control socket file: who has bound it, or NoOne
  step,      \* step[p]: the next call of acquireBotOwnerLock, then of start
  holding,   \* processes that have made the reaper
  saw,       \* saw[p]: "nothing", "old" or "fresh", the last stat of the lock
  won,       \* processes that have made the lock their own
  halt,      \* halt[p]: "no", or the next call of shutdown
  connected, \* processes whose transport has been started and not stopped
  blind,     \* processes that have removed a lock they had not seen
  crashes

lock == <<dir, record, aged>>
vars == <<lock, reaper, socket, step, holding, saw, won, halt, connected, blind,
          crashes>>

Set(f, p, v)  == [f EXCEPT ![p] = v]
Alive(p)      == step[p] \notin {"new", "dead"}
Listening(p)  == step[p] = "running" /\ halt[p] \in {"no", "closing"}
Goto(p, s)    == step' = Set(step, p, s)

Init ==
  /\ dir = FALSE /\ record = NoOne /\ aged = FALSE /\ reaper = FALSE
  /\ socket = NoOne /\ step = [p \in Proc |-> "new"] /\ holding = {}
  /\ saw = [p \in Proc |-> "nothing"] /\ won = {} /\ halt = [p \in Proc |-> "no"]
  /\ connected = {} /\ blind = {} /\ crashes = 0

-----------------------------------------------------------------------------
(* acquireBotOwnerLock                                                     *)

Begin(p) ==
  /\ step[p] = "new" /\ Goto(p, "create")
  /\ UNCHANGED <<lock, reaper, socket, holding, saw, won, halt, connected, blind,
                 crashes>>

(* mkdir of tryCreateLock: whoever makes the directory goes on.            *)
Create(p) ==
  /\ step[p] = "create"
  /\ \/ ~dir /\ dir' = TRUE /\ aged' = FALSE /\ Goto(p, "write")
     \/ dir /\ Goto(p, IF p \in holding THEN "giveup" ELSE "stat") /\ UNCHANGED <<dir, aged>>
  /\ UNCHANGED <<record, reaper, socket, holding, saw, won, halt, connected, blind,
                 crashes>>

(* Its exclusive write: fails if the directory is gone or has a record.    *)
Write(p) ==
  /\ step[p] = "write"
  /\ \/ /\ dir /\ record = NoOne /\ record' = p /\ won' = won \cup {p}
        /\ Goto(p, IF p \in holding THEN "unreap" ELSE "adapters")
     \/ (~dir \/ record # NoOne) /\ Goto(p, "undo") /\ UNCHANGED <<record, won>>
  /\ UNCHANGED <<dir, aged, reaper, socket, holding, saw, halt, connected, blind,
                 crashes>>

(* and then the lock is removed, whoever has made it.                      *)
Undo(p) ==
  /\ step[p] = "undo" /\ dir' = FALSE /\ record' = NoOne /\ aged' = FALSE
  /\ Goto(p, "giveup")
  /\ UNCHANGED <<reaper, socket, holding, saw, won, halt, connected, blind, crashes>>

(* stat of inspectLock: a lock that is not there is stale.                 *)
Stale(p) == IF p \in holding THEN "remove" ELSE "reap"

Stat(p) ==
  /\ step[p] = "stat"
  /\ saw' = Set(saw, p, IF ~dir THEN "nothing" ELSE IF aged THEN "old" ELSE "fresh")
  /\ Goto(p, IF dir THEN "read" ELSE Stale(p))
  /\ UNCHANGED <<lock, reaper, socket, holding, won, halt, connected, blind, crashes>>

(* Its record: a lock is stale if its process is gone; one without a       *)
(* record if it was old.                                                   *)
Read(p) ==
  /\ step[p] = "read"
  /\ Goto(p, IF IF record # NoOne THEN Alive(record) ELSE saw[p] = "fresh"
             THEN "giveup" ELSE Stale(p))
  /\ UNCHANGED <<lock, reaper, socket, holding, saw, won, halt, connected, blind,
                 crashes>>

(* Mutation: the stale lock is removed without a second look.              *)
ReapAndRemove(p) ==
  /\ step[p] = "reap"
  /\ \/ /\ ~reaper /\ reaper' = TRUE /\ holding' = holding \cup {p} /\ Goto(p, "remove")
     \/ reaper /\ Goto(p, "giveup") /\ UNCHANGED <<reaper, holding>>
  /\ UNCHANGED <<lock, socket, saw, won, halt, connected, blind, crashes>>

(* mkdir of the reaper, then the lock is inspected again.                  *)
Reap(p) ==
  /\ step[p] = "reap"
  /\ \/ /\ ~reaper /\ reaper' = TRUE /\ holding' = holding \cup {p} /\ Goto(p, "stat")
     \/ reaper /\ Goto(p, "giveup") /\ UNCHANGED <<reaper, holding>>
  /\ UNCHANGED <<lock, socket, saw, won, halt, connected, blind, crashes>>

Remove(p) ==
  /\ step[p] = "remove" /\ dir' = FALSE /\ record' = NoOne /\ aged' = FALSE
  /\ blind' = IF dir /\ saw[p] = "nothing" THEN blind \cup {p} ELSE blind
  /\ Goto(p, "create")
  /\ UNCHANGED <<reaper, socket, holding, saw, won, halt, connected, crashes>>

(* Mutation: the reaper is not removed.                                    *)
UnreapNever(p) ==
  /\ step[p] \in {"unreap", "giveup"} /\ holding' = holding \ {p}
  /\ Goto(p, IF p \in won THEN "adapters" ELSE "dead")
  /\ UNCHANGED <<lock, reaper, socket, saw, won, halt, connected, blind, crashes>>

(* The finally block, and BotOwnerConflictError.                           *)
Unreap(p) ==
  /\ step[p] \in {"unreap", "giveup"}
  /\ reaper' = (reaper /\ p \notin holding) /\ holding' = holding \ {p}
  /\ Goto(p, IF p \in won THEN "adapters" ELSE "dead")
  /\ UNCHANGED <<lock, socket, saw, won, halt, connected, blind, crashes>>

Acquire(p) ==
  Begin(p) \/ Create(p) \/ Write(p) \/ Undo(p) \/ Stat(p) \/ Read(p) \/ Reap(p)
  \/ Remove(p) \/ Unreap(p)

-----------------------------------------------------------------------------
(* The application, which goes on though shutdown may have begun.          *)

(* gateway.start: the adapters first, then the transport.                  *)
Adapters(p) ==
  /\ step[p] = "adapters" /\ Goto(p, "transport")
  /\ UNCHANGED <<lock, reaper, socket, holding, saw, won, halt, connected, blind,
                 crashes>>

Connect(p) ==
  /\ step[p] = "transport" /\ Goto(p, "probe") /\ connected' = connected \cup {p}
  /\ UNCHANGED <<lock, reaper, socket, holding, saw, won, halt, blind, crashes>>

(* removeStaleSocket: refuses a socket somebody listens on (who closes its *)
(* server also removes the path).                                          *)
Probe(p) ==
  /\ step[p] = "probe"
  /\ \/ socket = NoOne /\ Goto(p, "bind") /\ UNCHANGED halt
     \/ /\ socket # NoOne /\ step[socket] # "running"
        /\ Goto(p, "unlink") /\ UNCHANGED halt
     \/ /\ socket # NoOne /\ step[socket] = "running" /\ Goto(p, "failed")
        /\ halt' = IF halt[p] = "no" THEN Set(halt, p, "closing") ELSE halt
  /\ UNCHANGED <<lock, reaper, socket, holding, saw, won, connected, blind, crashes>>

Unlink(p) ==
  /\ step[p] = "unlink" /\ socket' = NoOne /\ Goto(p, "bind")
  /\ UNCHANGED <<lock, reaper, holding, saw, won, halt, connected, blind, crashes>>

(* listen: a socket file that is there is an error, and start() fails.     *)
Bind(p) ==
  /\ step[p] = "bind"
  /\ \/ socket = NoOne /\ socket' = p /\ Goto(p, "running") /\ UNCHANGED halt
     \/ /\ socket # NoOne /\ Goto(p, "failed") /\ UNCHANGED socket
        /\ halt' = IF halt[p] = "no" THEN Set(halt, p, "closing") ELSE halt
  /\ UNCHANGED <<lock, reaper, holding, saw, won, connected, blind, crashes>>

(* A signal, once its handler is there; gateway.start may also fail.       *)
Stop(p) ==
  /\ step[p] \in {"adapters", "transport", "probe", "unlink", "bind", "running"}
  /\ halt[p] = "no" /\ halt' = Set(halt, p, "closing")
  /\ UNCHANGED <<lock, reaper, socket, step, holding, saw, won, connected, blind,
                 crashes>>

(* controlServer.stop: unlinks the path if this process has bound it.      *)
Close(p) ==
  /\ halt[p] = "closing" /\ Alive(p) /\ halt' = Set(halt, p, "draining")
  /\ socket' = IF step[p] = "running" THEN NoOne ELSE socket
  /\ UNCHANGED <<lock, reaper, step, holding, saw, won, connected, blind, crashes>>

(* gateway.stop                                                            *)
Disconnect(p) ==
  /\ halt[p] = "draining" /\ Alive(p) /\ halt' = Set(halt, p, "releasing")
  /\ connected' = connected \ {p}
  /\ UNCHANGED <<lock, reaper, socket, step, holding, saw, won, blind, crashes>>

(* release: a lock with its own record is removed; then the process exits. *)
Release(p) ==
  /\ halt[p] = "releasing" /\ Alive(p) /\ Goto(p, "dead")
  /\ dir' = (dir /\ record # p) /\ aged' = (aged /\ record # p)
  /\ record' = IF record = p THEN NoOne ELSE record
  /\ connected' = connected \ {p} /\ halt' = Set(halt, p, "no")
  /\ UNCHANGED <<reaper, socket, holding, saw, won, blind, crashes>>

(* The process is killed: everything it has on disk stays.                 *)
Crash(p) ==
  /\ Alive(p) /\ crashes < MaxCrashes /\ crashes' = crashes + 1
  /\ Goto(p, "dead") /\ connected' = connected \ {p} /\ halt' = Set(halt, p, "no")
  /\ UNCHANGED <<lock, reaper, socket, holding, saw, won, blind>>

(* Time: a lock gets old unless its owner touches it (the heartbeat); a    *)
(* process writes its record long before that.                             *)
Age ==
  /\ dir /\ ~aged /\ aged' = TRUE
  /\ IF record = NoOne THEN \A p \in Proc : step[p] # "write" ELSE ~Alive(record)
  /\ UNCHANGED <<dir, record, reaper, socket, step, holding, saw, won, halt,
                 connected, blind, crashes>>

Run(p) == Adapters(p) \/ Connect(p) \/ Probe(p) \/ Unlink(p) \/ Bind(p)

Shutdown(p) == Stop(p) \/ Close(p) \/ Disconnect(p) \/ Release(p)

Next ==
  \/ \E p \in Proc : Acquire(p) \/ Run(p) \/ Shutdown(p) \/ Crash(p)
  \/ Age

Spec == Init /\ [][Next]_vars

-----------------------------------------------------------------------------
(* Properties.                                                             *)

TypeOK ==
  /\ dir \in BOOLEAN /\ record \in Proc \cup {NoOne} /\ (record # NoOne => dir)
  /\ aged \in BOOLEAN /\ reaper \in BOOLEAN /\ socket \in Proc \cup {NoOne}
  /\ saw \in [Proc -> {"nothing", "old", "fresh"}] /\ won \subseteq Proc
  /\ halt \in [Proc -> {"no", "closing", "draining", "releasing"}]
  /\ connected \subseteq {p \in won : Alive(p)}

Owners == {p \in won : Alive(p)}

(* At any time one process owns the Bot, its record is the lock's, and the *)
(* control socket is its own once it has bound it; unless a process has    *)
(* removed a lock it had not seen: it found none when it looked for the    *)
(* second time, and another one made its own in between.                   *)
OneOwnerUnlessBlind ==
  blind = {} =>
    /\ \A p \in Owners : record = p
    /\ \A p \in Owners : Listening(p) => socket = p
    /\ connected \subseteq Owners

(* A process that finds the Bot taken meets one that is alive, or has met  *)
(* one that has gone between its stat and its read; if all are gone it     *)
(* needs what one that was killed has left, the reaper, which nobody       *)
(* removes any more, or a process that removed a lock it had not seen.     *)
NoFalseConflict ==
  [][\A p \in Proc :
       step[p] # "giveup" /\ step'[p] = "giveup" =>
         \/ \E q \in Proc \ {p} : Alive(q)
         \/ step[p] = "read" /\ saw[p] = "fresh"
         \/ crashes > 0 /\ reaper
         \/ blind # {}]_vars

(* Not kept by the code (README, What does not hold): no run lists it.     *)
(* docs/adr/0026: one active owner of a Bot (the second process exits).    *)
OneOwner == Cardinality(connected) <= 1
===============================================================================
