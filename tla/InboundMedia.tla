----------------------------- MODULE InboundMedia -----------------------------
(***************************************************************************)
(* Media on its way in: the folders the WeCom transport downloads the      *)
(* files of a message to, and the clean-up at its start of those that were *)
(* left.  The gateways of several Bots on a host share the directory they  *)
(* are in (mediaTempRoot is tmpdir() unless set).                          *)
(***************************************************************************)
EXTENDS Naturals, FiniteSets

CONSTANTS
  Message, Proc,
  Home(_),   \* the gateway process a message is sent to
  MaxBytes,  \* mediaMaxBytes, for all files of a message
  MaxParts,  \* bound: files of a message
  MaxCrashes \* bound: processes that are killed

(* What the constants have to be: Parts assumes it.                        *)
InboundAssumption ==
  {MaxBytes, MaxParts, MaxCrashes} \subseteq Nat /\ \A m \in Message : Home(m) \in Proc

VARIABLES
  folder,  \* messages whose folder exists
  old,     \* folders not written to for longer than mediaRetentionMs
  step,    \* step[m]: "new", "making", "loading", "run", "release" or "over"
  bytes,   \* bytes[m]: what has been downloaded for it
  parts,   \* parts[m]: files written
  proc,    \* proc[p]: "down", "cleaning", "up" or "failed"
  list,    \* list[p]: the folders its clean-up has yet to look at
  doomed,  \* doomed[p]: those it has found old
  late,    \* messages under way whose folder has been old
  crashes

vars == <<folder, old, step, bytes, parts, proc, list, doomed, late, crashes>>

Put(f, x, v) == [f EXCEPT ![x] = v]

Init ==
  /\ folder = {} /\ old = {} /\ step = [m \in Message |-> "new"]
  /\ bytes = [m \in Message |-> 0] /\ parts = [m \in Message |-> 0]
  /\ proc = [p \in Proc |-> "down"] /\ list = [p \in Proc |-> {}]
  /\ doomed = [p \in Proc |-> {}] /\ late = {} /\ crashes = 0

-----------------------------------------------------------------------------
(* cleanupOrphanedMedia: readdir, then stat and rm of every folder.        *)

Start(p) ==
  /\ proc[p] = "down" /\ proc' = Put(proc, p, "cleaning")
  /\ list' = Put(list, p, folder) /\ doomed' = Put(doomed, p, {})
  /\ UNCHANGED <<folder, old, step, bytes, parts, late, crashes>>

(* A folder that is gone by now fails the start; the others go on.         *)
Stat(p, m) ==
  /\ proc[p] \in {"cleaning", "failed"} /\ m \in list[p]
  /\ list' = Put(list, p, list[p] \ {m})
  /\ doomed' = Put(doomed, p, doomed[p] \cup ({m} \cap folder \cap old))
  /\ proc' = IF m \in folder THEN proc ELSE Put(proc, p, "failed")
  /\ UNCHANGED <<folder, old, step, bytes, parts, late, crashes>>

Remove(p, m) ==
  /\ m \in doomed[p] /\ doomed' = Put(doomed, p, doomed[p] \ {m})
  /\ folder' = folder \ {m} /\ old' = old \ {m}
  /\ UNCHANGED <<step, bytes, parts, proc, list, late, crashes>>

Ready(p) ==
  /\ proc[p] = "cleaning" /\ list[p] = {} /\ doomed[p] = {} /\ proc' = Put(proc, p, "up")
  /\ UNCHANGED <<folder, old, step, bytes, parts, list, doomed, late, crashes>>

-----------------------------------------------------------------------------
(* materializeInbound                                                      *)

Make(m) ==
  /\ proc[Home(m)] = "up" /\ step[m] = "new" /\ step' = Put(step, m, "loading")
  /\ folder' = folder \cup {m}
  /\ UNCHANGED <<old, bytes, parts, proc, list, doomed, late, crashes>>

(* A file is downloaded and written, if the message is not too large.  A   *)
(* failed download, and a write into a folder that is gone, give it up.    *)
Load(m) ==
  /\ proc[Home(m)] = "up" /\ step[m] = "loading" /\ parts[m] < MaxParts
  /\ \/ \E n \in 1..MaxBytes :
          /\ bytes[m] + n <= MaxBytes /\ m \in folder
          /\ bytes' = Put(bytes, m, bytes[m] + n) /\ parts' = Put(parts, m, parts[m] + 1)
          /\ old' = old \ {m} /\ UNCHANGED step
     \/ step' = Put(step, m, "release") /\ UNCHANGED <<bytes, parts, old>>
  /\ UNCHANGED <<folder, proc, list, doomed, late, crashes>>

Run(m) ==
  /\ proc[Home(m)] = "up" /\ step[m] = "loading" /\ parts[m] > 0
  /\ step' = Put(step, m, "run")
  /\ UNCHANGED <<folder, old, bytes, parts, proc, list, doomed, late, crashes>>

(* The run is over, however it ended: release in the finally of handle.    *)
Over(m) ==
  /\ proc[Home(m)] = "up" /\ step[m] = "run" /\ step' = Put(step, m, "release")
  /\ UNCHANGED <<folder, old, bytes, parts, proc, list, doomed, late, crashes>>

Release(m) ==
  /\ proc[Home(m)] = "up" /\ step[m] = "release" /\ step' = Put(step, m, "over")
  /\ folder' = folder \ {m} /\ old' = old \ {m}
  /\ UNCHANGED <<bytes, parts, proc, list, doomed, late, crashes>>

-----------------------------------------------------------------------------

(* Killed, or stopped: what was under way leaves its folder.               *)
Crash(p) ==
  /\ proc[p] # "down" /\ crashes < MaxCrashes /\ crashes' = crashes + 1
  /\ proc' = Put(proc, p, "down") /\ list' = Put(list, p, {})
  /\ doomed' = Put(doomed, p, {})
  /\ step' = [m \in Message |-> IF Home(m) = p /\ step[m] \notin {"new", "over"}
                                THEN "over" ELSE step[m]]
  /\ UNCHANGED <<folder, old, bytes, parts, late>>

Age(m) ==
  /\ m \in folder \ old /\ old' = old \cup {m} /\ late' = late \cup {m}
  /\ UNCHANGED <<folder, step, bytes, parts, proc, list, doomed, crashes>>

Next ==
  \/ \E p \in Proc : Start(p) \/ Ready(p) \/ Crash(p)
  \/ \E p \in Proc, m \in Message : Stat(p, m) \/ Remove(p, m)
  \/ \E m \in Message : Make(m) \/ Load(m) \/ Run(m) \/ Over(m) \/ Release(m) \/ Age(m)

Spec == Init /\ [][Next]_vars

-----------------------------------------------------------------------------
(* Properties.                                                             *)

(* A run finds all its files, within the limit; the clean-up of another    *)
(* gateway takes away those of none, but of a message that has been under  *)
(* way for longer than the retention.                                      *)
RunsFindTheirFiles ==
  \A m \in Message : step[m] \in {"loading", "run"} =>
    /\ m \in folder \/ m \in late
    /\ bytes[m] <= MaxBytes

(* A start fails only because another gateway, alive or killed since, has  *)
(* taken a folder away between its readdir and its stat.                   *)
StartsFailForOthers ==
  \A p \in Proc : proc[p] = "failed" =>
    \/ \E q \in Proc \ {p} : proc[q] # "down"
    \/ crashes > 0
===============================================================================
