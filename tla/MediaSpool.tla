------------------------------ MODULE MediaSpool ------------------------------
(***************************************************************************)
(* Media on its way out: LocalMediaSpool, call by call, and the gateway    *)
(* that stages a file for a delivery, has it uploaded and releases it.     *)
(* Outbox does the same in one step each.                                  *)
(*                                                                         *)
(* stage, release and reconcile take turns (withLock); materialize and the *)
(* transport, which reads the file once more, do not.                      *)
(***************************************************************************)
EXTENDS Naturals, Sequences, FiniteSets

CONSTANTS
  Artifact,
  MaxArtifact, \* maxArtifactBytes, in units
  MaxTotal,    \* maxTotalBytes
  MaxUpload,   \* the largest file the transport reads, of WeCom's own 50 MB
  MaxSource,   \* bound: the size of a file an agent gives out
  MaxFaults    \* bound: crashes, failed writes, rows that are not stored,
               \* uploads that fail, files that are changed on the disk

(* What the constants have to be: Parts assumes it.                        *)
SpoolAssumption ==
  {MaxArtifact, MaxTotal, MaxUpload, MaxSource, MaxFaults} \subseteq Nat

VARIABLES
  chain,   \* the calls that wait for the lock; the first one has it
  step,    \* step[a]: the next call to the file system of the stage of a
  entry,   \* entry[a]: "none", "staging" or "staged", its directory
  bytes,   \* bytes[a]: size of its data file
  whole,   \* whole[a]: the data is what has been written
  noted,   \* noted[a]: the size (and hash) in the delivery
  row,     \* row[a]: "none", "asked", "staged", "queued" or "over"
  upload,  \* upload[a]: "no", "checked" by materialize, or "sent"
  sent,    \* artifacts whose upload was not what had been staged
  up,      \* the gateway is running
  faults

vars == <<chain, step, entry, bytes, whole, noted, row, upload, sent, up, faults>>

Put(f, a, v) == [f EXCEPT ![a] = v]
Fault        == faults < MaxFaults /\ faults' = faults + 1

Init ==
  /\ chain = <<>> /\ step = [a \in Artifact |-> "idle"]
  /\ entry = [a \in Artifact |-> "none"] /\ bytes = [a \in Artifact |-> 0]
  /\ whole = [a \in Artifact |-> TRUE] /\ noted = [a \in Artifact |-> 0]
  /\ row = [a \in Artifact |-> "none"] /\ upload = [a \in Artifact |-> "no"]
  /\ sent = {} /\ up = TRUE /\ faults = 0

HasTurn(op, a) == up /\ chain # <<>> /\ Head(chain) = <<op, a>>

Done == chain' = Tail(chain)
Wait(op, a) == chain' = Append(chain, <<op, a>>)

(* currentBytes: the units of what has been staged, by the name of its     *)
(* directory.                                                              *)
Staged        == {a \in Artifact : entry[a] = "staged"}
Units         == {u \in Staged \X (1..MaxArtifact) : u[2] <= bytes[u[1]]}
CurrentBytes  == Cardinality(Units)

(* Mutation: the file that is to be staged is not counted.                 *)
ExceedsAlready(a) == CurrentBytes > MaxTotal

Exceeds(a) == CurrentBytes + noted[a] > MaxTotal

-----------------------------------------------------------------------------
(* stage                                                                   *)

(* enqueueProactiveMedia of a run                                          *)
Ask(a) ==
  /\ up /\ row[a] = "none" /\ row' = Put(row, a, "asked") /\ Wait("stage", a)
  /\ step' = Put(step, a, "read")
  /\ UNCHANGED <<entry, bytes, whole, noted, upload, sent, up, faults>>

(* The source is opened and read: too large a file is refused.             *)
ReadSource(a) ==
  /\ HasTurn("stage", a) /\ step[a] = "read"
  /\ \E n \in 1..MaxSource :
       IF n > MaxArtifact
       THEN row' = Put(row, a, "over") /\ Done /\ step' = Put(step, a, "idle")
            /\ UNCHANGED noted
       ELSE noted' = Put(noted, a, n) /\ step' = Put(step, a, "measure")
            /\ UNCHANGED <<row, chain>>
  /\ UNCHANGED <<entry, bytes, whole, upload, sent, up, faults>>

Measure(a) ==
  /\ HasTurn("stage", a) /\ step[a] = "measure"
  /\ IF Exceeds(a)
     THEN row' = Put(row, a, "over") /\ Done /\ step' = Put(step, a, "idle")
     ELSE step' = Put(step, a, "make") /\ UNCHANGED <<row, chain>>
  /\ UNCHANGED <<entry, bytes, whole, noted, upload, sent, up, faults>>

Make(a) ==
  /\ HasTurn("stage", a) /\ step[a] = "make"
  /\ step' = Put(step, a, "write") /\ entry' = Put(entry, a, "staging")
  /\ UNCHANGED <<chain, bytes, whole, noted, row, upload, sent, up, faults>>

(* Mutation: a failed write leaves the directory.                          *)
WriteLeaves(a) ==
  /\ HasTurn("stage", a) /\ step[a] = "write"
  /\ \/ /\ bytes' = Put(bytes, a, noted[a]) /\ step' = Put(step, a, "rename")
        /\ UNCHANGED <<chain, row, faults>>
     \/ /\ Fault /\ step' = Put(step, a, "idle")
        /\ row' = Put(row, a, "over") /\ Done /\ UNCHANGED bytes
  /\ UNCHANGED <<entry, whole, noted, upload, sent, up>>

Write(a) ==
  /\ HasTurn("stage", a) /\ step[a] = "write"
  /\ \/ /\ bytes' = Put(bytes, a, noted[a]) /\ step' = Put(step, a, "rename")
        /\ UNCHANGED <<chain, entry, row, faults>>
     \/ /\ Fault /\ entry' = Put(entry, a, "none") /\ step' = Put(step, a, "idle")
        /\ row' = Put(row, a, "over") /\ Done /\ UNCHANGED bytes
  /\ UNCHANGED <<whole, noted, upload, sent, up>>

Rename(a) ==
  /\ HasTurn("stage", a) /\ step[a] = "rename"
  /\ entry' = Put(entry, a, "staged") /\ row' = Put(row, a, "staged")
  /\ step' = Put(step, a, "idle") /\ Done
  /\ UNCHANGED <<bytes, whole, noted, upload, sent, up, faults>>

(* enqueueDurableDelivery; if the store fails the artifact is released.    *)
Enqueue(a) ==
  /\ up /\ row[a] = "staged"
  /\ \/ row' = Put(row, a, "queued") /\ UNCHANGED <<chain, faults>>
     \/ Fault /\ row' = Put(row, a, "over") /\ Wait("release", a)
  /\ UNCHANGED <<step, entry, bytes, whole, noted, upload, sent, up>>

-----------------------------------------------------------------------------
(* An attempt of the delivery.                                             *)

(* materialize: the size and the hash must be those of the delivery.       *)
Intact(a) == entry[a] = "staged" /\ whole[a] /\ bytes[a] = noted[a]

Materialize(a) ==
  /\ up /\ row[a] = "queued" /\ upload[a] = "no"
  /\ Intact(a) /\ upload' = Put(upload, a, "checked")
  /\ UNCHANGED <<chain, step, entry, bytes, whole, noted, row, sent, up, faults>>

(* loadOutboundMedia: the file is opened again, and checked again.         *)
Loads(a) == Intact(a) /\ bytes[a] <= MaxUpload

Upload(a) ==
  /\ up /\ upload[a] = "checked" /\ Loads(a) /\ row' = Put(row, a, "over")
  /\ upload' = Put(upload, a, "sent") /\ Wait("release", a)
  /\ sent' = IF whole[a] THEN sent ELSE sent \cup {a}
  /\ UNCHANGED <<step, entry, bytes, whole, noted, up, faults>>

(* An attempt that throws is made again, and again until it is given up.   *)
Again(a) ==
  /\ up /\ upload[a] = "checked" /\ upload' = Put(upload, a, "no")
  /\ (~Loads(a) /\ UNCHANGED faults) \/ Fault
  /\ UNCHANGED <<chain, step, entry, bytes, whole, noted, row, sent, up>>

GiveUp(a) ==
  /\ up /\ row[a] = "queued"
  /\ \/ upload[a] = "no" /\ ~Intact(a) /\ UNCHANGED faults
     \/ upload[a] = "checked" /\ ~Loads(a) /\ UNCHANGED faults
     \/ upload[a] = "checked" /\ Fault
  /\ row' = Put(row, a, "over") /\ upload' = Put(upload, a, "no") /\ Wait("release", a)
  /\ UNCHANGED <<step, entry, bytes, whole, noted, sent, up>>

Release(a) ==
  /\ HasTurn("release", a) /\ Done /\ entry' = Put(entry, a, "none")
  /\ UNCHANGED <<step, bytes, whole, noted, row, upload, sent, up, faults>>

-----------------------------------------------------------------------------
(* Faults and restarts.                                                    *)

Crash ==
  /\ up /\ Fault /\ up' = FALSE /\ chain' = <<>>
  /\ step' = [a \in Artifact |-> "idle"]
  /\ row' = [a \in Artifact |-> IF row[a] \in {"asked", "staged"} THEN "over" ELSE row[a]]
  /\ upload' = [a \in Artifact |-> IF row[a] = "queued" THEN "no" ELSE upload[a]]
  /\ UNCHANGED <<entry, bytes, whole, noted, sent>>

(* reconcile with what the pending and leased deliveries name.             *)
Referenced == {a \in Artifact : row[a] = "queued"}

Start ==
  /\ ~up /\ up' = TRUE
  /\ entry' = [a \in Artifact |-> IF entry[a] = "staged" /\ a \in Referenced
                                  THEN "staged" ELSE "none"]
  /\ UNCHANGED <<chain, step, bytes, whole, noted, row, upload, sent, faults>>

(* Somebody changes the file.                                              *)
Change(a) ==
  /\ entry[a] = "staged" /\ whole[a] /\ Fault /\ whole' = Put(whole, a, FALSE)
  /\ UNCHANGED <<chain, step, entry, bytes, noted, row, upload, sent, up>>

Next ==
  \/ \E a \in Artifact :
       \/ Ask(a) \/ ReadSource(a) \/ Measure(a) \/ Make(a) \/ Write(a) \/ Rename(a)
       \/ Enqueue(a) \/ Materialize(a) \/ Upload(a) \/ Again(a) \/ GiveUp(a)
       \/ Release(a) \/ Change(a)
  \/ Crash \/ Start

Spec == Init /\ [][Next]_vars

-----------------------------------------------------------------------------
(* Properties.                                                             *)

TypeOK ==
  /\ \A a \in Artifact : entry[a] = "staging" => step[a] = "write" \/ step[a] = "rename" \/ ~up
  /\ entry \in [Artifact -> {"none", "staging", "staged"}]
  /\ noted \in [Artifact -> 0..MaxArtifact]

(* However many runs give files out at once, the spool never holds more    *)
(* than its total: each measures what the others have staged.              *)
WithinTotal == CurrentBytes <= MaxTotal

(* What is uploaded is what was staged, though the file is read twice and  *)
(* may be changed before, between and after the checks.                    *)
SentAsStaged == sent = {}

(* The file of a delivery that is not settled is there; a file nobody will *)
(* deliver is on its way out: its release waits for its turn, or the       *)
(* gateway is down and removes it when it starts.                          *)
FilesAccounted ==
  up => \A a \in Artifact :
          /\ row[a] \in {"staged", "queued"} => entry[a] = "staged"
          /\ row[a] \in {"none", "over"} /\ entry[a] # "none" =>
               \E i \in 1..Len(chain) : chain[i] = <<"release", a>>
===============================================================================
