------------------------------ MODULE AppendLog ------------------------------
(***************************************************************************)
(* One append-only file of the vault: append_text and read_jsonl of        *)
(* crates/store/src/atomic.rs, one system call at a time, under the faults *)
(* a disk and a process can have.  The file has one writer, which          *)
(* VaultLock guarantees (see Vault).                                       *)
(*                                                                         *)
(* The n-th call of append_text writes the record n.                       *)
(***************************************************************************)
EXTENDS Jsonl

CONSTANTS
    MaxAppends, \* bound: how many calls of append_text a behaviour makes
    Faults      \* which faults the environment can inject

FaultKinds ==
    {"kill",     \* the process dies between two system calls
     "nospace",  \* write_all fails part of the way through the line
     "sync",     \* sync_data reports an error
     "powercut"} \* the machine stops; only what reached the disk remains

ASSUME MaxAppendsAssumption == MaxAppends \in Nat
ASSUME FaultsAssumption == Faults \subseteq FaultKinds

VARIABLES
    cached,  \* the file, as every read of it sees it
    synced,  \* how many of its pieces are surely on the disk
    named,   \* whether its directory entry is surely on the disk
    pc,      \* where the writer is inside append_text
    calls,   \* how many calls were made; the last one writes record calls
    acked,   \* the records whose append_text returned Ok(())
    struck   \* what has gone wrong so far (history)

vars == <<cached, synced, named, pc, calls, acked, struck>>

Rec == 1 .. MaxAppends

TypeOK ==
    /\ cached \in Seq(Pieces(Rec))
    /\ synced \in 0 .. Len(cached)
    /\ named \in BOOLEAN
    /\ pc \in {"idle", "write", "sync", "down"}
    /\ calls \in 0 .. MaxAppends
    /\ acked \subseteq Rec
    /\ struck \subseteq FaultKinds \union {"filelost"}

(* The file is new, or was created and named on disk in an earlier run.    *)
Init ==
    /\ cached = <<>>
    /\ synced = 0
    /\ named \in BOOLEAN
    /\ pc = "idle"
    /\ calls = 0
    /\ acked = {}
    /\ struck = {}

(* A fault the environment may inject, and now does.                       *)
Strikes(f) ==
    /\ f \in Faults
    /\ struck' = struck \union {f}

(***************************************************************************)
(* Ways append_text could have been written, each of which loses something *)
(* an acknowledged record promises.                                        *)
(***************************************************************************)

(* Starting the line over after a short write.                             *)
WriteAllRetries ==
    /\ pc = "write"
    /\ cached' = cached \o <<Piece(calls, "torn"), Piece(calls, "whole")>>
    /\ pc' = "sync"
    /\ UNCHANGED <<synced, named, calls, acked, struck>>

(* Cleaning up after a short write with set_len(0).                        *)
WriteAllFailsTruncates ==
    /\ pc = "write"
    /\ Strikes("nospace")
    /\ cached' = <<>>
    /\ pc' = "idle"
    /\ UNCHANGED <<synced, named, calls, acked>>

(* append_typed without line.push('\n').                                   *)
WriteAllNoNewline ==
    /\ pc = "write"
    /\ cached' = Append(cached, Piece(calls, "bare"))
    /\ pc' = "sync"
    /\ UNCHANGED <<synced, named, calls, acked, struck>>

(* Returning Ok without sync_data.                                         *)
SyncDataSkipped ==
    /\ pc = "sync"
    /\ acked' = acked \union {calls}
    /\ pc' = "idle"
    /\ UNCHANGED <<cached, synced, named, calls, struck>>

(***************************************************************************)
(* append_text: create the folder, open (creating) for append, write_all,  *)
(* sync_data.  An error returns at once and leaves whatever is there.      *)
(***************************************************************************)
OpenForAppend ==
    /\ pc = "idle"
    /\ calls < MaxAppends
    /\ calls' = calls + 1
    /\ pc' = "write"
    /\ UNCHANGED <<cached, synced, named, acked, struck>>

WriteAll ==
    /\ pc = "write"
    /\ cached' = Append(cached, Piece(calls, "whole"))
    /\ pc' = "sync"
    /\ UNCHANGED <<synced, named, calls, acked, struck>>

(* write_all loops over short writes, so an error can follow any strict    *)
(* prefix of the line, the empty one included; Err is returned.            *)
WriteAllFails ==
    /\ pc = "write"
    /\ Strikes("nospace")
    /\ \/ cached' = cached
       \/ \E c \in {"bare", "torn"} : cached' = Append(cached, Piece(calls, c))
    /\ pc' = "idle"
    /\ UNCHANGED <<synced, named, calls, acked>>

(* fdatasync makes the bytes durable; the folder is not synced.            *)
SyncData ==
    /\ pc = "sync"
    /\ synced' = Len(cached)
    /\ acked' = acked \union {calls}
    /\ pc' = "idle"
    /\ UNCHANGED <<cached, named, calls, struck>>

SyncDataFails ==
    /\ pc = "sync"
    /\ Strikes("sync")
    /\ pc' = "idle"
    /\ UNCHANGED <<cached, synced, named, calls, acked>>

(***************************************************************************)
(* The environment.  A write back the system starts on its own only makes  *)
(* more durable, which PowerCut allows already, so it is no action.        *)
(***************************************************************************)

(* A kill cuts no line: one short write of a regular file runs to its end. *)
Kill ==
    /\ Strikes("kill")
    /\ pc # "down"
    /\ pc' = "down"
    /\ UNCHANGED <<cached, synced, named, calls, acked>>

(* A file whose directory entry never reached the disk may be gone.        *)
PowerCut ==
    /\ "powercut" \in Faults
    /\ pc # "down"
    /\ \/ /\ cached' \in AfterPowerCut(cached, synced)
          /\ named' = TRUE
          /\ struck' = struck \union {"powercut"}
       \/ /\ ~named
          /\ cached' = <<>>
          /\ named' = FALSE
          /\ struck' = struck \union {"powercut", "filelost"}
    /\ synced' = Len(cached')
    /\ pc' = "down"
    /\ UNCHANGED <<calls, acked>>

Restart ==
    /\ pc = "down"
    /\ pc' = "idle"
    /\ UNCHANGED <<cached, synced, named, calls, acked, struck>>

Next ==
    \/ OpenForAppend
    \/ WriteAll
    \/ WriteAllFails
    \/ SyncData
    \/ SyncDataFails
    \/ Kill
    \/ PowerCut
    \/ Restart

Spec == Init /\ [][Next]_vars

(***************************************************************************)
(* Properties.                                                             *)
(***************************************************************************)

FileLost == "filelost" \in struck
CutShort == struck \intersect {"nospace", "powercut"} # {}

(* Every record append_text acknowledged is, whole, in the part of the     *)
(* file the disk surely holds: no fault of any kind can take it away ("so  *)
(* a power cut does not lose the invoice", lib.rs), short of losing a new  *)
(* file with its name, which the code never syncs.                         *)
AckedOnDisk ==
    ~FileLost => \A r \in acked : \E i \in 1 .. synced : cached[i] = Piece(r, "whole")

(* Every record append_text acknowledged is on a line of its own that a    *)
(* reader of the file gets back.                                           *)
AckedParses == acked \subseteq Lines(cached)

(* So it is, and the whole file can be read, while no write has been cut   *)
(* short, whatever died and whichever flush failed.                        *)
ReadableUntilCut == ~CutShort => AckedParses /\ Readable(cached)

(* The file holds a call at most once, and calls stand in the order they   *)
(* were made, even when the file was lost and begun again ("The        *)
(* invoice ledger, in the order it was written", vault.rs).                *)
CallOrder ==
    \A i, j \in 1 .. Len(cached) : i < j => cached[i].rec < cached[j].rec

(* What append_text acknowledged stays where it is: no later call, failed  *)
(* call or crash moves, cuts or overwrites it, so a line number a reader   *)
(* was given goes on meaning the same record (StoreError::Corrupt, lib.rs).*)
AckedStay ==
    [][~FileLost' =>
          \A i \in 1 .. Len(cached) :
              cached[i].rec \in acked =>
                 i <= Len(cached') /\ cached'[i] = cached[i]]_vars
=============================================================================
