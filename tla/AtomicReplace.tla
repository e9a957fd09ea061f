---------------------------- MODULE AtomicReplace ----------------------------
(***************************************************************************)
(* Replacing one file of the vault: write_bytes_atomic, temporary_path and *)
(* sync_parent of crates/store/src/atomic.rs, one system call at a time,   *)
(* by the threads of several processes, under the faults a disk, a process *)
(* and a machine can have.  (The Unix build: elsewhere sync_parent is      *)
(* empty.)                                                                 *)
(*                                                                         *)
(* The n-th call writes the bytes named n.                                 *)
(***************************************************************************)
EXTENDS Naturals, Sequences, Functions

CONSTANTS
    None,       \* no process id, no name
    Threads,    \* the writers
    Processes,  \* the processes they run in
    ProcessOf,  \* which thread runs in which process
    Pids,       \* the process ids the system hands out, again and again
    MaxCalls,   \* bound: calls of write_bytes_atomic in a behaviour
    MaxStarts,  \* bound: process starts in a behaviour
    Faults      \* which faults the environment can inject

FaultKinds ==
    {"io",       \* create, write, sync_all or rename reports an error
     "dirsync",  \* opening or syncing the folder reports an error
     "unlink",   \* remove_file reports an error
     "kill",     \* a process dies between two system calls
     "powercut"} \* the machine stops; only what reached the disk remains

ASSUME ProcessAssumption == ProcessOf \in [Threads -> Processes]
ASSUME BoundAssumption == MaxCalls \in Nat /\ MaxStarts \in Nat
ASSUME NoneAssumption == None \notin Pids /\ None \notin Pids \X Nat
ASSUME FaultsAssumption == Faults \subseteq FaultKinds

VARIABLES
    pid,     \* the process id of each process, None when it is not running
    counter, \* COUNTER of each process
    starts,  \* how many processes were started
    temps,   \* the temporary files in the folder: name -> file
    gone,    \* names taken from the folder, not surely on the disk: <<name, call>>
    target,  \* every file the target's name was given, in order
    settled, \* how many of those renames are surely on the disk
    pc,      \* where each thread is inside write_bytes_atomic
    name,    \* the temporary name each thread chose
    call,    \* the call each thread is in
    answer,  \* what each call was answered
    back     \* history: calls whose temporary file a power cut gave back

entries == <<gone, target, settled, back>>
disk == <<temps, entries>>
procs == <<pid, counter, starts>>
vars == <<pid, counter, starts, temps, gone, target, settled, pc, name, call, answer, back>>

Calls == 1 .. MaxCalls
Names == Pids \X Nat

(* A file is what was written to it, how much of it, and whether a power   *)
(* cut can still take some of it.                                          *)
Files == [call : Calls, part : {"empty", "torn", "whole"}, synced : BOOLEAN]
File(c, p, s) == [call |-> c, part |-> p, synced |-> s]
Synced(f) == File(f.call, f.part, TRUE)

(* "ok" and "unsure" are both Ok(()): the folder was synced, or was not.   *)
(* "err" and "left" are both Err: remove_file worked, or did not.          *)
States == {"new", "open", "done", "ok", "unsure", "err", "left", "lost"}

Open == {"create", "write", "sync", "rename", "syncdir", "remove"}

(* Every variable has its type; so every temporary file is named after a   *)
(* process id and a number (temporary_path).                               *)
TypeOK ==
    /\ pid \in [Processes -> Pids \union {None}]
    /\ counter \in [Processes -> Nat]
    /\ starts \in 0 .. MaxStarts
    /\ DOMAIN temps \subseteq Names
    /\ \A n \in DOMAIN temps : temps[n] \in Files
    /\ gone \subseteq Names \X Calls
    /\ target \in Seq(Files)
    /\ settled \in 0 .. Len(target)
    /\ pc \in [Threads -> Open \union {"idle"}]
    /\ name \in [Threads -> Names \union {None}]
    /\ call \in [Threads -> 0 .. MaxCalls]
    /\ answer \in [Calls -> States]
    /\ back \subseteq Calls

Running(p) == pid[p] # None

Init ==
    /\ pid = [p \in Processes |-> None]
    /\ counter = [p \in Processes |-> 0]
    /\ starts = 0
    /\ temps = <<>>
    /\ gone = {}
    /\ target = <<>>
    /\ settled = 0
    /\ pc = [t \in Threads |-> "idle"]
    /\ name = [t \in Threads |-> None]
    /\ call = [t \in Threads |-> 0]
    /\ answer = [c \in Calls |-> "new"]
    /\ back = {}

(* The system gives a new process an id no running process has; COUNTER is *)
(* a static and starts at zero.                                            *)
Start(p) ==
    /\ ~Running(p)
    /\ starts < MaxStarts
    /\ starts' = starts + 1
    /\ \E i \in Pids : /\ \A q \in Processes : pid[q] # i
                       /\ pid' = [pid EXCEPT ![p] = i]
    /\ counter' = [counter EXCEPT ![p] = 0]
    /\ UNCHANGED <<disk, pc, name, call, answer>>

Goto(t, label) == pc' = [pc EXCEPT ![t] = label]
Answered(t, a) == answer' = [answer EXCEPT ![call[t]] = a]
SetTemp(t, f) == temps' = [n \in DOMAIN temps \union {name[t]} |->
                              IF n = name[t] THEN f ELSE temps[n]]
DropTemp(t) ==
    /\ temps' = Restrict(temps, DOMAIN temps \ {name[t]})
    /\ gone' = gone \union {<<n, temps[n].call>> : n \in DOMAIN temps \intersect {name[t]}}

(* The first call nobody made yet.                                         *)
NextCall(c) == answer[c] = "new" /\ \A d \in Calls : d < c => answer[d] # "new"

(***************************************************************************)
(* Ways write_bytes_atomic could have been written.                        *)
(***************************************************************************)

(* One temporary name for every writer, with no id and no number in it.    *)
TemporaryPathShared(t) ==
    LET p == ProcessOf[t] IN
    /\ pc[t] = "idle"
    /\ Running(p)
    /\ \E c \in Calls : /\ NextCall(c)
                        /\ call' = [call EXCEPT ![t] = c]
                        /\ answer' = [answer EXCEPT ![c] = "open"]
    /\ name' = [name EXCEPT ![t] = None]
    /\ Goto(t, "create")
    /\ UNCHANGED <<procs, disk>>

(* Renaming bytes that were never synced.                                  *)
SyncAllSkipped(t) ==
    /\ pc[t] = "sync"
    /\ Goto(t, "rename")
    /\ UNCHANGED <<procs, disk, name, call, answer>>

(* Returning Ok without syncing the folder.                                *)
SyncParentSkipped(t) ==
    /\ pc[t] = "syncdir"
    /\ Goto(t, "idle")
    /\ Answered(t, "ok")
    /\ UNCHANGED <<procs, disk, name, call>>

(* Going on to Ok after rename reported an error.                          *)
CallFailsUnseen(t) ==
    /\ pc[t] = "rename"
    /\ "io" \in Faults
    /\ Goto(t, "syncdir")
    /\ UNCHANGED <<procs, disk, name, call, answer>>

(* Returning Err without removing the temporary file.                      *)
RemoveFileSkipped(t) ==
    /\ pc[t] = "remove"
    /\ Goto(t, "idle")
    /\ Answered(t, "err")
    /\ UNCHANGED <<procs, disk, name, call>>

(***************************************************************************)
(* write_bytes_atomic.                                                     *)
(***************************************************************************)

(* create_dir_all, then temporary_path: <pid>.<COUNTER.fetch_add(1)>.      *)
TemporaryPath(t) ==
    LET p == ProcessOf[t] IN
    /\ pc[t] = "idle"
    /\ Running(p)
    /\ \E c \in Calls : /\ NextCall(c)
                        /\ call' = [call EXCEPT ![t] = c]
                        /\ answer' = [answer EXCEPT ![c] = "open"]
    /\ name' = [name EXCEPT ![t] = <<pid[p], counter[p]>>]
    /\ counter' = [counter EXCEPT ![p] = @ + 1]
    /\ Goto(t, "create")
    /\ UNCHANGED <<pid, starts, disk>>

(* File::create truncates a file that is already there.                    *)
Create(t) ==
    /\ pc[t] = "create"
    /\ SetTemp(t, File(call[t], "empty", FALSE))
    /\ Goto(t, "write")
    /\ UNCHANGED <<procs, entries, name, call, answer>>

WriteAll(t) ==
    /\ pc[t] = "write"
    /\ SetTemp(t, File(call[t], "whole", FALSE))
    /\ Goto(t, "sync")
    /\ UNCHANGED <<procs, entries, name, call, answer>>

(* An error can follow any strict prefix of the bytes.                     *)
WriteAllFails(t) ==
    /\ pc[t] = "write"
    /\ "io" \in Faults
    /\ \E p \in {"empty", "torn"} : SetTemp(t, File(call[t], p, FALSE))
    /\ Goto(t, "remove")
    /\ UNCHANGED <<procs, entries, name, call, answer>>

SyncAll(t) ==
    /\ pc[t] = "sync"
    /\ SetTemp(t, Synced(temps[name[t]]))
    /\ Goto(t, "rename")
    /\ UNCHANGED <<procs, entries, name, call, answer>>

(* The rename moves whatever the temporary name names at that instant.     *)
Rename(t) ==
    /\ pc[t] = "rename"
    /\ target' = Append(target, temps[name[t]])
    /\ DropTemp(t)
    /\ Goto(t, "syncdir")
    /\ Answered(t, "done")
    /\ UNCHANGED <<procs, settled, name, call, back>>

(* create, sync_all or rename returns an error: go and clean up.           *)
CallFails(t) ==
    /\ pc[t] \in {"create", "sync", "rename"}
    /\ "io" \in Faults
    /\ Goto(t, "remove")
    /\ UNCHANGED <<procs, disk, name, call, answer>>

(* remove_file on the way out; Err is returned.                            *)
RemoveFile(t) ==
    /\ pc[t] = "remove"
    /\ DropTemp(t)
    /\ Goto(t, "idle")
    /\ Answered(t, "err")
    /\ UNCHANGED <<procs, target, settled, name, call, back>>

(* `let _ = remove_file`: the file stays, and the same Err is returned.    *)
RemoveFileFails(t) ==
    /\ pc[t] = "remove"
    /\ name[t] \in DOMAIN temps
    /\ "unlink" \in Faults
    /\ Goto(t, "idle")
    /\ Answered(t, "left")
    /\ UNCHANGED <<procs, disk, name, call>>

(* sync_parent: the folder's entries reach the disk; Ok is returned.       *)
SyncParent(t) ==
    /\ pc[t] = "syncdir"
    /\ settled' = Len(target)
    /\ gone' = {}
    /\ Goto(t, "idle")
    /\ Answered(t, "ok")
    /\ UNCHANGED <<procs, temps, target, name, call, back>>

(* `if let Ok(handle)` and `let _ = sync_all()`: the failure is dropped    *)
(* and the call returns Ok all the same.                                   *)
SyncParentFails(t) ==
    /\ pc[t] = "syncdir"
    /\ "dirsync" \in Faults
    /\ Goto(t, "idle")
    /\ Answered(t, "unsure")
    /\ UNCHANGED <<procs, disk, name, call>>

(***************************************************************************)
(* The environment.                                                        *)
(***************************************************************************)

(* The calls of the threads in S are never answered.                       *)
Orphan(S) ==
    /\ pc' = [t \in Threads |-> IF t \in S THEN "idle" ELSE pc[t]]
    /\ answer' = [c \in Calls |->
                     IF \E t \in S : pc[t] # "idle" /\ call[t] = c
                     THEN "lost" ELSE answer[c]]

Kill(p) ==
    /\ "kill" \in Faults
    /\ Running(p)
    /\ pid' = [pid EXCEPT ![p] = None]
    /\ Orphan({t \in Threads : ProcessOf[t] = p})
    /\ UNCHANGED <<counter, starts, disk, name, call>>

(* What a power cut can leave of a file.                                   *)
LessOf(f) ==
    IF f.synced THEN {f}
    ELSE {File(f.call, p, TRUE) :
             p \in CASE f.part = "whole" -> {"empty", "torn", "whole"}
                     [] f.part = "torn"  -> {"empty", "torn"}
                     [] f.part = "empty" -> {"empty"}}

(* Part of a file under a temporary name; its bytes are never read again.  *)
Leftover(c) == File(c, "torn", FALSE)

(* The temporary names the folder can come back with, as <<name, call>>,   *)
(* when its first k renames are kept: those that were there, and those     *)
(* taken from it by an undone rename or by a removal.                      *)
Reappear(k) ==
    {<<n, temps[n].call>> : n \in DOMAIN temps} \union
    {e \in gone : \A i \in 1 .. k : target[i].call # e[2]}

(* Renames that were not synced are undone, the latest first; any of the   *)
(* temporary files may be left, and those of undone renames, or removed    *)
(* since the folder was last synced, may be back.                          *)
PowerCut ==
    /\ "powercut" \in Faults
    /\ \E p \in Processes : Running(p)
    /\ pid' = [p \in Processes |-> None]
    /\ Orphan(Threads)
    /\ \E k \in settled .. Len(target) :
          /\ settled' = k
          /\ \/ k = 0 /\ target' = <<>>
             \/ k > 0 /\ \E f \in LessOf(target[k]) :
                            target' = Append(SubSeq(target, 1, k - 1), f)
          /\ \E N \in SUBSET {e[1] : e \in Reappear(k)} : \E of \in [N -> Calls] :
                /\ \A n \in N : <<n, of[n]>> \in Reappear(k)
                /\ temps' = [n \in N |-> Leftover(of[n])]
                /\ back' = back \union {of[n] : n \in {m \in N : <<m, of[m]>> \in gone}}
    /\ gone' = {}
    /\ UNCHANGED <<counter, starts, name, call>>

Next ==
    \/ \E p \in Processes : Start(p) \/ Kill(p)
    \/ \E t \in Threads :
          \/ TemporaryPath(t)
          \/ Create(t)
          \/ WriteAll(t) \/ WriteAllFails(t)
          \/ SyncAll(t)
          \/ Rename(t)
          \/ CallFails(t)
          \/ RemoveFile(t) \/ RemoveFileFails(t)
          \/ SyncParent(t) \/ SyncParentFails(t)
    \/ PowerCut

Spec == Init /\ [][Next]_vars

(***************************************************************************)
(* Properties.                                                             *)
(***************************************************************************)

(* Whoever opens the target finds no file, or everything one call wrote:   *)
(* never a mixture and never a part, whatever died or failed.              *)
TargetWhole == \A i \in 1 .. Len(target) : target[i].part = "whole" /\ target[i].synced

(* A thread renames its own bytes into place, never another writer's ("two *)
(* processes could rename each other's bytes into place", atomic.rs).      *)
OwnBytes ==
    \A t \in Threads :
        pc[t] = "rename" =>
            /\ name[t] \in DOMAIN temps
            /\ temps[name[t]] = File(call[t], "whole", TRUE)

(* A call that returned Ok with its folder synced outlives a power cut: no *)
(* state the disk could come back in is older than it, whatever the other  *)
(* writers renamed in the meantime and whichever of their syncs failed.    *)
OkSurvives ==
    \A i \in 1 .. Len(target) : answer[target[i].call] = "ok" => i <= settled

(* A temporary file is one a thread is busy with, or of a call that died   *)
(* with its process, or was given back by a power cut, or could not be     *)
(* removed: nothing else leaves litter ("a failure does not leave litter   *)
(* beside the vault", atomic.rs).  And a call that was answered Ok with    *)
(* its folder synced left none, whatever happens afterwards.               *)
NoLitter ==
    \A n \in DOMAIN temps :
        LET c == temps[n].call IN
        /\ answer[c] # "ok"
        /\ \/ answer[c] \in {"lost", "left"}
           \/ c \in back
           \/ \E t \in Threads : /\ pc[t] \in {"write", "sync", "rename", "remove"}
                                 /\ name[t] = n

(* Replacing implements the atomic register: a call's effect is its rename *)
(* and the register does not know of temporary files.                      *)
Told(a) == IF a = "left" THEN "err" ELSE a

Register == INSTANCE AtomicRegister WITH
    effects <- [i \in 1 .. Len(target) |-> target[i].call],
    state   <- [c \in Calls |-> Told(answer[c])]

AtomicAndDurable == Register!Spec
=============================================================================
