------------------------- MODULE AtomicReplaceProofs -------------------------
(***************************************************************************)
(* What AtomicReplace promises for every set of threads, processes and     *)
(* process ids, every number of calls and every choice of faults.          *)
(***************************************************************************)
EXTENDS AtomicReplace, TLAPS

(* A thread inside a call runs in a live process, chose a name with that   *)
(* process's id and a number COUNTER has passed, and its call is open.     *)
InCall ==
    \A t \in Threads :
        pc[t] \in Open =>
            /\ call[t] \in Calls
            /\ Running(ProcessOf[t])
            /\ \E n \in Nat : /\ name[t] = <<pid[ProcessOf[t]], n>>
                              /\ n < counter[ProcessOf[t]]

(* No two processes alive have one process id.                             *)
LivePidsDiffer ==
    \A p, q \in Processes : p # q /\ Running(p) => pid[p] # pid[q]

(* No two threads inside a call chose one name.                            *)
NamesDiffer ==
    \A t, u \in Threads :
        t # u /\ pc[t] \in Open /\ pc[u] \in Open => name[t] # name[u]

(* The temporary file of a thread holds what that thread wrote.            *)
OwnFile ==
    \A t \in Threads :
        /\ pc[t] \in {"write", "sync", "rename"} => name[t] \in DOMAIN temps
        /\ pc[t] = "sync" => temps[name[t]] = File(call[t], "whole", FALSE)
        /\ pc[t] = "rename" => temps[name[t]] = File(call[t], "whole", TRUE)

(***************************************************************************)
(* Types.  A name is only ever built from a live process's id.             *)
(***************************************************************************)
TypeInv == TypeOK /\ InCall

LEMMA TypeInvInit == Init => TypeInv
<1> USE ProcessAssumption, BoundAssumption DEF Init, TypeInv, TypeOK, InCall, Open, States
<1>1. ASSUME Init PROVE TypeOK
    BY <1>1
<1>2. ASSUME Init PROVE InCall
    BY <1>2
<1> QED
    BY <1>1, <1>2

LEMMA FileTyped ==
    ASSUME NEW c \in Calls, NEW p \in {"empty", "torn", "whole"}, NEW s \in BOOLEAN
    PROVE  File(c, p, s) \in Files
    BY DEF File, Files

LEMMA Appended ==
    ASSUME NEW S, NEW s \in Seq(S), NEW e \in S
    PROVE  /\ Len(Append(s, e)) = Len(s) + 1
           /\ Append(s, e)[Len(s) + 1] = e
           /\ \A i \in 1 .. Len(s) : Append(s, e)[i] = s[i]
    OBVIOUS

LEMMA LessTyped ==
    ASSUME NEW f \in Files, NEW g \in LessOf(f)
    PROVE  /\ g \in Files
           /\ f.synced => g = f
           /\ g.call = f.call
<1>1. CASE f.synced
    BY <1>1 DEF LessOf
<1>2. CASE ~f.synced
    <2>1. PICK p \in {"empty", "torn", "whole"} : g = File(f.call, p, TRUE)
        BY <1>2 DEF LessOf, Files
    <2> QED
        BY <1>2, <2>1, FileTyped DEF File, Files
<1> QED
    BY <1>1, <1>2

(* What the two ways of touching the temporary files do.                   *)
LEMMA SetTempDoes ==
    ASSUME NEW t \in Threads, NEW f, SetTemp(t, f)
    PROVE  /\ DOMAIN temps' = DOMAIN temps \union {name[t]}
           /\ temps'[name[t]] = f
           /\ \A n \in DOMAIN temps : n # name[t] => temps'[n] = temps[n]
    BY DEF SetTemp

LEMMA DropTempDoes ==
    ASSUME NEW t \in Threads, DropTemp(t)
    PROVE  /\ DOMAIN temps' = DOMAIN temps \ {name[t]}
           /\ \A n \in DOMAIN temps' : temps'[n] = temps[n]
           /\ \A e \in gone' : \/ e \in gone
                               \/ name[t] \in DOMAIN temps /\ e = <<name[t], temps[name[t]].call>>
    BY DEF DropTemp, Restrict

(* What a power cut does to the temporary files, the renames kept being    *)
(* those that are settled afterwards.                                      *)
LEMMA PowerCutReturns ==
    ASSUME PowerCut
    PROVE  \E N \in SUBSET {e[1] : e \in Reappear(settled')} : \E of \in [N -> Calls] :
              /\ \A n \in N : <<n, of[n]>> \in Reappear(settled')
              /\ temps' = [n \in N |-> Leftover(of[n])]
              /\ back' = back \union {of[n] : n \in {m \in N : <<m, of[m]>> \in gone}}
<1>1. PICK k \in settled .. Len(target) :
         /\ settled' = k
         /\ \E N \in SUBSET {e[1] : e \in Reappear(k)} : \E of \in [N -> Calls] :
               /\ \A n \in N : <<n, of[n]>> \in Reappear(k)
               /\ temps' = [n \in N |-> Leftover(of[n])]
               /\ back' = back \union {of[n] : n \in {m \in N : <<m, of[m]>> \in gone}}
    BY Zenon DEF PowerCut
<1> QED
    BY <1>1

(* The folder, the target and the bookkeeping keep their types.            *)
LEMMA TypeStep == TypeInv /\ OwnFile /\ [Next]_vars => TypeOK'
<1> SUFFICES ASSUME TypeInv, OwnFile, [Next]_vars PROVE TypeOK'
    OBVIOUS
<1> USE ProcessAssumption, BoundAssumption DEF States
<1>0. TypeOK /\ InCall
    BY DEF TypeInv
<1>1. ASSUME NEW p \in Processes, Start(p) PROVE TypeOK'
    BY <1>0, <1>1 DEF Start, TypeOK, disk, entries
<1>2. ASSUME NEW p \in Processes, Kill(p) PROVE TypeOK'
    BY <1>0, <1>2 DEF Kill, Orphan, TypeOK, disk, entries
<1>3. ASSUME NEW t \in Threads, TemporaryPath(t) PROVE TypeOK'
    <2>1. /\ pid[ProcessOf[t]] \in Pids
          /\ counter[ProcessOf[t]] \in Nat
        BY <1>0, <1>3 DEF TemporaryPath, TypeOK, Running
    <2>2. <<pid[ProcessOf[t]], counter[ProcessOf[t]]>> \in Names
        BY <2>1 DEF Names
    <2> QED
        BY <1>0, <1>3, <2>1, <2>2 DEF TemporaryPath, Goto, TypeOK, disk, entries, Open, Calls
<1>4. ASSUME NEW t \in Threads, pc[t] \in Open
      PROVE  /\ name[t] \in Names
             /\ call[t] \in Calls
    <2>1. PICK n \in Nat : name[t] = <<pid[ProcessOf[t]], n>>
        BY <1>0, <1>4 DEF InCall
    <2>2. pid[ProcessOf[t]] \in Pids
        BY <1>0, <1>4 DEF InCall, TypeOK, Running
    <2> QED
        BY <1>0, <1>4, <2>1, <2>2 DEF InCall, Names
<1>5. ASSUME NEW t \in Threads, NEW f \in Files, pc[t] \in Open, SetTemp(t, f)
      PROVE  DOMAIN temps' \subseteq Names /\ \A n \in DOMAIN temps' : temps'[n] \in Files
    <2>1. name[t] \in Names
        BY <1>4, <1>5
    <2>2. /\ DOMAIN temps' = DOMAIN temps \union {name[t]}
          /\ temps'[name[t]] = f
          /\ \A n \in DOMAIN temps : n # name[t] => temps'[n] = temps[n]
        BY <1>5, SetTempDoes
    <2> QED
        BY <1>0, <1>5, <2>1, <2>2 DEF TypeOK
<1>6. ASSUME NEW t \in Threads, DropTemp(t)
      PROVE  /\ DOMAIN temps' \subseteq Names /\ \A n \in DOMAIN temps' : temps'[n] \in Files
             /\ gone' \subseteq Names \X Calls
    <2>1. DOMAIN temps' \subseteq Names /\ \A n \in DOMAIN temps' : temps'[n] \in Files
        BY <1>0, <1>6, DropTempDoes DEF TypeOK
    <2>2. \A n \in DOMAIN temps : n \in Names /\ temps[n].call \in Calls
        BY <1>0 DEF TypeOK, Files
    <2>3. gone' \subseteq Names \X Calls
        <3>1. gone \subseteq Names \X Calls
            BY <1>0 DEF TypeOK
        <3>2. \A e \in gone' : \/ e \in gone
                               \/ name[t] \in DOMAIN temps /\ e = <<name[t], temps[name[t]].call>>
            BY <1>6, DropTempDoes
        <3> QED
            BY <2>2, <3>1, <3>2
    <2> QED
        BY <2>1, <2>3
<1>7. ASSUME NEW t \in Threads, Create(t) \/ WriteAll(t) \/ WriteAllFails(t) \/ SyncAll(t)
      PROVE  TypeOK'
    <2>1. pc[t] \in Open
        BY <1>7 DEF Create, WriteAll, WriteAllFails, SyncAll, Open
    <2>2. \E f \in Files : SetTemp(t, f)
        <3>1. CASE Create(t)
            BY <1>4, <2>1, <3>1, FileTyped DEF Create
        <3>2. CASE WriteAll(t)
            BY <1>4, <2>1, <3>2, FileTyped DEF WriteAll
        <3>3. CASE WriteAllFails(t)
            BY <1>4, <2>1, <3>3, FileTyped DEF WriteAllFails
        <3>4. CASE SyncAll(t)
            <4>1. temps[name[t]] \in Files
                BY <1>0, <3>4 DEF SyncAll, OwnFile, TypeOK
            <4> QED
                BY <3>4, <4>1, FileTyped DEF SyncAll, Synced, Files
        <3> QED
            BY <1>7, <3>1, <3>2, <3>3, <3>4
    <2>3. DOMAIN temps' \subseteq Names /\ \A n \in DOMAIN temps' : temps'[n] \in Files
        BY <1>5, <2>1, <2>2
    <2>4. /\ UNCHANGED <<pid, counter, starts, gone, target, settled, name, call, answer, back>>
          /\ pc' \in [Threads -> Open \union {"idle"}]
        BY <1>0, <1>7
        DEF Create, WriteAll, WriteAllFails, SyncAll, procs, entries, Goto, TypeOK, Open
    <2> QED
        BY <1>0, <2>3, <2>4 DEF TypeOK
<1>8. ASSUME NEW t \in Threads, Rename(t) PROVE TypeOK'
    <2>1. temps[name[t]] \in Files
        BY <1>0, <1>8 DEF Rename, OwnFile, TypeOK
    <2>2. call[t] \in Calls
        BY <1>4, <1>8 DEF Rename, Open
    <2>3. /\ target' \in Seq(Files)
          /\ settled' \in 0 .. Len(target')
        BY <1>0, <1>8, <2>1 DEF Rename, TypeOK
    <2> QED
        BY <1>0, <1>6, <1>8, <2>2, <2>3 DEF Rename, TypeOK, procs, Goto, Answered, Open
<1>9. ASSUME NEW t \in Threads, CallFails(t) PROVE TypeOK'
    BY <1>0, <1>9 DEF CallFails, TypeOK, procs, disk, entries, Goto, Open
<1>10. ASSUME NEW t \in Threads, RemoveFile(t) PROVE TypeOK'
    BY <1>0, <1>6, <1>10 DEF RemoveFile, TypeOK, procs, Goto, Answered, Open
<1>14. ASSUME NEW t \in Threads, RemoveFileFails(t) PROVE TypeOK'
    BY <1>0, <1>14
    DEF RemoveFileFails, TypeOK, procs, disk, entries, Goto, Answered, Open
<1>11. ASSUME NEW t \in Threads, SyncParent(t) \/ SyncParentFails(t) PROVE TypeOK'
    <2>1. /\ UNCHANGED <<pid, counter, starts, temps, target, name, call, back>>
          /\ gone' = gone \/ gone' = {}
          /\ settled' = settled \/ settled' = Len(target)
          /\ Goto(t, "idle")
          /\ \E a \in {"ok", "unsure"} : Answered(t, a)
        BY <1>11 DEF SyncParent, SyncParentFails, procs, disk, entries
    <2>2. settled' \in 0 .. Len(target')
        BY <1>0, <2>1 DEF TypeOK
    <2>3. /\ pc' \in [Threads -> Open \union {"idle"}]
          /\ answer' \in [Calls -> States]
        BY <1>0, <2>1 DEF TypeOK, Goto, Answered, States
    <2> QED
        BY <1>0, <2>1, <2>2, <2>3 DEF TypeOK
<1>12. CASE PowerCut
    <2>1. /\ target' \in Seq(Files)
          /\ settled' \in 0 .. Len(target')
        <3>1. PICK k \in settled .. Len(target) :
                 /\ settled' = k
                 /\ \/ k = 0 /\ target' = <<>>
                    \/ k > 0 /\ \E f \in LessOf(target[k]) :
                                   target' = Append(SubSeq(target, 1, k - 1), f)
            BY <1>12 DEF PowerCut
        <3>2. CASE k = 0 /\ target' = <<>>
            BY <3>1, <3>2
        <3>3. ASSUME k > 0, NEW f \in LessOf(target[k]),
                     target' = Append(SubSeq(target, 1, k - 1), f)
              PROVE  target' \in Seq(Files) /\ settled' \in 0 .. Len(target')
            <4>1. k \in 1 .. Len(target) /\ target \in Seq(Files) /\ target[k] \in Files
                BY <1>0, <3>1, <3>3 DEF TypeOK
            <4>2. f \in Files
                BY <3>3, <4>1, LessTyped
            <4> QED
                BY <3>1, <3>3, <4>1, <4>2
        <3> QED
            BY <3>1, <3>2, <3>3
    <2>2. /\ DOMAIN temps' \subseteq Names
          /\ \A n \in DOMAIN temps' : temps'[n] \in Files
          /\ back' \subseteq Calls
        <3>0. PICK N \in SUBSET {e[1] : e \in Reappear(settled')} : \E of \in [N -> Calls] :
                 /\ \A n \in N : <<n, of[n]>> \in Reappear(settled')
                 /\ temps' = [n \in N |-> Leftover(of[n])]
                 /\ back' = back \union {of[n] : n \in {m \in N : <<m, of[m]>> \in gone}}
            BY <1>12, PowerCutReturns
        <3>1. PICK of \in [N -> Calls] :
                 /\ \A n \in N : <<n, of[n]>> \in Reappear(settled')
                 /\ temps' = [n \in N |-> Leftover(of[n])]
                 /\ back' = back \union {of[n] : n \in {m \in N : <<m, of[m]>> \in gone}}
            BY <3>0
        <3>2. \A n \in N : of[n] \in Calls /\ Leftover(of[n]) \in Files
            BY FileTyped DEF Leftover
        <3>3. \A n \in N : n \in Names
            <4>1. \A e \in Reappear(settled') : e[1] \in Names
                BY <1>0 DEF Reappear, TypeOK
            <4> QED
                BY <3>1, <4>1
        <3>4. back' \subseteq Calls
            BY <1>0, <3>1, <3>2 DEF TypeOK
        <3> QED
            BY <3>1, <3>2, <3>3, <3>4
    <2>3. /\ gone' = {}
          /\ pid' = [p \in Processes |-> None]
          /\ UNCHANGED <<counter, starts, name, call>>
          /\ pc' \in [Threads -> Open \union {"idle"}]
          /\ answer' \in [Calls -> States]
        BY <1>0, <1>12 DEF PowerCut, Orphan, TypeOK
    <2> QED
        BY <1>0, <2>1, <2>2, <2>3 DEF TypeOK
<1>13. CASE UNCHANGED vars
    <2>1. TypeOK /\ UNCHANGED <<pid, counter, starts, temps, gone, target, settled>>
                 /\ UNCHANGED <<pc, name, call, answer, back>>
        BY <1>0, <1>13 DEF vars
    <2> QED
        BY <2>1 DEF TypeOK
<1> QED
    BY <1>1, <1>2, <1>3, <1>7, <1>8, <1>9, <1>10, <1>11, <1>12, <1>13, <1>14 DEF Next

(***************************************************************************)
(* Names.  COUNTER keeps the threads of one process apart, and the system  *)
(* keeps processes apart.                                                  *)
(***************************************************************************)
NameInv == InCall /\ LivePidsDiffer /\ NamesDiffer

LEMMA NameStep == TypeOK /\ NameInv /\ [Next]_vars => NameInv'
<1> SUFFICES ASSUME TypeOK, NameInv, [Next]_vars PROVE NameInv'
    OBVIOUS
<1> USE ProcessAssumption
<1>0. InCall /\ LivePidsDiffer /\ NamesDiffer
    BY DEF NameInv
<1>1. ASSUME NEW p \in Processes, Start(p) PROVE NameInv'
    <2>1. \A t \in Threads : pc[t] \in Open => ProcessOf[t] # p
        BY <1>0, <1>1 DEF InCall, Start
    <2>2. InCall'
        BY <1>0, <1>1, <2>1 DEF InCall, Start, Running, TypeOK
    <2>3. LivePidsDiffer'
        BY <1>0, <1>1, NoneAssumption DEF LivePidsDiffer, Start, Running, TypeOK
    <2>4. NamesDiffer'
        BY <1>0, <1>1 DEF NamesDiffer, Start
    <2> QED
        BY <2>2, <2>3, <2>4 DEF NameInv
<1>2. ASSUME NEW p \in Processes, Kill(p) PROVE NameInv'
    <2>1. \A t \in Threads :
             /\ ProcessOf[t] = p => pc'[t] = "idle"
             /\ ProcessOf[t] # p => pc'[t] = pc[t]
        BY <1>2 DEF Kill, Orphan
    <2>2. /\ pid' = [pid EXCEPT ![p] = None]
          /\ UNCHANGED <<counter, name, call>>
        BY <1>2 DEF Kill
    <2>3. \A t \in Threads : pc'[t] \in Open => ProcessOf[t] # p /\ pc[t] \in Open
        BY <2>1 DEF Open
    <2>4. InCall'
        BY <1>0, <2>2, <2>3 DEF InCall, Running, TypeOK
    <2>5. LivePidsDiffer'
        BY <1>0, <2>2 DEF LivePidsDiffer, Running, TypeOK
    <2>6. NamesDiffer'
        BY <1>0, <2>2, <2>3 DEF NamesDiffer
    <2> QED
        BY <2>4, <2>5, <2>6 DEF NameInv
<1>3. ASSUME NEW t \in Threads, TemporaryPath(t) PROVE NameInv'
    <2> DEFINE p == ProcessOf[t]
    <2>1. /\ p \in Processes
          /\ pid[p] # None
          /\ counter[p] \in Nat
          /\ pid' = pid
          /\ name' = [name EXCEPT ![t] = <<pid[p], counter[p]>>]
          /\ counter' = [counter EXCEPT ![p] = @ + 1]
          /\ pc' = [pc EXCEPT ![t] = "create"]
          /\ \E c \in Calls : call' = [call EXCEPT ![t] = c]
        BY <1>3 DEF TemporaryPath, Running, Goto, TypeOK
    <2>2. InCall'
        <3> SUFFICES ASSUME NEW u \in Threads, pc'[u] \in Open
                     PROVE  /\ call'[u] \in Calls
                            /\ Running(ProcessOf[u])'
                            /\ \E n \in Nat : /\ name'[u] = <<pid'[ProcessOf[u]], n>>
                                              /\ n < counter'[ProcessOf[u]]
            BY DEF InCall
        <3>1. CASE u = t
            <4>1. /\ name'[u] = <<pid'[p], counter[p]>>
                  /\ counter[p] < counter'[p]
                  /\ call'[u] \in Calls
                BY <2>1, <3>1 DEF TypeOK
            <4> QED
                BY <2>1, <3>1, <4>1 DEF Running
        <3>2. CASE u # t
            <4>1. pc[u] \in Open /\ name'[u] = name[u] /\ call'[u] = call[u]
                BY <2>1, <3>2 DEF TypeOK
            <4>2. PICK n \in Nat : /\ name[u] = <<pid[ProcessOf[u]], n>>
                                   /\ n < counter[ProcessOf[u]]
                BY <1>0, <4>1 DEF InCall
            <4>3. ProcessOf[u] \in Processes /\ counter[ProcessOf[u]] \in Nat
                BY DEF TypeOK
            <4>4. n < counter'[ProcessOf[u]]
                BY <2>1, <4>2, <4>3 DEF TypeOK
            <4> QED
                BY <1>0, <2>1, <4>1, <4>2, <4>4 DEF InCall, Running
        <3> QED
            BY <3>1, <3>2
    <2>3. LivePidsDiffer'
        BY <1>0, <2>1 DEF LivePidsDiffer, Running
    <2>4. ASSUME NEW u \in Threads, u # t, pc'[u] \in Open PROVE name'[u] # name'[t]
        <3>1. pc[u] \in Open /\ name'[u] = name[u]
            BY <2>1, <2>4 DEF TypeOK
        <3>2. PICK n \in Nat : /\ name[u] = <<pid[ProcessOf[u]], n>>
                               /\ n < counter[ProcessOf[u]]
            BY <1>0, <3>1 DEF InCall
        <3>3. name'[t] = <<pid[p], counter[p]>>
            BY <2>1 DEF TypeOK
        <3>4. CASE ProcessOf[u] = p
            BY <2>1, <3>1, <3>2, <3>3, <3>4
        <3>5. CASE ProcessOf[u] # p
            <4>1. pid[p] # pid[ProcessOf[u]]
                BY <1>0, <2>1, <3>5 DEF LivePidsDiffer, Running
            <4> QED
                BY <3>1, <3>2, <3>3, <4>1
        <3> QED
            BY <3>4, <3>5
    <2>5. NamesDiffer'
        <3> SUFFICES ASSUME NEW u \in Threads, NEW w \in Threads, u # w,
                            pc'[u] \in Open, pc'[w] \in Open
                     PROVE  name'[u] # name'[w]
            BY DEF NamesDiffer
        <3>1. CASE u = t \/ w = t
            BY <2>4, <3>1
        <3>2. CASE u # t /\ w # t
            BY <1>0, <2>1, <3>2 DEF NamesDiffer, TypeOK
        <3> QED
            BY <3>1, <3>2
    <2> QED
        BY <2>2, <2>3, <2>5 DEF NameInv
<1>4. CASE /\ UNCHANGED <<pid, counter, name, call>>
           /\ \A t \in Threads : pc'[t] \in Open => pc[t] \in Open
    BY <1>0, <1>4 DEF NameInv, InCall, LivePidsDiffer, NamesDiffer, Running
<1>5. ASSUME NEW t \in Threads,
             \/ Create(t) \/ WriteAll(t) \/ WriteAllFails(t) \/ SyncAll(t)
             \/ Rename(t) \/ CallFails(t) \/ RemoveFile(t) \/ RemoveFileFails(t)
             \/ SyncParent(t) \/ SyncParentFails(t)
      PROVE  /\ UNCHANGED <<pid, counter, name, call>>
             /\ \A u \in Threads : pc'[u] \in Open => pc[u] \in Open
    BY <1>5
    DEF Create, WriteAll, WriteAllFails, SyncAll, Rename, CallFails, RemoveFile,
        RemoveFileFails, SyncParent, SyncParentFails, Goto, procs, Open, TypeOK
<1>6. CASE PowerCut
    <2>1. \A p \in Processes : pid'[p] = None
        BY <1>6 DEF PowerCut
    <2>2. \A t \in Threads : pc'[t] \notin Open
        BY <1>6 DEF PowerCut, Orphan, Open
    <2> QED
        BY <2>1, <2>2 DEF NameInv, InCall, LivePidsDiffer, NamesDiffer, Running
<1>7. CASE UNCHANGED vars
    BY <1>4, <1>7 DEF vars
<1> QED
    BY <1>1, <1>2, <1>3, <1>4, <1>5, <1>6, <1>7 DEF Next

(***************************************************************************)
(* Contents.  No other thread touches the file behind a thread's name, so  *)
(* what it renames is what it wrote and synced.                            *)
(***************************************************************************)
LEMMA OwnFileStep == TypeInv /\ NameInv /\ OwnFile /\ [Next]_vars => OwnFile'
<1> SUFFICES ASSUME TypeInv, NameInv, OwnFile, [Next]_vars PROVE OwnFile'
    OBVIOUS
<1>0. TypeOK /\ NamesDiffer
    BY DEF TypeInv, NameInv
<1>1. CASE /\ UNCHANGED <<temps, name, call>>
           /\ \A t \in Threads : pc'[t] \in {"write", "sync", "rename"} => pc'[t] = pc[t]
    BY <1>1 DEF OwnFile
<1>2. ASSUME NEW t \in Threads, NEW f, SetTemp(t, f) \/ DropTemp(t),
             UNCHANGED <<name, call>>,
             pc[t] \in Open, \A u \in Threads : u # t => pc'[u] = pc[u],
             pc'[t] = "write" => SetTemp(t, f),
             pc'[t] = "sync" => SetTemp(t, f) /\ f = File(call[t], "whole", FALSE),
             pc'[t] = "rename" => SetTemp(t, f) /\ f = File(call[t], "whole", TRUE)
      PROVE  OwnFile'
    <2> SUFFICES ASSUME NEW u \in Threads
                 PROVE  /\ pc'[u] \in {"write", "sync", "rename"} => name'[u] \in DOMAIN temps'
                        /\ pc'[u] = "sync" => temps'[name'[u]] = File(call'[u], "whole", FALSE)
                        /\ pc'[u] = "rename" => temps'[name'[u]] = File(call'[u], "whole", TRUE)
        BY DEF OwnFile
    <2>1. CASE u = t
        BY <1>2, <2>1, SetTempDoes
    <2>2. CASE u # t /\ pc[u] \in {"write", "sync", "rename"}
        <3>1. name[u] # name[t] /\ name[u] \in DOMAIN temps
            BY <1>0, <1>2, <2>2 DEF NamesDiffer, OwnFile, Open
        <3>2. name[u] \in DOMAIN temps' /\ temps'[name[u]] = temps[name[u]]
            BY <1>2, <3>1, SetTempDoes, DropTempDoes
        <3> QED
            BY <1>2, <2>2, <3>2 DEF OwnFile
    <2>3. CASE u # t /\ pc[u] \notin {"write", "sync", "rename"}
        BY <1>2, <2>3
    <2> QED
        BY <2>1, <2>2, <2>3
<1>3. ASSUME NEW t \in Threads, Create(t) PROVE OwnFile'
    BY <1>0, <1>2, <1>3 DEF Create, Goto, TypeOK, Open
<1>4. ASSUME NEW t \in Threads, WriteAll(t) PROVE OwnFile'
    BY <1>0, <1>2, <1>4 DEF WriteAll, Goto, TypeOK, Open
<1>5. ASSUME NEW t \in Threads, WriteAllFails(t) PROVE OwnFile'
    BY <1>0, <1>2, <1>5 DEF WriteAllFails, Goto, TypeOK, Open
<1>6. ASSUME NEW t \in Threads, SyncAll(t) PROVE OwnFile'
    <2>1. Synced(temps[name[t]]) = File(call[t], "whole", TRUE)
        <3>1. temps[name[t]] = File(call[t], "whole", FALSE)
            BY <1>6 DEF SyncAll, OwnFile
        <3>2. Synced(File(call[t], "whole", FALSE)) = File(call[t], "whole", TRUE)
            BY DEF Synced, File
        <3> QED
            BY <3>1, <3>2
    <2> QED
        BY <1>0, <1>2, <1>6, <2>1 DEF SyncAll, Goto, TypeOK, Open
<1>7. ASSUME NEW t \in Threads, Rename(t) PROVE OwnFile'
    BY <1>0, <1>2, <1>7 DEF Rename, Goto, TypeOK, Open
<1>8. ASSUME NEW t \in Threads, RemoveFile(t) PROVE OwnFile'
    BY <1>0, <1>2, <1>8 DEF RemoveFile, Goto, TypeOK, Open
<1>9. ASSUME NEW t \in Threads,
             CallFails(t) \/ RemoveFileFails(t) \/ SyncParent(t) \/ SyncParentFails(t)
      PROVE  OwnFile'
    BY <1>0, <1>1, <1>9
    DEF CallFails, RemoveFileFails, SyncParent, SyncParentFails, Goto, TypeOK, Open, disk, entries
<1>10. ASSUME NEW t \in Threads, TemporaryPath(t) PROVE OwnFile'
    BY <1>0, <1>10 DEF TemporaryPath, Goto, TypeOK, OwnFile, disk, entries
<1>11. ASSUME NEW p \in Processes, Start(p) \/ Kill(p) PROVE OwnFile'
    BY <1>1, <1>11 DEF Start, Kill, Orphan, disk, entries
<1>12. CASE PowerCut
    BY <1>12 DEF PowerCut, Orphan, OwnFile
<1>13. CASE UNCHANGED vars
    BY <1>1, <1>13 DEF vars
<1> QED
    BY <1>3, <1>4, <1>5, <1>6, <1>7, <1>8, <1>9, <1>10, <1>11, <1>12, <1>13 DEF Next

(* The target only ever receives whole, synced files.                      *)
LEMMA TargetWholeStep ==
    TypeInv /\ OwnFile /\ TargetWhole /\ [Next]_vars => TargetWhole'
<1> SUFFICES ASSUME TypeInv, OwnFile, TargetWhole, [Next]_vars PROVE TargetWhole'
    OBVIOUS
<1>0. target \in Seq(Files)
    BY DEF TypeInv, TypeOK
<1>1. CASE target' = target
    BY <1>1 DEF TargetWhole
<1>2. ASSUME NEW t \in Threads, Rename(t) PROVE TargetWhole'
    <2>1. temps[name[t]] = File(call[t], "whole", TRUE)
        BY <1>2 DEF Rename, OwnFile
    <2>2. target' = Append(target, File(call[t], "whole", TRUE))
        BY <1>2, <2>1 DEF Rename
    <2> QED
        BY <1>0, <2>2 DEF TargetWhole, File
<1>3. CASE PowerCut
    <2>1. PICK k \in settled .. Len(target) :
             \/ k = 0 /\ target' = <<>>
             \/ k > 0 /\ \E f \in LessOf(target[k]) :
                            target' = Append(SubSeq(target, 1, k - 1), f)
        BY <1>3 DEF PowerCut
    <2>2. CASE k = 0 /\ target' = <<>>
        BY <2>2 DEF TargetWhole
    <2>3. ASSUME k > 0, NEW f \in LessOf(target[k]),
                 target' = Append(SubSeq(target, 1, k - 1), f)
          PROVE  TargetWhole'
        <3>1. k \in 1 .. Len(target)
            BY <1>0, <2>1, <2>3 DEF TypeInv, TypeOK
        <3>2. f = target[k]
            BY <1>0, <2>3, <3>1, LessTyped DEF TargetWhole
        <3>3. /\ Len(target') = k
              /\ \A i \in 1 .. k : target'[i] = target[i]
            BY <1>0, <2>3, <3>1, <3>2
        <3> QED
            BY <3>1, <3>3, <1>0 DEF TargetWhole
    <2> QED
        BY <2>1, <2>2, <2>3
<1> QED
    BY <1>1, <1>2, <1>3
    DEF Next, vars, Start, Kill, TemporaryPath, Create, WriteAll, WriteAllFails,
        SyncAll, CallFails, RemoveFile, RemoveFileFails, SyncParent, SyncParentFails,
        disk, entries

(***************************************************************************)
(* The inductive invariant, and what follows from it.                      *)
(***************************************************************************)
ReplaceInv == TypeInv /\ NameInv /\ OwnFile /\ TargetWhole

LEMMA ReplaceInvAlways == Spec => []ReplaceInv
<1>1. Init => ReplaceInv
    <2>1. Init => NameInv /\ OwnFile /\ TargetWhole
        BY DEF Init, NameInv, InCall, LivePidsDiffer, NamesDiffer, OwnFile,
               TargetWhole, Running, Open
    <2> QED
        BY <2>1, TypeInvInit DEF ReplaceInv
<1>2. ReplaceInv /\ [Next]_vars => ReplaceInv'
    BY TypeStep, NameStep, OwnFileStep, TargetWholeStep
    DEF ReplaceInv, TypeInv, NameInv
<1> QED
    BY <1>1, <1>2, PTL DEF Spec

(* Every variable keeps its type.                                          *)
THEOREM TypeCorrect == Spec => []TypeOK
<1>1. ReplaceInv => TypeOK
    BY DEF ReplaceInv, TypeInv
<1> QED
    BY <1>1, ReplaceInvAlways, PTL

(* However many threads and processes replace the file at once, whatever   *)
(* dies and whatever fails, a reader finds no file or one whole replacement*)
(* (the rule write_bytes_atomic exists for).                               *)
THEOREM NeverPartial == Spec => []TargetWhole
<1>1. ReplaceInv => TargetWhole
    BY DEF ReplaceInv
<1> QED
    BY <1>1, ReplaceInvAlways, PTL

(* No writer ever renames another writer's bytes into place: COUNTER and   *)
(* the process id keep their temporary names apart.                        *)
THEOREM RenamesOwnBytes == Spec => []OwnBytes
<1>1. ReplaceInv => OwnBytes
    BY DEF ReplaceInv, OwnFile, OwnBytes
<1> QED
    BY <1>1, ReplaceInvAlways, PTL

(***************************************************************************)
(* Durability.                                                             *)
(***************************************************************************)

(* A replacement that was answered Ok with its folder synced is among the  *)
(* renames no power cut can undo, whichever other syncs failed.            *)
THEOREM OkIsDurable == Spec => []OkSurvives
<1>1. Init => OkSurvives
    BY DEF Init, OkSurvives
<1>2. ASSUME ReplaceInv, OkSurvives, [Next]_vars PROVE OkSurvives'
    <2>0. /\ target \in Seq(Files) /\ settled \in 0 .. Len(target)
          /\ answer \in [Calls -> States]
        BY <1>2 DEF ReplaceInv, TypeInv, TypeOK
    <2>1. ASSUME NEW i \in 1 .. Len(target) PROVE target[i].call \in Calls
        <3>1. target[i] \in Files
            BY <2>0
        <3> QED
            BY <3>1 DEF Files
    <2>2. CASE /\ UNCHANGED <<target, settled>>
               /\ \A c \in Calls : answer'[c] = "ok" => answer[c] = "ok"
        BY <1>2, <2>1, <2>2 DEF OkSurvives
    <2>3. ASSUME NEW t \in Threads, Rename(t) PROVE OkSurvives'
        <3>1. call[t] \in Calls /\ temps[name[t]] = File(call[t], "whole", TRUE)
            BY <1>2, <2>3 DEF ReplaceInv, TypeInv, InCall, OwnFile, Rename, Open
        <3>2. /\ target' = Append(target, File(call[t], "whole", TRUE))
              /\ settled' = settled
              /\ answer' = [answer EXCEPT ![call[t]] = "done"]
            BY <2>3, <3>1 DEF Rename, Answered
        <3>3. File(call[t], "whole", TRUE).call = call[t]
            BY DEF File
        <3>4. /\ Len(target') = Len(target) + 1
              /\ target'[Len(target) + 1].call = call[t]
              /\ \A i \in 1 .. Len(target) : target'[i] = target[i]
            <4>1. File(call[t], "whole", TRUE) \in Files
                BY <3>1, FileTyped
            <4>2. target \in Seq(Files) /\ target' = Append(target, File(call[t], "whole", TRUE))
                BY <2>0, <3>2
            <4>3. /\ Len(target') = Len(target) + 1
                  /\ target'[Len(target) + 1] = File(call[t], "whole", TRUE)
                  /\ \A i \in 1 .. Len(target) : target'[i] = target[i]
                BY <4>1, <4>2, Appended
            <4> QED
                BY <3>3, <4>3
        <3>5. answer'[call[t]] = "done"
            BY <2>0, <3>1, <3>2
        <3>6. \A c \in Calls : answer'[c] = "ok" => answer[c] = "ok"
            BY <2>0, <3>2
        <3> SUFFICES ASSUME NEW i \in 1 .. Len(target'), answer'[target'[i].call] = "ok"
                     PROVE  i <= settled'
            BY DEF OkSurvives
        <3>7. i \in 1 .. Len(target)
            BY <2>0, <3>4, <3>5
        <3> QED
            BY <1>2, <2>1, <3>2, <3>4, <3>6, <3>7 DEF OkSurvives
    <2>4. ASSUME NEW t \in Threads, SyncParent(t) PROVE OkSurvives'
        BY <2>0, <2>4 DEF SyncParent, OkSurvives
    <2>5. CASE PowerCut
        <3>1. PICK k \in settled .. Len(target) :
                 /\ settled' = k
                 /\ \/ k = 0 /\ target' = <<>>
                    \/ k > 0 /\ \E f \in LessOf(target[k]) :
                                   target' = Append(SubSeq(target, 1, k - 1), f)
            BY <2>5 DEF PowerCut
        <3>2. Len(target') = k
            BY <2>0, <3>1
        <3> QED
            BY <2>0, <3>1, <3>2 DEF OkSurvives
    <2>6. ASSUME NEW p \in Processes, Start(p) \/ Kill(p) PROVE OkSurvives'
        BY <2>0, <2>2, <2>6 DEF Start, Kill, Orphan, disk, entries
    <2>7. ASSUME NEW t \in Threads,
                 \/ TemporaryPath(t) \/ RemoveFile(t) \/ RemoveFileFails(t)
                 \/ Create(t) \/ WriteAll(t) \/ WriteAllFails(t)
                 \/ SyncAll(t) \/ CallFails(t)
          PROVE  OkSurvives'
        BY <2>0, <2>2, <2>7
        DEF TemporaryPath, RemoveFile, RemoveFileFails, Create, WriteAll, WriteAllFails, SyncAll,
            CallFails, Answered, disk, entries
    <2>8. CASE UNCHANGED vars
        BY <2>2, <2>8 DEF vars
    <2>9. ASSUME NEW t \in Threads, SyncParentFails(t) PROVE OkSurvives'
        BY <2>0, <2>2, <2>9 DEF SyncParentFails, Answered, disk, entries
    <2> QED
        BY <1>2, <2>3, <2>4, <2>5, <2>6, <2>7, <2>8, <2>9 DEF Next
<1> QED
    BY <1>1, <1>2, ReplaceInvAlways, PTL DEF Spec

(***************************************************************************)
(* The atomic register.  Every call that is open or done is in the hands   *)
(* of one thread, and where the thread is says which.                      *)
(***************************************************************************)
Before == {"create", "write", "sync", "rename", "remove"}

CallInv ==
    /\ \A t \in Threads : pc[t] \in Before => answer[call[t]] = "open"
    /\ \A t \in Threads : pc[t] = "syncdir" => answer[call[t]] = "done"
    /\ \A t, u \in Threads :
          t # u /\ pc[t] \in Open /\ pc[u] \in Open => call[t] # call[u]
    /\ \A c \in Calls :
          answer[c] \in {"open", "done"} => \E t \in Threads : pc[t] \in Open /\ call[t] = c

(* A thread's call gets the answer a, and nobody else's call does.         *)
Answers(t, a) ==
    /\ answer'[call[t]] = a
    /\ \A c \in Calls : c # call[t] => answer'[c] = answer[c]

LEMMA AnsweredDoes ==
    ASSUME TypeOK, InCall, NEW t \in Threads, pc[t] \in Open, NEW a, Answered(t, a)
    PROVE  Answers(t, a)
BY DEF Answers, Answered, TypeOK, InCall

(* One thread goes on, and its call with it.                               *)
LEMMA CallStep ==
    ASSUME TypeInv, CallInv, NEW t \in Threads, pc[t] \in Open, NEW l, Goto(t, l), call' = call,
           \/ pc[t] \in Before /\ l \in Before /\ answer' = answer
           \/ pc[t] \in Before /\ l = "syncdir" /\ Answered(t, "done")
           \/ l = "idle" /\ \E a \in {"ok", "unsure", "err", "left"} : Answered(t, a)
    PROVE  CallInv'
<1>0. TypeOK /\ InCall /\ call[t] \in Calls
    BY DEF TypeInv, InCall
<1>1. pc'[t] = l /\ \A u \in Threads : u # t => pc'[u] = pc[u]
    BY <1>0 DEF Goto, TypeOK
<1>2. \A u \in Threads : u # t /\ pc[u] \in Open => call[u] \in Calls /\ call[u] # call[t]
    BY <1>0 DEF CallInv, InCall
<1>3. \A c \in Calls : c # call[t] => answer'[c] = answer[c]
    BY <1>0, AnsweredDoes DEF Answers
<1>4. \/ l \in Before /\ answer'[call[t]] = "open"
      \/ l = "syncdir" /\ answer'[call[t]] = "done"
      \/ l = "idle" /\ answer'[call[t]] \in {"ok", "unsure", "err", "left"}
    BY <1>0, AnsweredDoes DEF Answers, CallInv
<1>5. \A u \in Threads : pc'[u] \in Open => pc[u] \in Open
    BY <1>1
<1>6. \A u \in Threads : pc'[u] \in Before => answer'[call'[u]] = "open"
    BY <1>1, <1>2, <1>3, <1>4 DEF CallInv, Before, Open
<1>7. \A u \in Threads : pc'[u] = "syncdir" => answer'[call'[u]] = "done"
    BY <1>1, <1>2, <1>3, <1>4 DEF CallInv, Before, Open
<1>8. \A u, v \in Threads :
         u # v /\ pc'[u] \in Open /\ pc'[v] \in Open => call'[u] # call'[v]
    BY <1>5 DEF CallInv
<1>9. ASSUME NEW c \in Calls, answer'[c] \in {"open", "done"}
      PROVE  \E u \in Threads : pc'[u] \in Open /\ call'[u] = c
    <2>1. CASE c = call[t]
        BY <1>1, <1>4, <1>9, <2>1 DEF Before, Open
    <2>2. CASE c # call[t]
        <3>1. PICK u \in Threads : pc[u] \in Open /\ call[u] = c
            BY <1>3, <1>9, <2>2 DEF CallInv
        <3> QED
            BY <1>1, <2>2, <3>1
    <2> QED
        BY <2>1, <2>2
<1> QED
    BY <1>6, <1>7, <1>8, <1>9 DEF CallInv

(* Threads stop, and their calls are lost.                                 *)
LEMMA CallsOrphaned ==
    ASSUME TypeInv, CallInv, NEW S \in SUBSET Threads, Orphan(S), call' = call
    PROVE  CallInv'
<1>0. TypeOK /\ InCall
    BY DEF TypeInv
<1>1. \A t \in Threads : /\ t \in S => pc'[t] = "idle"
                         /\ t \notin S => pc'[t] = pc[t]
    BY DEF Orphan
<1>2. \A t \in Threads : pc[t] \in Open <=> pc[t] # "idle"
    BY <1>0 DEF TypeOK, Open
<1>3. \A c \in Calls : \/ answer'[c] = "lost"
                       \/ /\ answer'[c] = answer[c]
                          /\ \A t \in S : pc[t] \in Open => call[t] # c
    BY <1>2 DEF Orphan
<1>4. ASSUME NEW u \in Threads, pc'[u] \in Open
      PROVE  pc'[u] = pc[u] /\ call[u] \in Calls /\ answer'[call[u]] = answer[call[u]]
    <2>1. u \notin S /\ pc'[u] = pc[u] /\ pc[u] \in Open
        BY <1>1, <1>4 DEF Open
    <2>2. call[u] \in Calls
        BY <1>0, <2>1 DEF InCall
    <2>3. \A t \in S : pc[t] \in Open => call[t] # call[u]
        BY <2>1 DEF CallInv
    <2>4. answer'[call[u]] = answer[call[u]]
        BY <1>2, <2>2, <2>3 DEF Orphan
    <2> QED
        BY <2>1, <2>2, <2>4
<1>5. \A u \in Threads : pc'[u] \in Before => answer'[call'[u]] = "open"
    BY <1>4 DEF CallInv, Before, Open
<1>6. \A u \in Threads : pc'[u] = "syncdir" => answer'[call'[u]] = "done"
    BY <1>4 DEF CallInv, Open
<1>7. \A u, v \in Threads :
         u # v /\ pc'[u] \in Open /\ pc'[v] \in Open => call'[u] # call'[v]
    BY <1>4 DEF CallInv
<1>8. ASSUME NEW c \in Calls, answer'[c] \in {"open", "done"}
      PROVE  \E u \in Threads : pc'[u] \in Open /\ call'[u] = c
    <2>1. answer'[c] = answer[c] /\ \A t \in S : pc[t] \in Open => call[t] # c
        BY <1>3, <1>8
    <2>2. PICK u \in Threads : pc[u] \in Open /\ call[u] = c
        BY <1>8, <2>1 DEF CallInv
    <2> QED
        BY <1>1, <2>1, <2>2
<1> QED
    BY <1>5, <1>6, <1>7, <1>8 DEF CallInv

LEMMA CallBegins ==
    ASSUME TypeInv, CallInv, NEW t \in Threads, TemporaryPath(t)
    PROVE  CallInv'
<1>0. TypeOK /\ InCall
    BY DEF TypeInv
<1>1. PICK c \in Calls : /\ answer[c] = "new"
                         /\ call' = [call EXCEPT ![t] = c]
                         /\ answer' = [answer EXCEPT ![c] = "open"]
    BY DEF TemporaryPath, NextCall
<1>2. /\ pc[t] = "idle" /\ pc'[t] = "create" /\ call'[t] = c /\ answer'[c] = "open"
      /\ \A u \in Threads : u # t => pc'[u] = pc[u] /\ call'[u] = call[u]
      /\ \A d \in Calls : d # c => answer'[d] = answer[d]
    BY <1>0, <1>1 DEF TemporaryPath, Goto, TypeOK
<1>3. ASSUME NEW u \in Threads, u # t, pc'[u] \in Open
      PROVE  /\ pc[u] \in Open /\ call[u] \in Calls /\ call[u] # c
             /\ answer'[call'[u]] = answer[call[u]]
    <2>1. pc[u] \in Open /\ call'[u] = call[u] /\ call[u] \in Calls
        BY <1>0, <1>2, <1>3 DEF InCall
    <2>2. answer[call[u]] \in {"open", "done"}
        BY <2>1 DEF CallInv, Open, Before
    <2> QED
        BY <1>1, <1>2, <2>1, <2>2
<1>4. \A u \in Threads : pc'[u] \in Before => answer'[call'[u]] = "open"
    BY <1>2, <1>3 DEF CallInv, Before, Open
<1>5. \A u \in Threads : pc'[u] = "syncdir" => answer'[call'[u]] = "done"
    BY <1>2, <1>3 DEF CallInv, Open
<1>6. \A u, v \in Threads :
         u # v /\ pc'[u] \in Open /\ pc'[v] \in Open => call'[u] # call'[v]
    BY <1>2, <1>3 DEF CallInv
<1>7. \A d \in Calls :
         answer'[d] \in {"open", "done"} => \E u \in Threads : pc'[u] \in Open /\ call'[u] = d
    <2> SUFFICES ASSUME NEW d \in Calls, answer'[d] \in {"open", "done"}
                 PROVE  \E u \in Threads : pc'[u] \in Open /\ call'[u] = d
        OBVIOUS
    <2>1. CASE d = c
        BY <1>2, <2>1 DEF Open
    <2>2. CASE d # c
        <3>1. PICK u \in Threads : pc[u] \in Open /\ call[u] = d
            BY <1>2, <2>2 DEF CallInv
        <3>2. u # t
            BY <1>2, <3>1 DEF Open
        <3> QED
            BY <1>2, <3>1, <3>2
    <2> QED
        BY <2>1, <2>2
<1> QED
    BY <1>4, <1>5, <1>6, <1>7 DEF CallInv

LEMMA CallInvStep == TypeInv /\ CallInv /\ [Next]_vars => CallInv'
<1> SUFFICES ASSUME TypeInv, CallInv, [Next]_vars PROVE CallInv'
    OBVIOUS
<1>1. ASSUME NEW t \in Threads,
             Create(t) \/ WriteAll(t) \/ WriteAllFails(t) \/ SyncAll(t) \/ CallFails(t)
      PROVE  CallInv'
    <2>1. /\ pc[t] \in Open /\ pc[t] \in Before /\ call' = call /\ answer' = answer
          /\ \E l \in Before : Goto(t, l)
        BY <1>1 DEF Create, WriteAll, WriteAllFails, SyncAll, CallFails, Before, Open
    <2> QED
        BY <2>1, CallStep
<1>2. ASSUME NEW t \in Threads, Rename(t) PROVE CallInv'
    BY <1>2, CallStep DEF Rename, Before, Open
<1>3. ASSUME NEW t \in Threads,
             RemoveFile(t) \/ RemoveFileFails(t) \/ SyncParent(t) \/ SyncParentFails(t)
      PROVE  CallInv'
    <2>1. /\ pc[t] \in Open /\ call' = call /\ Goto(t, "idle")
          /\ \E a \in {"ok", "unsure", "err", "left"} : Answered(t, a)
        BY <1>3 DEF RemoveFile, RemoveFileFails, SyncParent, SyncParentFails, Open
    <2> QED
        BY <2>1, CallStep
<1>4. ASSUME NEW t \in Threads, TemporaryPath(t) PROVE CallInv'
    BY <1>4, CallBegins
<1>5. ASSUME NEW p \in Processes, Start(p) PROVE CallInv'
    BY <1>5 DEF Start, CallInv
<1>6. ASSUME NEW p \in Processes, Kill(p) PROVE CallInv'
    <2> DEFINE S == {t \in Threads : ProcessOf[t] = p}
    <2>1. S \in SUBSET Threads /\ Orphan(S) /\ call' = call
        BY <1>6 DEF Kill
    <2> QED
        BY <2>1, CallsOrphaned
<1>7. CASE PowerCut
    <2>1. Threads \in SUBSET Threads /\ Orphan(Threads) /\ call' = call
        BY <1>7 DEF PowerCut
    <2> QED
        BY <2>1, CallsOrphaned
<1>8. CASE UNCHANGED vars
    BY <1>8 DEF vars, CallInv
<1> QED
    BY <1>1, <1>2, <1>3, <1>4, <1>5, <1>6, <1>7, <1>8 DEF Next

(***************************************************************************)
(* The mapping: a rename is the effect, and every other step is the start, *)
(* the answer or the loss of calls, or changes nothing the register has.   *)
(***************************************************************************)
Effects == [i \in 1 .. Len(target) |-> target[i].call]
Shown == [c \in Calls |-> Told(answer[c])]

(* The register sees what the caller is told.                              *)
LEMMA ShownIs ==
    ASSUME NEW c \in Calls
    PROVE  /\ answer[c] \in States \ {"left"} => Shown[c] = answer[c]
           /\ Shown[c] \in {"new", "open", "done", "ok", "lost"} => answer[c] = Shown[c]
BY DEF Shown, Told

LEMMA ShownStep ==
    ASSUME answer \in [Calls -> States], NEW c \in Calls, NEW a,
           answer' = [answer EXCEPT ![c] = a]
    PROVE  Shown' = [Shown EXCEPT ![c] = Told(a)]
BY DEF Shown

LEMMA RegisterStep ==
    ASSUME ReplaceInv, CallInv, OkSurvives, [Next]_vars
    PROVE  Register!Next \/ (Effects' = Effects /\ Shown' = Shown)
<1>0. /\ TypeInv /\ TypeOK /\ InCall /\ OwnFile /\ TargetWhole
      /\ target \in Seq(Files) /\ settled \in 0 .. Len(target) /\ answer \in [Calls -> States]
    BY DEF ReplaceInv, TypeInv, TypeOK
<1>1. ASSUME NEW t \in Threads,
             Create(t) \/ WriteAll(t) \/ WriteAllFails(t) \/ SyncAll(t) \/ CallFails(t)
      PROVE  Effects' = Effects /\ Shown' = Shown
    BY <1>1
    DEF Create, WriteAll, WriteAllFails, SyncAll, CallFails, disk, entries, Effects, Shown
<1>2. ASSUME NEW p \in Processes, Start(p) PROVE Effects' = Effects /\ Shown' = Shown
    BY <1>2 DEF Start, disk, entries, Effects, Shown
<1>3. ASSUME NEW t \in Threads, TemporaryPath(t) PROVE \E c \in Calls : Register!Start(c)
    <2>1. PICK c \in Calls : answer[c] = "new" /\ answer' = [answer EXCEPT ![c] = "open"]
        BY <1>3 DEF TemporaryPath, NextCall
    <2>2. Effects' = Effects
        BY <1>3 DEF TemporaryPath, disk, entries, Effects
    <2>3. Shown[c] = "new" /\ Shown' = [Shown EXCEPT ![c] = "open"]
        BY <1>0, <2>1, ShownIs, ShownStep DEF States, Told
    <2> QED
        BY <2>2, <2>3 DEF Register!Start, Effects, Shown
<1>4. ASSUME NEW t \in Threads, pc[t] \in Open PROVE call[t] \in Calls
    BY <1>0, <1>4 DEF InCall
<1>5. ASSUME NEW t \in Threads, RemoveFile(t) \/ RemoveFileFails(t)
      PROVE  \E c \in Calls : Register!AnswerErr(c)
    <2>1. call[t] \in Calls /\ answer[call[t]] = "open"
        BY <1>4, <1>5 DEF RemoveFile, RemoveFileFails, CallInv, Before, Open
    <2>2. Effects' = Effects
        BY <1>5 DEF RemoveFile, RemoveFileFails, disk, entries, Effects
    <2>3. \E a \in {"err", "left"} : answer' = [answer EXCEPT ![call[t]] = a]
        BY <1>5 DEF RemoveFile, RemoveFileFails, Answered
    <2>4. Shown[call[t]] = "open" /\ Shown' = [Shown EXCEPT ![call[t]] = "err"]
        BY <1>0, <2>1, <2>3, ShownIs, ShownStep DEF States, Told
    <2> QED
        BY <2>1, <2>2, <2>4 DEF Register!AnswerErr, Effects, Shown
<1>6. ASSUME NEW t \in Threads, SyncParent(t) \/ SyncParentFails(t)
      PROVE  \E c \in Calls : Register!AnswerOk(c) \/ Register!AnswerUnsure(c)
    <2>1. call[t] \in Calls /\ answer[call[t]] = "done"
        BY <1>4, <1>6 DEF SyncParent, SyncParentFails, CallInv, Open
    <2>2. Effects' = Effects
        BY <1>6 DEF SyncParent, SyncParentFails, disk, entries, Effects
    <2>3. \/ answer' = [answer EXCEPT ![call[t]] = "ok"]
          \/ answer' = [answer EXCEPT ![call[t]] = "unsure"]
        BY <1>6 DEF SyncParent, SyncParentFails, Answered
    <2>4. /\ Shown[call[t]] = "done"
          /\ \/ Shown' = [Shown EXCEPT ![call[t]] = "ok"]
             \/ Shown' = [Shown EXCEPT ![call[t]] = "unsure"]
        BY <1>0, <2>1, <2>3, ShownIs, ShownStep DEF States, Told
    <2> QED
        BY <2>1, <2>2, <2>4 DEF Register!AnswerOk, Register!AnswerUnsure, Effects, Shown
<1>7. ASSUME NEW t \in Threads, Rename(t) PROVE \E c \in Calls : Register!TakeEffect(c)
    <2> DEFINE f == temps[name[t]]
    <2>1. call[t] \in Calls /\ answer[call[t]] = "open"
        BY <1>4, <1>7 DEF Rename, CallInv, Before, Open
    <2>2. f = File(call[t], "whole", TRUE) /\ f \in Files /\ f.call = call[t]
        <3>1. f = File(call[t], "whole", TRUE)
            BY <1>0, <1>7 DEF Rename, OwnFile
        <3>2. File(call[t], "whole", TRUE) \in Files
            BY <2>1, FileTyped
        <3>3. File(call[t], "whole", TRUE).call = call[t]
            BY DEF File
        <3> QED
            BY <3>1, <3>2, <3>3
    <2>3. target' = Append(target, f) /\ answer' = [answer EXCEPT ![call[t]] = "done"]
        BY <1>7 DEF Rename, Answered
    <2> HIDE DEF f
    <2>4. Effects' = Append(Effects, call[t])
        <3>1. /\ Len(target') = Len(target) + 1 /\ target'[Len(target) + 1] = f
              /\ \A i \in 1 .. Len(target) : target'[i] = target[i]
            <4>1. target \in Seq(Files) /\ f \in Files /\ target' = Append(target, f)
                BY <1>0, <2>2, <2>3
            <4> QED
                BY <4>1, Appended
        <3>2. Len(Effects) = Len(target)
            BY <1>0 DEF Effects
        <3>3. Append(Effects, call[t]) = [i \in 1 .. Len(target) + 1 |->
                                             IF i \in 1 .. Len(target) THEN target[i].call
                                             ELSE call[t]]
            BY <1>0, <3>2 DEF Effects
        <3>4. \A i \in 1 .. Len(target) + 1 :
                 target'[i].call = IF i \in 1 .. Len(target) THEN target[i].call ELSE call[t]
            <4>0. f.call = call[t]
                BY <2>2
            <4>1. Len(target) \in Nat
                BY <1>0
            <4>2. \A i \in 1 .. Len(target) + 1 : i \notin 1 .. Len(target) => i = Len(target) + 1
                BY <4>1
            <4> QED
                BY <3>1, <4>0, <4>1, <4>2
        <3> QED
            BY <3>1, <3>3, <3>4 DEF Effects
    <2>5. Shown[call[t]] = "open" /\ Shown' = [Shown EXCEPT ![call[t]] = "done"]
        BY <1>0, <2>1, <2>3, ShownIs, ShownStep DEF States, Told
    <2> QED
        BY <2>1, <2>4, <2>5 DEF Register!TakeEffect, Effects, Shown
<1>8. ASSUME NEW S \in SUBSET Threads, Orphan(S)
      PROVE  \E D \in SUBSET {c \in Calls : Shown[c] \in {"open", "done"}} :
                /\ Shown' = [c \in Calls |-> IF c \in D THEN "lost" ELSE Shown[c]]
                /\ S = Threads => D = {c \in Calls : Shown[c] \in {"open", "done"}}
    <2> DEFINE D == {c \in Calls : \E t \in S : pc[t] # "idle" /\ call[t] = c}
    <2>1. \A t \in Threads : pc[t] # "idle" <=> pc[t] \in Open
        BY <1>0 DEF TypeOK, Open
    <2>2. \A t \in Threads : pc[t] \in Open => answer[call[t]] \in {"open", "done"}
        BY DEF CallInv, Open, Before
    <2>3. \A c \in Calls : answer[c] \in {"open", "done"} <=> Shown[c] \in {"open", "done"}
        BY <1>0, ShownIs DEF States
    <2>6. D \in SUBSET {c \in Calls : Shown[c] \in {"open", "done"}}
        BY <2>1, <2>2, <2>3
    <2>4. Shown' = [c \in Calls |-> IF c \in D THEN "lost" ELSE Shown[c]]
        BY <1>8 DEF Orphan, Shown, Told
    <2>5. S = Threads => D = {c \in Calls : Shown[c] \in {"open", "done"}}
        BY <2>1, <2>3, <2>6 DEF CallInv
    <2> HIDE DEF D
    <2> QED
        BY <2>4, <2>5, <2>6
<1>9. ASSUME NEW p \in Processes, Kill(p)
      PROVE  Register!Die \/ (Effects' = Effects /\ Shown' = Shown)
    <2> DEFINE S == {t \in Threads : ProcessOf[t] = p}
    <2>1. S \in SUBSET Threads /\ Orphan(S)
        BY <1>9 DEF Kill
    <2>2. PICK D \in SUBSET {c \in Calls : Shown[c] \in {"open", "done"}} :
             Shown' = [c \in Calls |-> IF c \in D THEN "lost" ELSE Shown[c]]
        BY <1>8, <2>1
    <2>3. Effects' = Effects
        BY <1>9 DEF Kill, disk, entries, Effects
    <2>4. CASE D = {}
        BY <2>2, <2>3, <2>4 DEF Shown
    <2>5. CASE D # {}
        BY <2>2, <2>3, <2>5 DEF Register!Die, Register!Orphaned, Effects, Shown
    <2> QED
        BY <2>4, <2>5
<1>10. CASE PowerCut
    <2>1. PICK k \in settled .. Len(target) :
             \/ k = 0 /\ target' = <<>>
             \/ k > 0 /\ \E f \in LessOf(target[k]) :
                            target' = Append(SubSeq(target, 1, k - 1), f)
        BY <1>10 DEF PowerCut
    <2>2. k \in 0 .. Len(target) /\ settled <= k
        BY <1>0, <2>1
    <2>3. Len(target') = k /\ \A i \in 1 .. k : target'[i] = target[i]
        <3>1. CASE k = 0 /\ target' = <<>>
            BY <3>1
        <3>2. ASSUME k > 0, NEW f \in LessOf(target[k]),
                     target' = Append(SubSeq(target, 1, k - 1), f)
              PROVE  Len(target') = k /\ \A i \in 1 .. k : target'[i] = target[i]
            <4>1. k \in 1 .. Len(target)
                BY <2>2, <3>2
            <4>2. f = target[k]
                BY <1>0, <3>2, <4>1, LessTyped DEF TargetWhole
            <4> QED
                BY <1>0, <3>2, <4>1, <4>2
        <3> QED
            BY <2>1, <3>1, <3>2
    <2>4. Effects' = [i \in 1 .. k |-> target[i].call]
        BY <2>3 DEF Effects
    <2>5. Len(Effects) = Len(target)
        BY <1>0 DEF Effects
    <2>6. SubSeq(Effects, 1, k) = [i \in 1 .. k |-> target[i].call]
        BY <1>0, <2>2, <2>5 DEF Effects
    <2>7. \A i \in k + 1 .. Len(Effects) : Shown[Effects[i]] # "ok"
        <3>1. ASSUME NEW i \in k + 1 .. Len(Effects) PROVE Shown[Effects[i]] # "ok"
            <4>1. i \in 1 .. Len(target) /\ Effects[i] = target[i].call /\ target[i] \in Files
                BY <1>0, <2>2, <2>5 DEF Effects
            <4>2. Effects[i] \in Calls
                BY <4>1 DEF Files
            <4>3. answer[Effects[i]] # "ok"
                BY <1>0, <2>2, <3>1, <4>1 DEF OkSurvives
            <4> QED
                BY <4>2, <4>3, ShownIs
        <3> QED
            BY <3>1
    <2>8. Shown' = [c \in Calls |-> IF c \in {d \in Calls : Shown[d] \in {"open", "done"}}
                                    THEN "lost" ELSE Shown[c]]
        <3>1. Threads \in SUBSET Threads /\ Orphan(Threads)
            BY <1>10 DEF PowerCut
        <3> QED
            BY <1>8, <3>1
    <2>9. Register!PowerCut
        BY <2>2, <2>4, <2>5, <2>6, <2>7, <2>8 DEF Register!PowerCut, Register!Orphaned, Effects, Shown
    <2> QED
        BY <2>9 DEF Register!Next
<1>11. CASE UNCHANGED vars
    BY <1>11 DEF vars, Effects, Shown
<1> QED
    BY <1>1, <1>2, <1>3, <1>5, <1>6, <1>7, <1>9, <1>10, <1>11 DEF Next, Register!Next

(* Replacing a file is atomic and durable as the register says: a call has *)
(* its effect at its rename or never, a call that returned an error had    *)
(* none, and a power cut undoes the latest effects only and none that was  *)
(* answered Ok with the folder synced (the rules at the head of atomic.rs).*)
THEOREM ReplacingIsAtomic == Spec => AtomicAndDurable
<1>1. Init => Register!Init
    BY DEF Init, Register!Init, Told
<1>2. Init => CallInv
    BY DEF Init, CallInv, Open, Before
<1>3. TypeInv /\ CallInv /\ [Next]_vars => CallInv'
    BY CallInvStep
<1>4. ReplaceInv => TypeInv
    BY DEF ReplaceInv
<1>5. ReplaceInv /\ CallInv /\ OkSurvives /\ [Next]_vars =>
         [Register!Next]_<<[i \in 1 .. Len(target) |-> target[i].call],
                           [c \in Calls |-> Told(answer[c])]>>
    BY RegisterStep DEF Effects, Shown
<1> QED
    BY <1>1, <1>2, <1>3, <1>4, <1>5, ReplaceInvAlways, OkIsDurable, PTL
    DEF Spec, AtomicAndDurable, Register!Spec

(***************************************************************************)
(* The temporary files.  One that is there was written by the thread that  *)
(* is busy with it, or by a call that has its answer and left it, or is    *)
(* lost, or had it given back; and a name that was taken from the folder   *)
(* and can come back is of a call that was not answered "ok".              *)
(***************************************************************************)
Busy == {"write", "sync", "rename", "remove"}
Final == {"unsure", "err", "left", "lost"}
HeldBy(n, t) == pc[t] \in Busy /\ name[t] = n /\ call[t] = temps[n].call
Excuse(a, returned) ==
    \/ a \in {"lost", "left"}
    \/ returned /\ a \in Final

TempsHeld ==
    \A n \in DOMAIN temps : \/ Excuse(answer[temps[n].call], temps[n].call \in back)
                            \/ \E t \in Threads : HeldBy(n, t)
GoneAnswered == \A e \in gone : answer[e[2]] \in Final \union {"done"}

LitterInv == TempsHeld /\ GoneAnswered

(* An answer is never changed, and a call that is done is answered "ok"    *)
(* only when its folder was synced.                                        *)
LEMMA AnswersStay ==
    ASSUME TypeInv, CallInv, [Next]_vars, NEW c \in Calls
    PROVE  /\ answer[c] \in Final => answer'[c] = answer[c]
           /\ answer[c] \in Final \union {"done"} =>
                 answer'[c] \in Final \union {"done"} \/ gone' = {}
<1>0. TypeOK /\ InCall
    BY DEF TypeInv
<1>1. ASSUME NEW t \in Threads, pc[t] \in Open
      PROVE  call[t] \in Calls /\ answer[call[t]] \in {"open", "done"}
    BY <1>0, <1>1 DEF CallInv, InCall, Open, Before
<1>2. ASSUME NEW t \in Threads,
             \/ Rename(t) \/ RemoveFile(t) \/ RemoveFileFails(t)
             \/ SyncParent(t) \/ SyncParentFails(t)
      PROVE  /\ pc[t] \in Open
             /\ \/ \E a \in Final \union {"done"} : Answers(t, a)
                \/ gone' = {} /\ Answers(t, "ok")
    <2>1. pc[t] \in Open
        BY <1>2 DEF Rename, RemoveFile, RemoveFileFails, SyncParent, SyncParentFails, Open
    <2>2. \/ \E a \in Final \union {"done"} : Answered(t, a)
          \/ gone' = {} /\ Answered(t, "ok")
        BY <1>2
        DEF Rename, RemoveFile, RemoveFileFails, SyncParent, SyncParentFails, Final
    <2> QED
        BY <1>0, <2>1, <2>2, AnsweredDoes
<1>3. ASSUME NEW t \in Threads,
             \/ Rename(t) \/ RemoveFile(t) \/ RemoveFileFails(t)
             \/ SyncParent(t) \/ SyncParentFails(t)
      PROVE  /\ answer[c] \in Final => answer'[c] = answer[c]
             /\ answer[c] \in Final \union {"done"} =>
                   answer'[c] \in Final \union {"done"} \/ gone' = {}
    BY <1>1, <1>2, <1>3 DEF Answers, Final
<1>4. ASSUME NEW t \in Threads, TemporaryPath(t)
      PROVE  answer[c] # "new" => answer'[c] = answer[c]
    BY <1>0, <1>4 DEF TemporaryPath, NextCall, TypeOK
<1>5. ASSUME NEW S, Orphan(S), S \subseteq Threads
      PROVE  /\ answer[c] \in Final => answer'[c] = answer[c]
             /\ answer[c] = "done" => answer'[c] \in {"done", "lost"}
    <2>1. \A t \in Threads : pc[t] # "idle" => pc[t] \in Open
        BY <1>0 DEF TypeOK
    <2> QED
        BY <1>1, <1>5, <2>1 DEF Orphan, Final
<1>6. ASSUME NEW p \in Processes, Kill(p)
      PROVE  /\ answer[c] \in Final => answer'[c] = answer[c]
             /\ answer[c] = "done" => answer'[c] \in {"done", "lost"}
    <2>1. Orphan({t \in Threads : ProcessOf[t] = p})
        BY <1>6 DEF Kill
    <2> QED
        BY <1>5, <2>1
<1>7. CASE PowerCut
    <2>1. Orphan(Threads)
        BY <1>7 DEF PowerCut
    <2> QED
        BY <1>5, <2>1 DEF Final
<1>8. CASE answer' = answer
    BY <1>8
<1>9. CASE \E t \in Threads :
              \/ Create(t) \/ WriteAll(t) \/ WriteAllFails(t) \/ SyncAll(t) \/ CallFails(t)
    BY <1>8, <1>9 DEF Create, WriteAll, WriteAllFails, SyncAll, CallFails
<1>10. CASE UNCHANGED vars \/ \E p \in Processes : Start(p)
    BY <1>8, <1>10 DEF vars, Start
<1> QED
    BY <1>3, <1>4, <1>6, <1>7, <1>9, <1>10 DEF Next, Final

(* An excuse holds for good.                                               *)
LEMMA ExcusedStays ==
    ASSUME TypeInv, CallInv, [Next]_vars, back \subseteq back',
           NEW c \in Calls, Excuse(answer[c], c \in back)
    PROVE  Excuse(answer'[c], c \in back')
BY AnswersStay DEF Excuse, Final

(* Threads stop, and the temporary files are those that were there.        *)
LEMMA HeldUntilLost ==
    ASSUME TypeInv, CallInv, TempsHeld, [Next]_vars, back' = back, UNCHANGED <<name, call>>,
           NEW S \in SUBSET Threads, Orphan(S), temps' = temps
    PROVE  TempsHeld'
<1> SUFFICES ASSUME NEW n \in DOMAIN temps
             PROVE  \/ Excuse(answer'[temps[n].call], temps[n].call \in back')
                    \/ \E t \in Threads : HeldBy(n, t)'
    BY DEF TempsHeld, Excuse, HeldBy
<1>0. TypeOK
    BY DEF TypeInv
<1>1. temps[n].call \in Calls
    <2>1. temps[n] \in Files
        BY <1>0 DEF TypeOK
    <2> QED
        BY <2>1 DEF Files
<1>2. CASE Excuse(answer[temps[n].call], temps[n].call \in back)
    <2> DEFINE c == temps[n].call
    <2>1. Excuse(answer'[c], c \in back')
        <3>1. answer[c] \in Final => answer'[c] = answer[c]
            BY <1>1, AnswersStay
        <3> QED
            BY <1>2, <3>1 DEF Excuse, Final
    <2> QED
        BY <2>1
<1>3. ASSUME NEW t \in Threads, HeldBy(n, t)
      PROVE  \/ Excuse(answer'[temps[n].call], temps[n].call \in back')
             \/ \E u \in Threads : HeldBy(n, u)'
    <2>1. pc[t] \in Busy /\ pc[t] # "idle" /\ name[t] = n /\ call[t] = temps[n].call
        BY <1>3 DEF HeldBy, Busy
    <2>2. CASE t \in S
        <3>1. answer'[temps[n].call] = "lost"
            BY <1>1, <2>1, <2>2 DEF Orphan
        <3> QED
            BY <3>1 DEF Excuse
    <2>3. CASE t \notin S
        <3>1. pc'[t] = pc[t]
            BY <2>3 DEF Orphan
        <3> QED
            BY <2>1, <3>1 DEF HeldBy
    <2> QED
        BY <2>2, <2>3
<1> QED
    BY <1>2, <1>3 DEF TempsHeld

(* The power goes: what is under a temporary name afterwards was there, or *)
(* was taken from the folder and is given back.                            *)
LEMMA LitterAfterPowerCut ==
    ASSUME TypeInv, CallInv, LitterInv, PowerCut
    PROVE  LitterInv'
<1>0. TypeOK /\ Orphan(Threads) /\ gone' = {}
    BY DEF TypeInv, PowerCut
<1>1. PICK N \in SUBSET {e[1] : e \in Reappear(settled')} : \E of \in [N -> Calls] :
         /\ \A n \in N : <<n, of[n]>> \in Reappear(settled')
         /\ temps' = [n \in N |-> Leftover(of[n])]
         /\ back' = back \union {of[n] : n \in {m \in N : <<m, of[m]>> \in gone}}
    BY PowerCutReturns
<1>2. PICK of \in [N -> Calls] :
         /\ \A n \in N : <<n, of[n]>> \in Reappear(settled')
         /\ temps' = [n \in N |-> Leftover(of[n])]
         /\ back' = back \union {of[n] : n \in {m \in N : <<m, of[m]>> \in gone}}
    BY <1>1
<1>3. ASSUME NEW c \in Calls
      PROVE  /\ answer[c] \in Final => answer'[c] = answer[c]
             /\ answer[c] \in {"open", "done"} => answer'[c] = "lost"
    <2>1. Next
        BY DEF Next
    <2>2. answer[c] \in Final => answer'[c] = answer[c]
        BY <2>1, AnswersStay
    <2>3. ASSUME answer[c] \in {"open", "done"} PROVE answer'[c] = "lost"
        <3>1. PICK t \in Threads : pc[t] \in Open /\ call[t] = c
            BY <2>3 DEF CallInv
        <3>2. pc[t] # "idle"
            BY <3>1 DEF Open
        <3> QED
            BY <1>0, <3>1, <3>2 DEF Orphan
    <2> QED
        BY <2>2, <2>3
<1>4. ASSUME NEW n \in N PROVE Excuse(answer'[of[n]], of[n] \in back')
    <2>1. of[n] \in Calls /\ <<n, of[n]>> \in Reappear(settled')
        BY <1>2
    <2>2. CASE n \in DOMAIN temps /\ of[n] = temps[n].call
        <3>1. Excuse(answer[of[n]], of[n] \in back) => Excuse(answer'[of[n]], of[n] \in back')
            BY <1>2, <1>3, <2>1 DEF Excuse, Final
        <3>2. ASSUME NEW t \in Threads, HeldBy(n, t) PROVE answer'[of[n]] = "lost"
            <4>1. pc[t] \in Before /\ call[t] = of[n]
                BY <2>2, <3>2 DEF HeldBy, Busy, Before
            <4> QED
                BY <1>3, <2>1, <4>1 DEF CallInv
        <3> QED
            BY <2>2, <3>1, <3>2 DEF LitterInv, TempsHeld, Excuse
    <2>3. CASE <<n, of[n]>> \in gone
        <3>1. of[n] \in back'
            BY <1>2, <2>3
        <3>2. answer[of[n]] \in Final \union {"done"}
            <4>1. \A e \in gone : answer[e[2]] \in Final \union {"done"}
                BY DEF LitterInv, GoneAnswered
            <4> QED
                BY <2>3, <4>1
        <3>3. answer'[of[n]] \in Final
            BY <1>3, <2>1, <3>2 DEF Final
        <3> QED
            BY <3>1, <3>3 DEF Excuse
    <2>4. \/ n \in DOMAIN temps /\ of[n] = temps[n].call
          \/ <<n, of[n]>> \in gone
        BY <2>1 DEF Reappear
    <2> QED
        BY <2>2, <2>3, <2>4
<1>5. TempsHeld'
    <2>1. ASSUME NEW n \in DOMAIN temps'
          PROVE  Excuse(answer'[temps'[n].call], temps'[n].call \in back')
        <3>1. n \in N /\ temps'[n] = Leftover(of[n])
            BY <1>2
        <3>2. temps'[n].call = of[n]
            BY <3>1 DEF Leftover, File
        <3> QED
            BY <1>4, <3>1, <3>2
    <2> QED
        BY <2>1 DEF TempsHeld
<1>6. GoneAnswered'
    BY <1>0 DEF GoneAnswered
<1> QED
    BY <1>5, <1>6 DEF LitterInv

LEMMA GoneAnsweredStep ==
    ASSUME TypeInv, NameInv, OwnFile, CallInv, LitterInv, [Next]_vars, ~PowerCut
    PROVE  GoneAnswered'
<1>0. TypeOK /\ InCall /\ NamesDiffer
    BY DEF TypeInv, NameInv
<1>1. \A e \in gone : e[2] \in Calls /\ answer[e[2]] \in Final \union {"done"}
    BY <1>0 DEF TypeOK, LitterInv, GoneAnswered
<1>2. \A c \in Calls : answer[c] \in Final \union {"done"} =>
                          answer'[c] \in Final \union {"done"} \/ gone' = {}
    BY AnswersStay
<1>3. CASE gone' \subseteq gone
    <2>1. \A e \in gone' : answer'[e[2]] \in Final \union {"done"}
        BY <1>1, <1>2, <1>3
    <2> QED
        BY <2>1 DEF GoneAnswered
<1>4. ASSUME NEW t \in Threads, Rename(t) \/ RemoveFile(t) PROVE GoneAnswered'
    <2>1. pc[t] \in Open /\ pc[t] \in Busy /\ call[t] \in Calls
        BY <1>0, <1>4 DEF Rename, RemoveFile, Open, Busy, InCall
    <2>2. /\ DropTemp(t)
          /\ \E a \in {"err", "done"} : Answered(t, a)
        BY <1>4 DEF Rename, RemoveFile
    <2>3. answer'[call[t]] \in {"err", "done"}
        BY <1>0, <2>1, <2>2, AnsweredDoes DEF Answers
    <2>4. ASSUME name[t] \in DOMAIN temps
          PROVE  answer'[temps[name[t]].call] \in Final \union {"done"}
        <3>1. temps[name[t]].call \in Calls
            <4>1. temps[name[t]] \in Files
                BY <1>0, <2>4 DEF TypeOK
            <4> QED
                BY <4>1 DEF Files
        <3>2. CASE Excuse(answer[temps[name[t]].call], temps[name[t]].call \in back)
            BY <3>1, <3>2, AnswersStay DEF Excuse, Final
        <3>3. ASSUME NEW u \in Threads, HeldBy(name[t], u) PROVE temps[name[t]].call = call[t]
            <4>1. pc[u] \in Open /\ name[u] = name[t] /\ call[u] = temps[name[t]].call
                BY <3>3 DEF HeldBy, Busy, Open
            <4>2. u = t
                BY <1>0, <2>1, <4>1 DEF NamesDiffer
            <4> QED
                BY <4>1, <4>2
        <3>4. CASE temps[name[t]].call = call[t]
            BY <2>3, <3>4 DEF Final
        <3> QED
            BY <2>4, <3>2, <3>3, <3>4 DEF LitterInv, TempsHeld
    <2>5. ASSUME NEW e \in gone' PROVE answer'[e[2]] \in Final \union {"done"}
        <3>1. CASE e \in gone
            BY <1>1, <1>2, <2>5, <3>1
        <3>2. CASE name[t] \in DOMAIN temps /\ e = <<name[t], temps[name[t]].call>>
            BY <2>4, <3>2
        <3> QED
            BY <2>2, <2>5, <3>1, <3>2, DropTempDoes
    <2> QED
        BY <2>5 DEF GoneAnswered
<1>5. ASSUME NEW t \in Threads, SyncParent(t) PROVE gone' \subseteq gone
    BY <1>5 DEF SyncParent
<1>6. ASSUME NEW t \in Threads,
             \/ TemporaryPath(t) \/ Create(t) \/ WriteAll(t) \/ WriteAllFails(t) \/ SyncAll(t)
             \/ CallFails(t) \/ RemoveFileFails(t) \/ SyncParentFails(t)
      PROVE  gone' \subseteq gone
    BY <1>6
    DEF TemporaryPath, Create, WriteAll, WriteAllFails, SyncAll, CallFails,
        RemoveFileFails, SyncParentFails, disk, entries
<1>7. ASSUME NEW p \in Processes, Start(p) \/ Kill(p) PROVE gone' \subseteq gone
    BY <1>7 DEF Start, Kill, disk, entries
<1>8. CASE UNCHANGED vars
    BY <1>3, <1>8 DEF vars
<1> QED
    BY <1>3, <1>4, <1>5, <1>6, <1>7, <1>8 DEF Next

LEMMA TempsHeldStep ==
    ASSUME TypeInv, NameInv, OwnFile, CallInv, LitterInv, [Next]_vars, ~PowerCut
    PROVE  TempsHeld'
<1>0. TypeOK /\ InCall /\ NamesDiffer /\ TempsHeld
    BY DEF TypeInv, NameInv, LitterInv
<1>1. \A n \in DOMAIN temps : temps[n].call \in Calls
    <2>1. \A n \in DOMAIN temps : temps[n] \in Files
        BY <1>0 DEF TypeOK
    <2> QED
        BY <2>1 DEF Files
<1>2. \A c \in Calls :
         Excuse(answer[c], c \in back) /\ back' = back => Excuse(answer'[c], c \in back')
    BY ExcusedStays
<1>3. ASSUME NEW t \in Threads, pc[t] \in Open, NEW f \in Files, f.call = call[t],
             SetTemp(t, f), UNCHANGED <<name, call, back>>,
             pc'[t] \in Busy, \A u \in Threads : u # t => pc'[u] = pc[u]
      PROVE  TempsHeld'
    <2> SUFFICES ASSUME NEW n \in DOMAIN temps'
                 PROVE  \/ Excuse(answer'[temps'[n].call], temps'[n].call \in back')
                        \/ \E u \in Threads : HeldBy(n, u)'
        BY DEF TempsHeld, Excuse, HeldBy
    <2>1. CASE n = name[t]
        <3>1. temps'[n] = f
            BY <1>3, <2>1, SetTempDoes
        <3> QED
            BY <1>3, <2>1, <3>1 DEF HeldBy
    <2>2. CASE n # name[t]
        <3>0. /\ DOMAIN temps' = DOMAIN temps \union {name[t]}
              /\ \A m \in DOMAIN temps : m # name[t] => temps'[m] = temps[m]
            BY <1>3, SetTempDoes
        <3>1. n \in DOMAIN temps /\ temps'[n] = temps[n]
            BY <2>2, <3>0
        <3>2. CASE Excuse(answer[temps[n].call], temps[n].call \in back)
            BY <1>1, <1>2, <1>3, <3>1, <3>2 DEF Excuse
        <3>3. ASSUME NEW u \in Threads, HeldBy(n, u) PROVE HeldBy(n, u)'
            BY <1>3, <2>2, <3>1, <3>3 DEF HeldBy
        <3> QED
            BY <1>0, <3>1, <3>2, <3>3 DEF TempsHeld
    <2> QED
        BY <2>1, <2>2
<1>4. ASSUME NEW t \in Threads, DropTemp(t), UNCHANGED <<name, call, back>>,
             \A u \in Threads : u # t => pc'[u] = pc[u]
      PROVE  TempsHeld'
    <2> SUFFICES ASSUME NEW n \in DOMAIN temps'
                 PROVE  \/ Excuse(answer'[temps'[n].call], temps'[n].call \in back')
                        \/ \E u \in Threads : HeldBy(n, u)'
        BY DEF TempsHeld, Excuse, HeldBy
    <2>1. n \in DOMAIN temps /\ n # name[t] /\ temps'[n] = temps[n]
        BY <1>4, DropTempDoes
    <2>2. CASE Excuse(answer[temps[n].call], temps[n].call \in back)
        BY <1>1, <1>2, <1>4, <2>1, <2>2 DEF Excuse
    <2>3. ASSUME NEW u \in Threads, HeldBy(n, u) PROVE HeldBy(n, u)'
        BY <1>4, <2>1, <2>3 DEF HeldBy
    <2> QED
        BY <1>0, <2>1, <2>2, <2>3 DEF TempsHeld
<1>5. ASSUME UNCHANGED <<temps, back>>,
             \A t \in Threads : pc[t] \in Busy =>
                /\ pc'[t] \in Busy /\ name'[t] = name[t] /\ call'[t] = call[t]
      PROVE  TempsHeld'
    <2> SUFFICES ASSUME NEW n \in DOMAIN temps
                 PROVE  \/ Excuse(answer'[temps[n].call], temps[n].call \in back')
                        \/ \E u \in Threads : HeldBy(n, u)'
        BY <1>5 DEF TempsHeld, Excuse, HeldBy
    <2>1. CASE Excuse(answer[temps[n].call], temps[n].call \in back)
        BY <1>1, <1>2, <1>5, <2>1 DEF Excuse
    <2>2. ASSUME NEW u \in Threads, HeldBy(n, u) PROVE HeldBy(n, u)'
        BY <1>5, <2>2 DEF HeldBy
    <2> QED
        BY <1>0, <2>1, <2>2 DEF TempsHeld
<1>6. ASSUME NEW t \in Threads, Create(t) \/ WriteAll(t) \/ WriteAllFails(t) \/ SyncAll(t)
      PROVE  TempsHeld'
    <2>1. /\ pc[t] \in Open /\ UNCHANGED <<name, call, back>>
          /\ pc'[t] \in Busy /\ \A u \in Threads : u # t => pc'[u] = pc[u]
        BY <1>0, <1>6
        DEF Create, WriteAll, WriteAllFails, SyncAll, Goto, TypeOK, Open, Busy, entries
    <2>2. call[t] \in Calls
        BY <1>0, <2>1 DEF InCall
    <2>3. \A p \in {"empty", "torn", "whole"}, s \in BOOLEAN :
             File(call[t], p, s) \in Files /\ File(call[t], p, s).call = call[t]
        BY <2>2, FileTyped DEF File
    <2>4. \E f \in Files : f.call = call[t] /\ SetTemp(t, f)
        <3>1. CASE Create(t) \/ WriteAll(t) \/ WriteAllFails(t)
            BY <2>3, <3>1 DEF Create, WriteAll, WriteAllFails
        <3>2. CASE SyncAll(t)
            <4>1. temps[name[t]] = File(call[t], "whole", FALSE)
                BY <3>2 DEF SyncAll, OwnFile
            <4>2. Synced(File(call[t], "whole", FALSE)) = File(call[t], "whole", TRUE)
                BY DEF Synced, File
            <4> QED
                BY <2>3, <3>2, <4>1, <4>2 DEF SyncAll
        <3> QED
            BY <1>6, <3>1, <3>2
    <2> QED
        BY <1>3, <2>1, <2>4
<1>7. ASSUME NEW t \in Threads, Rename(t) \/ RemoveFile(t) PROVE TempsHeld'
    BY <1>0, <1>4, <1>7 DEF Rename, RemoveFile, Goto, TypeOK
<1>8. ASSUME NEW t \in Threads,
             TemporaryPath(t) \/ CallFails(t) \/ SyncParent(t) \/ SyncParentFails(t)
      PROVE  TempsHeld'
    BY <1>0, <1>5, <1>8
    DEF TemporaryPath, CallFails, SyncParent, SyncParentFails, Goto, TypeOK, disk, entries, Busy
<1>13. ASSUME NEW t \in Threads, RemoveFileFails(t) PROVE TempsHeld'
    <2>1. /\ pc[t] = "remove" /\ pc[t] \in Open /\ UNCHANGED <<temps, back, name, call>>
          /\ \A u \in Threads : u # t => pc'[u] = pc[u]
          /\ Answered(t, "left")
        BY <1>0, <1>13 DEF RemoveFileFails, Goto, TypeOK, disk, entries, Open
    <2>2. answer'[call[t]] = "left"
        BY <1>0, <2>1, AnsweredDoes DEF Answers
    <2> SUFFICES ASSUME NEW n \in DOMAIN temps
                 PROVE  \/ Excuse(answer'[temps[n].call], temps[n].call \in back')
                        \/ \E u \in Threads : HeldBy(n, u)'
        BY <2>1 DEF TempsHeld, Excuse, HeldBy
    <2>3. CASE Excuse(answer[temps[n].call], temps[n].call \in back)
        BY <1>1, <1>2, <2>1, <2>3 DEF Excuse
    <2>4. ASSUME NEW u \in Threads, HeldBy(n, u)
          PROVE  \/ Excuse(answer'[temps[n].call], temps[n].call \in back')
                 \/ HeldBy(n, u)'
        BY <2>1, <2>2, <2>4 DEF HeldBy, Excuse
    <2> QED
        BY <1>0, <2>3, <2>4 DEF TempsHeld
<1>9. ASSUME NEW p \in Processes, Start(p) PROVE TempsHeld'
    BY <1>5, <1>9 DEF Start, disk, entries
<1>10. ASSUME NEW p \in Processes, Kill(p) PROVE TempsHeld'
    <2> DEFINE S == {t \in Threads : ProcessOf[t] = p}
    <2>1. S \in SUBSET Threads /\ Orphan(S) /\ UNCHANGED <<temps, back, name, call>>
        BY <1>10 DEF Kill, disk, entries
    <2> QED
        BY <1>0, <2>1, HeldUntilLost
<1>12. CASE UNCHANGED vars
    BY <1>5, <1>12 DEF vars
<1> QED
    BY <1>6, <1>7, <1>8, <1>9, <1>10, <1>12, <1>13 DEF Next

(* A temporary file that nobody is busy with is of a call that died with   *)
(* its process, that could not remove it, or that a power cut gave it back *)
(* to; a call answered Ok with its folder synced never leaves one.         *)
THEOREM LeavesOnlyExcusedLitter == Spec => []NoLitter
<1>1. Init => CallInv /\ LitterInv
    BY DEF Init, CallInv, LitterInv, TempsHeld, GoneAnswered, Open, Before
<1>2. TypeInv /\ CallInv /\ [Next]_vars => CallInv'
    BY CallInvStep
<1>3. TypeInv /\ NameInv /\ OwnFile /\ CallInv /\ LitterInv /\ [Next]_vars => LitterInv'
    <2>1. CASE PowerCut
        BY <2>1, LitterAfterPowerCut
    <2>2. CASE ~PowerCut
        BY <2>2, GoneAnsweredStep, TempsHeldStep DEF LitterInv
    <2> QED
        BY <2>1, <2>2
<1>4. ReplaceInv => TypeInv /\ NameInv /\ OwnFile
    BY DEF ReplaceInv
<1>5. CallInv /\ LitterInv => NoLitter
    <2> SUFFICES ASSUME CallInv, LitterInv, NEW n \in DOMAIN temps
                 PROVE  /\ answer[temps[n].call] # "ok"
                        /\ \/ answer[temps[n].call] \in {"lost", "left"}
                           \/ temps[n].call \in back
                           \/ \E t \in Threads : pc[t] \in Busy /\ name[t] = n
        BY DEF NoLitter, Busy
    <2>1. CASE Excuse(answer[temps[n].call], temps[n].call \in back)
        BY <2>1 DEF Excuse, Final
    <2>2. ASSUME NEW t \in Threads, HeldBy(n, t)
          PROVE  /\ answer[temps[n].call] # "ok"
                 /\ pc[t] \in Busy /\ name[t] = n
        BY <2>2 DEF HeldBy, Busy, CallInv, Before
    <2> QED
        BY <2>1, <2>2 DEF LitterInv, TempsHeld
<1> QED
    BY <1>1, <1>2, <1>3, <1>4, <1>5, ReplaceInvAlways, PTL DEF Spec
=============================================================================
