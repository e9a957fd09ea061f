-------------------------------- MODULE Vault --------------------------------
(***************************************************************************)
(* The vault: windows that take its lock (crates/store/src/lock.rs and     *)
(* Session::open_in of crates/ui/src/session.rs), the operations of        *)
(* crates/store/src/vault.rs that write to it, and the faults that can     *)
(* interrupt them.                                                         *)
(*                                                                         *)
(* An operation is the sequence of its primitive steps, in the order the   *)
(* code makes the calls; a step that fails returns the error at once, so   *)
(* the rest of the sequence is dropped and nothing is undone.  Torn lines  *)
(* are the matter of AppendLog, temporary files that of AtomicReplace.     *)
(*                                                                         *)
(* What is in a file is one thing, the file's name in its folder another.  *)
(* The vault is new: nothing ever syncs the folders of its logs, nor the   *)
(* root that holds documents/, so a power cut can take a log, or the whole *)
(* of documents/, until one has left it in its place.  The sync of         *)
(* documents/ after a rename can fail, and sync_parent drops the failure.  *)
(*                                                                         *)
(* Operations are numbered; the number stands for everything that tells    *)
(* one record from another: the invoice, the obligation, the time stamp.   *)
(***************************************************************************)
EXTENDS Naturals, Sequences, FiniteSets, SequencesExt

CONSTANTS
    None,
    Windows,  \* processes that open the same folder
    Contents, \* what a document can contain; its hash is its content
    Routes,   \* the operations the windows ask for
    MaxOps,   \* bound: operations, openings included, in a behaviour
    Faults    \* which faults the environment can inject

Operations == {"file", "bytes", "receipt", "complete"}
FaultKinds ==
    {"kill",     \* the window's process dies between two steps
     "io",       \* a step reports an error
     "dirsync",  \* documents/ cannot be opened or synced
     "powercut", \* the machine stops; only what reached the disk remains
     "edit"}     \* somebody rewrites the person's file while it is archived

ASSUME RoutesAssumption == Routes \subseteq Operations /\ Faults \subseteq FaultKinds
ASSUME MaxOpsAssumption == MaxOps \in Nat
ASSUME NoneAssumption == None \notin Windows \union Contents
ASSUME ContentsAssumption == {"absent", "partial"} \cap Contents = {}

VARIABLES
    lock,     \* the window that holds <vault>/.lock
    open,     \* the windows whose session is open
    todo,     \* the steps each window's operation has left
    sha,      \* the hash each operation computed
    held,     \* the copy of the index each operation read
    stats,    \* Vault::stats: "none", or a walk that is "fresh" or "stale"
    logs,     \* invoices.jsonl, completions.jsonl and audit.jsonl
    index,    \* documents/index.json
    files,    \* documents/<hash>-<name>
    ops,      \* how many operations were started
    answered, \* the operations that returned Ok
    copied,   \* the documents std::fs::copy ever wrote to (history)
    named,    \* the logs, and "index" for documents/, whose names a power cut left
    lost,     \* the records a power cut took with a name or an unsynced rename (history)
    unfiled,  \* the entries of the index whose folder's sync failed, and none since
    unstored  \* the documents stored whose folder's sync failed, and none since

folders == <<named, lost, unfiled, unstored>>
memory == <<lock, open, todo, sha, held, stats>>
vars == <<memory, logs, index, files, ops, answered, copied, folders>>

Absent == "absent"
Partial == "partial"
Numbers == 0 .. MaxOps
Tags == {"invoice", "completion", "vault.opened", "invoice.recorded", "obligation.completed",
         "document.added", "document.linked"}
Answers == {"invoice", "completion", "document"} \X Numbers
Entries == [file : Contents, at : Numbers, invoice : Numbers \union {None}]

(* A log is its lines and how many are surely on the disk; a replaced file *)
(* is its content now and every content a power cut could leave instead.   *)
Logs == {"invoices", "completions", "audit"}
Stores == {"invoices", "completions", "index"}
Register(v) == [now |-> v, left |-> {v}]
Put(r, v) == [now |-> v, left |-> r.left \union {v}]
Settle(r) == Register(r.now)

TypeOK ==
    /\ lock \in Windows \union {None}
    /\ open \subseteq Windows
    /\ sha \in [Windows -> Contents \union {None}]
    /\ \A w \in Windows : held[w] \in Seq(Entries)
    /\ stats \in [Windows -> {"none", "fresh", "stale"}]
    /\ \A l \in Logs : /\ logs[l].lines \in Seq(Tags \X Numbers)
                       /\ logs[l].synced \in 0 .. Len(logs[l].lines)
    /\ index.now \in index.left
    /\ \A i \in index.left : i \in Seq(Entries)
    /\ \A c \in Contents : /\ files[c].now \in files[c].left
                           /\ files[c].left \subseteq Contents \union {Absent, Partial}
    /\ ops \in Numbers
    /\ answered \subseteq Answers
    /\ copied \subseteq Contents
    /\ named \subseteq Logs \union Stores
    /\ lost \subseteq Stores \X Numbers
    /\ unfiled \subseteq Numbers
    /\ unstored \subseteq Contents

Init ==
    /\ lock = None
    /\ open = {}
    /\ todo = [w \in Windows |-> <<>>]
    /\ sha = [w \in Windows |-> None]
    /\ held = [w \in Windows |-> <<>>]
    /\ stats = [w \in Windows |-> "none"]
    /\ logs = [l \in Logs |-> [lines |-> <<>>, synced |-> 0]]
    /\ index = Register(<<>>)
    /\ files = [c \in Contents |-> Register(Absent)]
    /\ ops = 0
    /\ answered = {}
    /\ copied = {}
    /\ named = {}
    /\ lost = {}
    /\ unfiled = {}
    /\ unstored = {}

(***************************************************************************)
(* The operations, as the steps they make.                                 *)
(***************************************************************************)
Step(a) == <<[do |-> a]>>
Answer(kind, n) == <<[do |-> "answer", kind |-> kind, n |-> n]>>

(* The line without the invalidation before it.                            *)
AppendLineKeepsStats(l, line) ==
    <<[do |-> "write", log |-> l, line |-> line], [do |-> "sync", log |-> l]>>

(* The line handed to the system and not synced.                           *)
AppendLineUnsynced(l, line) ==
    Step("invalidate") \o <<[do |-> "write", log |-> l, line |-> line]>>

(* self.invalidate(); append_typed(..)                                     *)
AppendLine(l, line) ==
    Step("invalidate")
    \o <<[do |-> "write", log |-> l, line |-> line], [do |-> "sync", log |-> l]>>

AppendAudit(action, n) == AppendLine("audit", <<action, n>>)

(* The audit line first, then the ledger.                                  *)
AppendInvoiceAuditFirst(n) ==
    AppendAudit("invoice.recorded", n) \o AppendLine("invoices", <<"invoice", n>>)
    \o Answer("invoice", n)

AppendInvoice(n) ==
    AppendLine("invoices", <<"invoice", n>>) \o AppendAudit("invoice.recorded", n)
    \o Answer("invoice", n)

MarkCompleted(n) ==
    AppendLine("completions", <<"completion", n>>) \o AppendAudit("obligation.completed", n)
    \o Answer("completion", n)

(* self.write_json(DOCUMENT_INDEX, ..)                                     *)
WriteIndex(change) == Step("invalidate") \o <<change>> \o Step("syncindex")

IndexDocument(n) ==
    Step("readindex") \o WriteIndex([do |-> "push", at |-> n])
    \o AppendAudit("document.added", n) \o Answer("document", n)

(* The document is copied after it was indexed.                            *)
AddDocumentIndexFirst(n) ==
    Step("hash") \o Step("invalidate") \o IndexDocument(n)
    \o Step("copyopens") \o Step("copyfills")

AddDocument(n) ==
    Step("hash") \o Step("copyopens") \o Step("copyfills") \o Step("invalidate")
    \o IndexDocument(n)

AddDocumentBytes(n) ==
    Step("store") \o Step("syncstore") \o Step("invalidate") \o IndexDocument(n)

LinkDocument(c, n) ==
    Step("readindex") \o <<[do |-> "find", file |-> c]>>
    \o WriteIndex([do |-> "link", file |-> c, invoice |-> n])
    \o AppendAudit("document.linked", n)

(* App::save_receipt: append_invoice, and the link once it returned Ok.    *)
SaveReceipt(c, n) ==
    AppendInvoice(n) \o (IF c = None THEN <<>> ELSE LinkDocument(c, n))

(***************************************************************************)
(* Windows.                                                                *)
(***************************************************************************)
Idle(w) == w \in open /\ todo[w] = <<>>

(* Session::open_in: try_lock_exclusive, ensure, and an audit line whose   *)
(* failure is ignored.  While the lock is held a second window is refused. *)
Open(w) ==
    /\ w \notin open
    /\ ops < MaxOps
    /\ lock = None
    /\ lock' = w
    /\ open' = open \union {w}
    /\ todo' = [todo EXCEPT ![w] = AppendAudit("vault.opened", ops + 1)]
    /\ ops' = ops + 1
    /\ UNCHANGED <<sha, held, stats, logs, index, files, answered, copied, folders>>

(* The session is dropped, and VaultLock with it; or the process dies and  *)
(* the operating system releases the lock.                                 *)
Gone(w) ==
    /\ lock' = IF lock = w THEN None ELSE lock
    /\ open' = open \ {w}
    /\ todo' = [todo EXCEPT ![w] = <<>>]
    /\ sha' = [sha EXCEPT ![w] = None]
    /\ held' = [held EXCEPT ![w] = <<>>]
    /\ stats' = [stats EXCEPT ![w] = "none"]

Close(w) ==
    /\ Idle(w)
    /\ Gone(w)
    /\ UNCHANGED <<logs, index, files, ops, answered, copied, folders>>

Kill(w) ==
    /\ "kill" \in Faults
    /\ w \in open
    /\ Gone(w)
    /\ UNCHANGED <<logs, index, files, ops, answered, copied, folders>>

(* A window asks for an operation.                                         *)
Begin(w, steps) ==
    /\ Idle(w)
    /\ ops < MaxOps
    /\ todo' = [todo EXCEPT ![w] = steps]
    /\ ops' = ops + 1
    /\ UNCHANGED <<lock, open, held, stats, logs, index, files, answered, copied, folders>>

Archive(w) ==
    "file" \in Routes /\ Begin(w, AddDocument(ops + 1)) /\ UNCHANGED sha

(* Stored under the hash of whatever was archived before.                  *)
ArchiveBytesUnhashed(w) ==
    "bytes" \in Routes /\ Begin(w, AddDocumentBytes(ops + 1)) /\ UNCHANGED sha

(* hash_bytes of the bytes in hand.                                        *)
ArchiveBytes(w) ==
    /\ "bytes" \in Routes
    /\ Begin(w, AddDocumentBytes(ops + 1))
    /\ \E c \in Contents : sha' = [sha EXCEPT ![w] = c]

(* The form holds the file of a document archived before, or none.         *)
RecordReceipt(w) ==
    /\ "receipt" \in Routes
    /\ \E c \in {index.now[i].file : i \in DOMAIN index.now} \union {None} :
          Begin(w, SaveReceipt(c, ops + 1))
    /\ UNCHANGED sha

Complete(w) ==
    "complete" \in Routes /\ Begin(w, MarkCompleted(ops + 1)) /\ UNCHANGED sha

(* Vault::describe, when the model is rebuilt.                             *)
Describe(w) ==
    /\ Idle(w)
    /\ stats[w] = "none"
    /\ stats' = [stats EXCEPT ![w] = "fresh"]
    /\ UNCHANGED <<lock, open, todo, sha, held, logs, index, files, ops, answered,
                   copied, folders>>

(***************************************************************************)
(* The primitive steps.                                                    *)
(***************************************************************************)
Current(w) == Head(todo[w])
Doing(w, a) == todo[w] # <<>> /\ Current(w).do = a
Advance(w) == todo' = [todo EXCEPT ![w] = Tail(@)]

(* The files changed, so a walk made before is not what a walk would find. *)
Changed == stats' = [w \in Windows |-> IF stats[w] = "fresh" THEN "stale" ELSE stats[w]]

Invalidate(w) ==
    /\ Doing(w, "invalidate")
    /\ Advance(w)
    /\ stats' = [stats EXCEPT ![w] = "none"]
    /\ UNCHANGED <<lock, open, sha, held, logs, index, files, ops, answered,
                   copied, folders>>

WriteLine(w) ==
    /\ Doing(w, "write")
    /\ Advance(w)
    /\ logs' = [logs EXCEPT ![Current(w).log].lines = Append(@, Current(w).line)]
    /\ Changed
    /\ UNCHANGED <<lock, open, sha, held, index, files, ops, answered, copied, folders>>

SyncLine(w) ==
    /\ Doing(w, "sync")
    /\ Advance(w)
    /\ logs' = [logs EXCEPT ![Current(w).log].synced = Len(logs[Current(w).log].lines)]
    /\ UNCHANGED <<lock, open, sha, held, stats, index, files, ops, answered,
                   copied, folders>>

(* hash_file reads the person's file once; std::fs::copy reads it again.   *)
HashFile(w) ==
    /\ Doing(w, "hash")
    /\ Advance(w)
    /\ \E c \in Contents : sha' = [sha EXCEPT ![w] = c]
    /\ UNCHANGED <<lock, open, held, stats, logs, index, files, ops, answered,
                   copied, folders>>

(* std::fs::copy truncates the destination, ...                            *)
CopyOpens(w) ==
    /\ Doing(w, "copyopens")
    /\ Advance(w)
    /\ files' = [files EXCEPT ![sha[w]] = Put(@, Partial)]
    /\ copied' = copied \union {sha[w]}
    /\ Changed
    /\ UNCHANGED <<lock, open, sha, held, logs, index, ops, answered, folders>>

(* ... and fills it, with what was hashed unless somebody rewrote the      *)
(* person's file in between; nothing syncs it.                             *)
CopyFills(w) ==
    /\ Doing(w, "copyfills")
    /\ Advance(w)
    /\ \E c \in Contents :
          /\ c = sha[w] \/ "edit" \in Faults
          /\ files' = [files EXCEPT ![sha[w]] = Put(@, c)]
    /\ UNCHANGED <<lock, open, sha, held, stats, logs, index, ops, answered,
                   copied, folders>>

(* write_bytes_atomic of the document: its rename, then its folder's sync. *)
StoreBytes(w) ==
    /\ Doing(w, "store")
    /\ Advance(w)
    /\ files' = [files EXCEPT ![sha[w]] = Put(@, sha[w])]
    /\ Changed
    /\ UNCHANGED <<lock, open, sha, held, logs, index, ops, answered, copied, folders>>

(* documents/ is synced: every rename in it is on the disk, and the name,  *)
(* but not the bytes, of a copy.                                           *)
NameSettled(r) ==
    [r EXCEPT !.left = IF r.now = Absent THEN r.left ELSE r.left \ {Absent}]

SyncFolder(renamed) ==
    /\ index' = Settle(index)
    /\ files' = [c \in Contents |-> IF c \in copied \ renamed THEN NameSettled(files[c])
                                                             ELSE Settle(files[c])]
    /\ unfiled' = {}
    /\ unstored' = {c \in unstored : files[c].now # c}
    /\ UNCHANGED <<named, lost>>

SyncStore(w) ==
    /\ Doing(w, "syncstore")
    /\ Advance(w)
    /\ SyncFolder({sha[w]})
    /\ UNCHANGED <<lock, open, sha, held, stats, logs, ops, answered, copied>>

(* sync_parent drops the failure, and the call goes on to its Ok.          *)
SyncStoreFails(w) ==
    /\ "dirsync" \in Faults
    /\ Doing(w, "syncstore")
    /\ Advance(w)
    /\ unstored' = unstored \union ({sha[w]} \ {c \in Contents : files[c].left = {c}})
    /\ UNCHANGED <<lock, open, sha, held, stats, logs, index, files, ops, answered, copied,
                   named, lost, unfiled>>

(* index_values.                                                           *)
ReadIndex(w) ==
    /\ Doing(w, "readindex")
    /\ Advance(w)
    /\ held' = [held EXCEPT ![w] = index.now]
    /\ UNCHANGED <<lock, open, sha, stats, logs, index, files, ops, answered,
                   copied, folders>>

Places(i, c) == {k \in DOMAIN i : i[k].file = c}

(* No entry with that file: Ok(false), and nothing is written.             *)
FindEntry(w) ==
    /\ Doing(w, "find")
    /\ IF Places(held[w], Current(w).file) = {}
       THEN todo' = [todo EXCEPT ![w] = <<>>]
       ELSE Advance(w)
    /\ UNCHANGED <<lock, open, sha, held, stats, logs, index, files, ops, answered,
                   copied, folders>>

Replaced(w, i) ==
    /\ Advance(w)
    /\ index' = Put(index, i)
    /\ Changed
    /\ UNCHANGED <<lock, open, sha, held, logs, files, ops, answered, copied, folders>>

PushEntry(w) ==
    /\ Doing(w, "push")
    /\ Replaced(w, Append(held[w], [file |-> sha[w], at |-> Current(w).at, invoice |-> None]))

(* The first entry with that file, whatever it was linked to before.       *)
LinkEntry(w) ==
    /\ Doing(w, "link")
    /\ LET k == Min(Places(held[w], Current(w).file)) IN
       Replaced(w, [held[w] EXCEPT ![k].invoice = Current(w).invoice])

SyncIndex(w) ==
    /\ Doing(w, "syncindex")
    /\ Advance(w)
    /\ SyncFolder({})
    /\ UNCHANGED <<lock, open, sha, held, stats, logs, ops, answered, copied>>

(* Every index the file could turn out to hold has entry n.                *)
Everywhere(P(_)) == \A i \in index.left : P(i)
Has(i, n) == \E k \in DOMAIN i : i[k].at = n
Filed(n) == LET HasIt(i) == Has(i, n) IN Everywhere(HasIt)

SyncIndexFails(w) ==
    /\ "dirsync" \in Faults
    /\ Doing(w, "syncindex")
    /\ Advance(w)
    /\ unfiled' = unfiled \union {n \in Numbers : Has(index.now, n) /\ ~Filed(n)}
    /\ UNCHANGED <<lock, open, sha, held, stats, logs, index, files, ops, answered, copied,
                   named, lost, unstored>>

ReturnOk(w) ==
    /\ Doing(w, "answer")
    /\ Advance(w)
    /\ answered' = answered \union {<<Current(w).kind, Current(w).n>>}
    /\ UNCHANGED <<lock, open, sha, held, stats, logs, index, files, ops, copied, folders>>

(* An error is returned at once.  A step that fails changes nothing: a     *)
(* line that was written and not synced stays, and so does a copy that was *)
(* opened and not filled.                                                  *)
StepFails(w) ==
    /\ "io" \in Faults
    /\ \E a \in {"write", "sync", "hash", "copyopens", "copyfills", "store",
                 "readindex", "push", "link"} : Doing(w, a)
    /\ todo' = [todo EXCEPT ![w] = <<>>]
    /\ UNCHANGED <<lock, open, sha, held, stats, logs, index, files, ops, answered,
                   copied, folders>>

(***************************************************************************)
(* The environment.                                                        *)
(***************************************************************************)
Untouched == [lines |-> <<>>, synced |-> 0]

(* What was synced stays, and maybe more; unless the log goes with its name.*)
LogAfter(l) == {[lines |-> SubSeq(logs[l].lines, 1, n), synced |-> n] :
                   n \in logs[l].synced .. Len(logs[l].lines)}
               \union IF l \in named THEN {} ELSE {Untouched}

(* The records of a log that were synced.                                  *)
Safe(l) == {logs[l].lines[k][2] : k \in 1 .. logs[l].synced}

(* The records the operations have done all they do for, and all records.  *)
Sure ==
    {f \in Stores \X Numbers :
        IF f[1] = "index" THEN Filed(f[2]) \/ (f[2] \in unfiled /\ Has(index.now, f[2]))
                          ELSE f[2] \in Safe(f[1])}
There ==
    {f \in Stores \X Numbers :
        IF f[1] = "index" THEN Has(index.now, f[2])
                          ELSE \E k \in DOMAIN logs[f[1]].lines : logs[f[1]].lines[k][2] = f[2]}

(* Those a power cut may still take: nobody synced the name of their log   *)
(* or of documents/, or the rename that put them there.                    *)
Exposed == {f \in Sure : f[1] \notin named \/ (f[1] = "index" /\ ~Filed(f[2]))}

(* Each file of documents/ is one of those it could turn out to be, ...    *)
DocumentsStay ==
    /\ \E i \in index.left : index' = Register(i)
    /\ files' \in {f \in [Contents -> {Register(v) : v \in Contents \union {Absent, Partial}}] :
                     \A c \in Contents : f[c].now \in files[c].left}

(* ... or the folder goes with its name.                                   *)
DocumentsGo ==
    /\ "index" \notin named
    /\ index' = Register(<<>>)
    /\ files' = [c \in Contents |-> Register(Absent)]

(* The machine stops.  What is found afterwards has its name on the disk.  *)
PowerCut ==
    /\ "powercut" \in Faults
    /\ open # {}
    /\ lock' = None
    /\ open' = {}
    /\ todo' = [w \in Windows |-> <<>>]
    /\ sha' = [w \in Windows |-> None]
    /\ held' = [w \in Windows |-> <<>>]
    /\ stats' = [w \in Windows |-> "none"]
    /\ \E i \in LogAfter("invoices"), c \in LogAfter("completions"), a \in LogAfter("audit") :
          logs' = [l \in Logs |-> CASE l = "invoices" -> i
                                    [] l = "completions" -> c
                                    [] l = "audit" -> a]
    /\ DocumentsStay \/ DocumentsGo
    /\ named' = named \union {l \in Logs : logs'[l].lines # <<>>}
                      \union {d \in {"index"} : \/ index'.now # <<>>
                                               \/ \E c \in Contents : files'[c].now # Absent}
    /\ lost' = lost \union (Exposed \ There')
    /\ unfiled' = {}
    /\ UNCHANGED <<ops, answered, copied, unstored>>

Next ==
    \/ \E w \in Windows :
          \/ Open(w) \/ Close(w) \/ Kill(w)
          \/ Archive(w) \/ ArchiveBytes(w) \/ RecordReceipt(w) \/ Complete(w)
          \/ Describe(w)
          \/ Invalidate(w)
          \/ WriteLine(w) \/ SyncLine(w)
          \/ HashFile(w) \/ CopyOpens(w) \/ CopyFills(w)
          \/ StoreBytes(w) \/ SyncStore(w) \/ SyncStoreFails(w)
          \/ ReadIndex(w) \/ FindEntry(w) \/ PushEntry(w) \/ LinkEntry(w)
          \/ SyncIndex(w) \/ SyncIndexFails(w)
          \/ ReturnOk(w)
          \/ StepFails(w)
    \/ PowerCut

Spec == Init /\ [][Next]_vars

(***************************************************************************)
(* Properties.                                                             *)
(***************************************************************************)

(* A record is kept when it is on the disk for good, when it is there and  *)
(* only the sync of its folder failed, or when a power cut has taken it    *)
(* with a name nobody had synced.                                          *)
Kept == Sure \union lost

(* What an operation that returned Ok recorded survives everything that    *)
(* follows: other windows rewriting the index, deaths, errors, power cuts  *)
(* ("the slower writer silently drops the other's document", lock.rs).     *)
AnsweredKept ==
    \A a \in answered :
        CASE a[1] = "invoice"    -> <<"invoices", a[2]>> \in Kept
          [] a[1] = "completion" -> <<"completions", a[2]>> \in Kept
          [] a[1] = "document"   -> <<"index", a[2]>> \in Kept

(* The audit log never tells of something that did not happen: whenever    *)
(* one of its lines can be read, even one a power cut could still take,    *)
(* the record it tells of is kept.                                         *)
AuditNeverAhead ==
    \A k \in DOMAIN logs["audit"].lines :
        LET line == logs["audit"].lines[k] IN
        CASE line[1] = "invoice.recorded"     -> <<"invoices", line[2]>> \in Kept
          [] line[1] = "obligation.completed" -> <<"completions", line[2]>> \in Kept
          [] line[1] = "document.added"       -> <<"index", line[2]>> \in Kept
          [] OTHER                            -> TRUE

(* Every entry of the index names a file that is there ("the index can     *)
(* never point at a file that does not exist", vault.rs).                  *)
IndexHasFile ==
    \A k \in DOMAIN index.now : files[index.now[k].file].now # Absent

(* Every indexed document can be proven unchanged: its file holds the      *)
(* content its hash names, and a power cut leaves it so ("re-hashing the   *)
(* file proves it has not changed since it was archived", docs/            *)
(* PRIVACY-SECURITY.md).  It cannot, once a copy went to that file: a copy *)
(* writes in place, is not synced, and reads the person's file again.      *)
(* And a document whose folder's sync failed may be missing, never wrong.  *)
HasContent(i) ==
    \A k \in DOMAIN i :
        LET c == i[k].file IN
        \/ files[c].left = {c}
        \/ (c \in unstored /\ files[c].left \subseteq {c, Absent})
        \/ c \in copied

(* A document never points at an invoice that was not kept in the ledger   *)
(* (save_receipt records the invoice, then links).                         *)
LinksRecorded(i) ==
    \A k \in DOMAIN i : i[k].invoice # None => <<"invoices", i[k].invoice>> \in Kept

(* A document that enters the index is whole where it is, copied or not    *)
(* (the copy happens before the index entry).                              *)
WholeWhenIndexed ==
    \A k \in DOMAIN index'.now :
        (\A j \in DOMAIN index.now : index.now[j].at # index'.now[k].at) =>
            files[index'.now[k].file].now \notin {Absent, Partial}

(* The index is only ever put in place after what it tells of: the content *)
(* of its documents and the invoices they are linked to, on the disk before*)
(* any index that could be read after a power cut, and the copies of the   *)
(* documents, in the folder (vault.rs, add_document, add_document_bytes;   *)
(* app.rs, save_receipt).                                                  *)
IndexSound ==
    /\ [](Everywhere(HasContent) /\ Everywhere(LinksRecorded))
    /\ [][WholeWhenIndexed]_vars

(* Between operations the cached size is what a walk would find ("it now   *)
(* runs once and is invalidated by a write", lib.rs), unless a copy that   *)
(* failed has left part of a document behind: that is not invalidated.     *)
StatsFresh ==
    \A w \in Windows :
        Idle(w) /\ stats[w] = "stale" => \E c \in Contents : files[c].now = Partial
=============================================================================
