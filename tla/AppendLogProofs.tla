--------------------------- MODULE AppendLogProofs ---------------------------
(***************************************************************************)
(* What AppendLog promises for every number of calls.                      *)
(***************************************************************************)
EXTENDS AppendLog, TLAPS

(* What a power cut leaves: a prefix of the calls, at least the n pieces   *)
(* the disk surely held, and those untouched.                              *)
LEMMA PowerCutKeeps ==
    ASSUME NEW R, NEW f \in Seq(Pieces(R)), NEW n \in 0 .. Len(f),
           NEW g \in AfterPowerCut(f, n)
    PROVE  /\ g \in Seq(Pieces(R))
           /\ Len(g) \in n .. Len(f)
           /\ \A i \in 1 .. n : g[i] = f[i]
           /\ \A i \in 1 .. Len(g) : g[i].rec = f[i].rec
<1>1. CASE g = SubSeq(f, 1, n)
    BY <1>1
<1>2. ASSUME NEW k \in (n + 1) .. Len(f), NEW p \in LessOf(f[k]),
             g = Append(SubSeq(f, 1, k - 1), p)
      PROVE  /\ g \in Seq(Pieces(R))
             /\ Len(g) \in n .. Len(f)
             /\ \A i \in 1 .. n : g[i] = f[i]
             /\ \A i \in 1 .. Len(g) : g[i].rec = f[i].rec
    <2>1. f[k] \in Pieces(R)
        BY <1>2
    <2>2. p \in Pieces(R) /\ p.rec = f[k].rec
        BY <1>2, <2>1 DEF LessOf, Piece, Pieces, Cuts
    <2>3. /\ SubSeq(f, 1, k - 1) \in Seq(Pieces(R))
          /\ Len(SubSeq(f, 1, k - 1)) = k - 1
          /\ \A i \in 1 .. k - 1 : SubSeq(f, 1, k - 1)[i] = f[i]
        BY <1>2
    <2>4. /\ g \in Seq(Pieces(R))
          /\ Len(g) = k
          /\ g[k] = p
          /\ \A i \in 1 .. k - 1 : g[i] = f[i]
        BY <1>2, <2>2, <2>3
    <2> QED
        BY <1>2, <2>2, <2>4
<1> QED
    BY <1>1, <1>2 DEF AfterPowerCut

(* The bookkeeping that goes with the types: a call in progress has a      *)
(* number, and the pieces in the file come from calls already made.        *)
Started == pc \in {"write", "sync"} => calls # 0

TypeInv == TypeOK /\ Started

LEMMA TypeInvStep == TypeInv /\ [Next]_vars => TypeInv'
<1> SUFFICES ASSUME TypeInv, [Next]_vars PROVE TypeInv'
    OBVIOUS
<1> USE MaxAppendsAssumption, FaultsAssumption DEF TypeInv, TypeOK, Started, Strikes, FaultKinds
<1>1. CASE OpenForAppend
    BY <1>1 DEF OpenForAppend
<1>2. CASE WriteAll
    <2>1. Piece(calls, "whole") \in Pieces(Rec)
        BY <1>2 DEF WriteAll, Piece, Pieces, Cuts, Rec
    <2> QED
        BY <1>2, <2>1 DEF WriteAll
<1>3. CASE WriteAllFails
    <2>1. \A c \in {"bare", "torn"} : Piece(calls, c) \in Pieces(Rec)
        BY <1>3 DEF WriteAllFails, Piece, Pieces, Cuts, Rec
    <2>2. /\ cached' = cached \/ \E c \in {"bare", "torn"} : cached' = Append(cached, Piece(calls, c))
          /\ struck' = struck \union {"nospace"} /\ "nospace" \in FaultKinds
          /\ pc' = "idle"
          /\ UNCHANGED <<synced, named, calls, acked>>
        BY <1>3 DEF WriteAllFails
    <2>3. cached' \in Seq(Pieces(Rec)) /\ Len(cached) <= Len(cached')
        BY <2>1, <2>2
    <2>4. synced' \in 0 .. Len(cached')
        BY <2>2, <2>3
    <2> QED
        BY <2>2, <2>3, <2>4
<1>4. CASE SyncData
    BY <1>4 DEF SyncData, Rec
<1>5. CASE SyncDataFails
    BY <1>5 DEF SyncDataFails
<1>6. CASE Kill
    BY <1>6 DEF Kill
<1>7. CASE PowerCut
    <2>1. /\ cached' \in AfterPowerCut(cached, synced) \/ cached' = <<>>
          /\ named' \in BOOLEAN
          /\ synced' = Len(cached')
          /\ pc' = "down"
          /\ calls' = calls
          /\ acked' = acked
          /\ struck' \subseteq FaultKinds \union {"filelost"}
        BY <1>7 DEF PowerCut
    <2>2. cached' \in Seq(Pieces(Rec))
        <3>1. cached \in Seq(Pieces(Rec)) /\ synced \in 0 .. Len(cached)
            OBVIOUS
        <3>2. CASE cached' \in AfterPowerCut(cached, synced)
            BY <3>1, <3>2, PowerCutKeeps
        <3>3. CASE cached' = <<>>
            BY <3>3
        <3> QED
            BY <2>1, <3>2, <3>3
    <2> QED
        BY <2>1, <2>2
<1>8. CASE Restart
    BY <1>8 DEF Restart
<1>9. CASE UNCHANGED vars
    BY <1>9 DEF vars
<1> QED
    BY <1>1, <1>2, <1>3, <1>4, <1>5, <1>6, <1>7, <1>8, <1>9 DEF Next

LEMMA TypeInvInit == Init => TypeInv
    BY MaxAppendsAssumption
    DEF Init, TypeInv, TypeOK, Started

LEMMA TypeInvAlways == Spec => []TypeInv
    BY TypeInvInit, TypeInvStep, PTL DEF Spec

(* Every variable of append_text's model keeps its type, whatever faults   *)
(* the environment injects.                                                *)
THEOREM TypeCorrect == Spec => []TypeOK
<1>1. TypeInv => TypeOK
    BY DEF TypeInv
<1> QED
    BY <1>1, TypeInvAlways, PTL

(***************************************************************************)
(* Order.  Every piece in the file comes from a call already made, and the *)
(* call in progress has written nothing before its write_all.              *)
(***************************************************************************)
FromCalls ==
    \A i \in 1 .. Len(cached) :
        /\ cached[i].rec <= calls
        /\ pc = "write" => cached[i].rec < calls

OrderInv == TypeInv /\ CallOrder /\ FromCalls

LEMMA RecordNumbers ==
    TypeOK => calls \in Nat /\ \A i \in 1 .. Len(cached) : cached[i].rec \in Nat
<1> SUFFICES ASSUME TypeOK
             PROVE  calls \in Nat /\ \A i \in 1 .. Len(cached) : cached[i].rec \in Nat
    OBVIOUS
<1>1. calls \in Nat
    BY MaxAppendsAssumption DEF TypeOK
<1>2. ASSUME NEW i \in 1 .. Len(cached) PROVE cached[i].rec \in Nat
    <2>1. cached[i] \in Pieces(Rec)
        BY DEF TypeOK
    <2> QED
        BY <2>1, MaxAppendsAssumption DEF Pieces, Rec
<1> QED
    BY <1>1, <1>2

(* A piece of the call in hand, put after pieces of earlier calls, leaves  *)
(* the file in call order.                                                 *)
LEMMA OrderAfterAppend ==
    ASSUME TypeOK, CallOrder,
           NEW c \in Cuts, cached' = Append(cached, Piece(calls, c)),
           \A i \in 1 .. Len(cached) : cached[i].rec < calls
    PROVE  /\ \A i, j \in 1 .. Len(cached') : i < j => cached'[i].rec < cached'[j].rec
           /\ \A i \in 1 .. Len(cached') : cached'[i].rec <= calls
<1>1. calls \in Nat /\ \A i \in 1 .. Len(cached) : cached[i].rec \in Nat
    BY RecordNumbers
<1>2. Piece(calls, c).rec = calls
    BY DEF Piece
<1>3. cached \in Seq(Pieces(Rec)) /\ Len(cached) \in Nat
    BY DEF TypeOK
<1>4. /\ Len(cached') = Len(cached) + 1
      /\ cached'[Len(cached) + 1].rec = calls
      /\ \A i \in 1 .. Len(cached) : cached'[i] = cached[i]
    BY <1>2, <1>3
<1>5. ASSUME NEW i \in 1 .. Len(cached'), NEW j \in 1 .. Len(cached'), i < j
      PROVE  cached'[i].rec < cached'[j].rec
    <2>1. i \in 1 .. Len(cached) /\ cached'[i] = cached[i]
        BY <1>3, <1>4, <1>5
    <2>2. CASE j = Len(cached) + 1
        BY <1>4, <2>1, <2>2
    <2>3. CASE j \in 1 .. Len(cached)
        BY <1>4, <1>5, <2>1, <2>3 DEF CallOrder
    <2> QED
        BY <1>3, <1>4, <2>2, <2>3
<1>6. ASSUME NEW i \in 1 .. Len(cached') PROVE cached'[i].rec <= calls
    <2>1. CASE i = Len(cached) + 1
        BY <1>1, <1>4, <2>1
    <2>2. CASE i \in 1 .. Len(cached)
        BY <1>1, <1>4, <2>2
    <2> QED
        BY <1>3, <1>4, <2>1, <2>2
<1> QED
    BY <1>5, <1>6

LEMMA OrderStep == OrderInv /\ [Next]_vars => OrderInv'
<1> SUFFICES ASSUME OrderInv, [Next]_vars PROVE OrderInv'
    OBVIOUS
<1>1. TypeOK /\ Started /\ CallOrder /\ FromCalls
    BY DEF OrderInv, TypeInv
<1>2. TypeInv'
    BY TypeInvStep DEF OrderInv
<1>3. calls \in Nat /\ \A i \in 1 .. Len(cached) : cached[i].rec \in Nat
    BY <1>1, RecordNumbers
<1>4. CallOrder' /\ FromCalls'
    <2> USE <1>1, <1>3 DEF TypeOK, Started, CallOrder, FromCalls
    <2>1. CASE OpenForAppend
        BY <2>1 DEF OpenForAppend
    <2>2. CASE WriteAll
        <3>1. /\ cached' = Append(cached, Piece(calls, "whole"))
              /\ pc = "write" /\ pc' = "sync" /\ calls' = calls
            BY <2>2 DEF WriteAll
        <3>2. \A i \in 1 .. Len(cached) : cached[i].rec < calls
            BY <3>1
        <3>3. "whole" \in Cuts
            BY DEF Cuts
        <3> QED
            BY <3>1, <3>2, <3>3, OrderAfterAppend
    <2>3. CASE WriteAllFails
        <3>1. pc = "write" /\ pc' = "idle" /\ calls' = calls
            BY <2>3 DEF WriteAllFails
        <3>2. CASE cached' = cached
            BY <3>1, <3>2
        <3>3. ASSUME NEW c \in {"bare", "torn"}, cached' = Append(cached, Piece(calls, c))
              PROVE  CallOrder' /\ FromCalls'
            <4>1. \A i \in 1 .. Len(cached) : cached[i].rec < calls
                BY <3>1
            <4>2. c \in Cuts
                BY DEF Cuts
            <4> QED
                BY <3>1, <3>3, <4>1, <4>2, OrderAfterAppend
        <3> QED
            BY <2>3, <3>2, <3>3 DEF WriteAllFails
    <2>4. CASE PowerCut
        <3>1. /\ cached' \in AfterPowerCut(cached, synced) \/ cached' = <<>>
              /\ pc' = "down"
              /\ calls' = calls
            BY <2>4 DEF PowerCut
        <3>2. cached \in Seq(Pieces(Rec)) /\ synced \in 0 .. Len(cached)
            OBVIOUS
        <3>3. /\ Len(cached') \in 0 .. Len(cached)
              /\ \A i \in 1 .. Len(cached') : cached'[i].rec = cached[i].rec
            <4>1. CASE cached' \in AfterPowerCut(cached, synced)
                BY <3>2, <4>1, PowerCutKeeps
            <4>2. CASE cached' = <<>>
                BY <3>2, <4>2
            <4> QED
                BY <3>1, <4>1, <4>2
        <3>4. cached \in Seq(Pieces(Rec)) /\ Len(cached') \in Nat
            BY <3>3
        <3>5. CallOrder'
            BY <3>3, <3>4
        <3>6. FromCalls'
            BY <3>1, <3>3, <3>4
        <3> QED
            BY <3>5, <3>6
    <2>5. CASE cached' = cached /\ calls' = calls /\ pc' \in {"idle", "down"}
        BY <2>5
    <2>6. CASE UNCHANGED vars
        BY <2>6 DEF vars
    <2> QED
        BY <2>1, <2>2, <2>3, <2>4, <2>5, <2>6
        DEF Next, SyncData, SyncDataFails, Kill, Restart
<1> QED
    BY <1>2, <1>4 DEF OrderInv

LEMMA OrderInvInit == Init => OrderInv
    BY TypeInvInit DEF Init, OrderInv, CallOrder, FromCalls

(* Whatever fails, the loss of the whole file included, the records a file *)
(* holds are in the order of the calls that wrote them, each at most once. *)
THEOREM RecordsInOrder == Spec => []CallOrder
<1>1. OrderInv => CallOrder
    BY DEF OrderInv
<1> QED
    BY <1>1, OrderInvInit, OrderStep, PTL DEF Spec

(***************************************************************************)
(* Durability.  The piece that carries an acknowledged record is the one   *)
(* the call had just written when it was synced.                           *)
(***************************************************************************)
JustWritten ==
    pc = "sync" => /\ cached # <<>>
                   /\ cached[Len(cached)] = Piece(calls, "whole")

DurableInv == OrderInv /\ JustWritten /\ AckedOnDisk

(* What has gone wrong stays so.                                           *)
LEMMA StruckGrows == [Next]_vars => struck \subseteq struck'
    BY DEF Next, vars, OpenForAppend, WriteAll, WriteAllFails, SyncData,
           SyncDataFails, Kill, PowerCut, Restart, Strikes

(* No step but the loss of the whole file disturbs the part of it the disk *)
(* surely holds.                                                           *)
LEMMA SyncedKept ==
    ASSUME TypeOK, [Next]_vars, ~FileLost'
    PROVE  /\ synced <= synced'
           /\ \A i \in 1 .. synced : i <= Len(cached') /\ cached'[i] = cached[i]
<1> USE DEF TypeOK
<1>1. CASE PowerCut
    <2>1. /\ cached' \in AfterPowerCut(cached, synced)
          /\ synced' = Len(cached')
        BY <1>1 DEF PowerCut, FileLost
    <2>2. cached \in Seq(Pieces(Rec)) /\ synced \in 0 .. Len(cached)
        OBVIOUS
    <2>3. /\ Len(cached') \in synced .. Len(cached)
          /\ \A i \in 1 .. synced : cached'[i] = cached[i]
        BY <2>1, <2>2, PowerCutKeeps
    <2> QED
        BY <2>1, <2>2, <2>3
<1>2. CASE WriteAll
    BY <1>2 DEF WriteAll
<1>3. CASE WriteAllFails
    BY <1>3 DEF WriteAllFails
<1>4. CASE SyncData
    BY <1>4 DEF SyncData
<1>5. CASE UNCHANGED <<cached, synced>>
    BY <1>5
<1> QED
    BY <1>1, <1>2, <1>3, <1>4, <1>5
    DEF Next, OpenForAppend, SyncDataFails, Kill, Restart, vars

LEMMA DurableStep == DurableInv /\ [Next]_vars => DurableInv'
<1> SUFFICES ASSUME DurableInv, [Next]_vars PROVE DurableInv'
    OBVIOUS
<1>1. TypeOK /\ Started /\ JustWritten /\ AckedOnDisk
    BY DEF DurableInv, OrderInv, TypeInv
<1>2. OrderInv' /\ TypeOK'
    BY OrderStep DEF DurableInv, OrderInv, TypeInv
<1>5. JustWritten'
    <2>1. CASE WriteAll
        <3>1. /\ Len(cached') = Len(cached) + 1
              /\ cached'[Len(cached) + 1] = Piece(calls, "whole")
              /\ calls' = calls
            BY <1>1, <2>1 DEF WriteAll, TypeOK
        <3> QED
            BY <1>1, <3>1 DEF JustWritten, TypeOK
    <2>2. CASE pc' # "sync"
        BY <2>2 DEF JustWritten
    <2>3. CASE UNCHANGED vars
        BY <1>1, <2>3 DEF vars, JustWritten
    <2> QED
        BY <2>1, <2>2, <2>3 DEF Next, OpenForAppend, WriteAllFails, SyncData,
                                SyncDataFails, Kill, PowerCut, Restart
<1>6. ASSUME ~FileLost'
      PROVE  \A r \in acked' : \E i \in 1 .. synced' : cached'[i] = Piece(r, "whole")
    <2>0. /\ ~FileLost
          /\ synced <= synced'
          /\ \A i \in 1 .. synced : i <= Len(cached') /\ cached'[i] = cached[i]
        BY <1>1, <1>6, SyncedKept, StruckGrows DEF FileLost
    <2>1. ASSUME NEW r \in acked
          PROVE  \E i \in 1 .. synced' : cached'[i] = Piece(r, "whole")
        <3>1. PICK i \in 1 .. synced : cached[i] = Piece(r, "whole")
            BY <1>1, <2>0 DEF AckedOnDisk
        <3>2. i \in 1 .. synced' /\ cached'[i] = Piece(r, "whole")
            BY <1>1, <1>2, <2>0, <3>1 DEF TypeOK
        <3> QED
            BY <3>2
    <2>2. CASE SyncData
        <3>1. cached' = cached /\ synced' = Len(cached) /\ acked' = acked \union {calls}
            BY <2>2 DEF SyncData
        <3>2. Len(cached) \in 1 .. synced' /\ cached'[Len(cached)] = Piece(calls, "whole")
            BY <1>1, <2>2, <3>1 DEF SyncData, JustWritten, TypeOK
        <3> QED
            BY <2>1, <3>1, <3>2
    <2>3. CASE acked' = acked
        BY <2>1, <2>3
    <2> QED
        BY <2>2, <2>3 DEF Next, vars, OpenForAppend, WriteAll, WriteAllFails,
                          SyncDataFails, Kill, PowerCut, Restart
<1> QED
    BY <1>2, <1>5, <1>6 DEF DurableInv, AckedOnDisk

LEMMA DurableAlways == Spec => []DurableInv
<1>1. Init => DurableInv
    BY OrderInvInit DEF Init, DurableInv, JustWritten, AckedOnDisk
<1> QED
    BY <1>1, DurableStep, PTL DEF Spec

(* Whatever fails - the process, the disk, the power - what append_text    *)
(* acknowledged is on the disk, whole, until the file itself is lost with  *)
(* a directory entry no code ever synced.                                  *)
THEOREM AckedSurvives == Spec => []AckedOnDisk
<1>1. DurableInv => AckedOnDisk
    BY DEF DurableInv
<1> QED
    BY <1>1, DurableAlways, PTL

(* And it stays on the line it was given: no later call and no crash moves *)
(* or changes an acknowledged record.                                      *)
THEOREM AckedNeverMoves == Spec => AckedStay
<1>1. ASSUME DurableInv, [Next]_vars, ~FileLost',
             NEW i \in 1 .. Len(cached), cached[i].rec \in acked
      PROVE  i <= Len(cached') /\ cached'[i] = cached[i]
    <2>1. TypeOK /\ CallOrder /\ AckedOnDisk /\ ~FileLost
        BY <1>1, StruckGrows DEF DurableInv, OrderInv, TypeInv, FileLost
    <2>2. PICK j \in 1 .. synced : cached[j] = Piece(cached[i].rec, "whole")
        BY <1>1, <2>1 DEF AckedOnDisk
    <2>3. cached[j].rec = cached[i].rec
        BY <2>2 DEF Piece
    <2>4. i = j
        <3>1. j \in 1 .. Len(cached)
            BY <2>1, <2>2 DEF TypeOK
        <3>2. cached[i].rec \in Nat
            BY <1>1, <2>1, RecordNumbers
        <3>3. i < j \/ j < i \/ i = j
            BY <1>1, <3>1
        <3> QED
            BY <1>1, <2>1, <2>3, <3>1, <3>2, <3>3 DEF CallOrder
    <2> QED
        BY <1>1, <2>1, <2>4, SyncedKept
<1>2. DurableInv /\ [Next]_vars =>
        [~FileLost' =>
            \A i \in 1 .. Len(cached) :
                cached[i].rec \in acked =>
                    i <= Len(cached') /\ cached'[i] = cached[i]]_vars
    BY <1>1
<1> QED
    BY <1>2, DurableAlways, PTL DEF Spec, AckedStay

(***************************************************************************)
(* Readability.  While no write is cut short every piece is a whole line,  *)
(* so each stands on a line of its own.                                    *)
(***************************************************************************)
AllWhole == \A i \in 1 .. Len(cached) : cached[i].cut = "whole"

AckedWritten ==
    \A r \in acked : \E i \in 1 .. Len(cached) : cached[i].rec = r

WholeLines == AllWhole /\ JustWritten /\ AckedWritten

ReadableInv == TypeInv /\ (~CutShort => WholeLines)

LEMMA ReadableStep == ReadableInv /\ [Next]_vars => ReadableInv'
<1> SUFFICES ASSUME ReadableInv, [Next]_vars, ~CutShort' PROVE WholeLines'
    BY TypeInvStep DEF ReadableInv
<1>1. TypeOK /\ WholeLines
    BY StruckGrows DEF ReadableInv, TypeInv, CutShort
<1>3. Piece(calls, "whole").rec = calls /\ Piece(calls, "whole").cut = "whole"
    BY DEF Piece
<1> USE <1>1 DEF TypeOK, WholeLines, AllWhole, JustWritten, AckedWritten
<1>4. CASE WriteAll
    <2>1. /\ Len(cached') = Len(cached) + 1
          /\ cached'[Len(cached) + 1] = Piece(calls, "whole")
          /\ \A i \in 1 .. Len(cached) : cached'[i] = cached[i]
          /\ pc' = "sync" /\ calls' = calls /\ acked' = acked
        BY <1>4 DEF WriteAll
    <2> QED
        BY <1>3, <2>1
<1>5. CASE SyncData
    <2>1. /\ Len(cached) \in 1 .. Len(cached)
          /\ cached[Len(cached)].rec = calls
        BY <1>3, <1>5 DEF SyncData
    <2> QED
        BY <1>5, <2>1 DEF SyncData
<1>6. CASE OpenForAppend \/ SyncDataFails \/ Kill \/ Restart \/ UNCHANGED vars
    <2>1. /\ cached' = cached /\ acked' = acked
          /\ pc' # "sync" \/ UNCHANGED vars
        BY <1>6 DEF OpenForAppend, SyncDataFails, Kill, Restart, vars
    <2> QED
        BY <2>1 DEF vars
<1>7. ~WriteAllFails /\ ~PowerCut
    BY DEF WriteAllFails, PowerCut, Strikes, CutShort
<1> QED
    BY <1>4, <1>5, <1>6, <1>7 DEF Next

(* Until a write is cut short, and whatever processes die and whichever    *)
(* flushes fail, every acknowledged record is on a line that parses and    *)
(* the file is readable.                                                   *)
THEOREM AckedIsRead == Spec => []ReadableUntilCut
<1>1. Init => ReadableInv
    BY TypeInvInit
    DEF Init, ReadableInv, WholeLines, AllWhole, JustWritten, AckedWritten
<1>2. ReadableInv => ReadableUntilCut
    <2> SUFFICES ASSUME ReadableInv, ~CutShort PROVE AckedParses /\ Readable(cached)
        BY DEF ReadableUntilCut
    <2>1. TypeOK /\ AllWhole /\ AckedWritten
        BY DEF ReadableInv, TypeInv, WholeLines
    <2>2. ASSUME NEW i \in 1 .. Len(cached) PROVE Parses(cached, i)
        <3>1. i = 1 \/ i - 1 \in 1 .. Len(cached)
            BY <2>1 DEF TypeOK
        <3> QED
            BY <2>1, <3>1 DEF Parses, StartsLine, AllWhole
    <2>3. AckedParses
        BY <2>1, <2>2 DEF AckedParses, AckedWritten, Lines
    <2> QED
        BY <2>2, <2>3 DEF Readable
<1> QED
    BY <1>1, <1>2, ReadableStep, PTL DEF Spec
=============================================================================
